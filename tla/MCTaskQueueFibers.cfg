SPECIFICATION FairSpec
CONSTANTS
    p1 = p1
    p2 = p2
    f1 = f1
    f2 = f2
    Empty = Empty
    Free = Free
    Producer = {p1}
    Awaiter = {}
    Consumer = {f1, f2}
    Capacity = 2
    MaxBatch = 2
    MaxCalls = 3
    MayShutdown = TRUE
 
PROPERTIES ImplementsChannel ShutdownEnds
CHECK_DEADLOCK FALSE
