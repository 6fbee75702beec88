SPECIFICATION FairSpec
CONSTANTS
    p1 = p1
    p2 = p2
    f1 = f1
    f2 = f2
    Empty = Empty
    Free = Free
    Producer = {p1, p2}
    Awaiter = {p1}
    Consumer = {f1}
    Capacity = 2
    MaxBatch = 2
    MaxCalls = 2
    MayShutdown = FALSE
INVARIANTS TypeOK NoSlotClash
PROPERTIES ImplementsChannel CallsReturn ClosuresRun
