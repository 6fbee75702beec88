CONSTANTS
    k1 = k1  n1 = n1  empty = empty
    NumVcpus = 2
    NumShards = 2
    NumDBs = 2
    Key = {k1, n1, empty}
    IntKey = {n1}
    EmptyKey = empty
    Writes <- MCWrites
    Str = {"", "a"}
    NumStr = {}
    Member = {"m"}
    Absent = Absent
    Rank <- MCRank
    Homes <- MCHomes
    Job = {1, 2}
    Int64Max = 3
    MsPerSec = 1
    MaxScan = 1
    Budgets <- MCBudgets
    MaxNow = 1
SPECIFICATION FairSpec
INVARIANTS TypeOK StartMeansServing ServingStopsSafely   StringsAreBack
PROPERTIES StartDecides StopEnds BgSaveEnds
CHECK_DEADLOCK FALSE
