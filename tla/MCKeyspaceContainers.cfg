SPECIFICATION Spec
CONSTANTS
    k1 = k1
    k2 = k2
    s1 = s1
    n1 = n1
    e1 = e1
    c1 = c1
    c2 = c2
    Absent = Absent
    Rank <- MCRank
    Key = {k1, k2}
    Str = {s1}
    NumStr = {}
    Member = {e1}
    DB = {0}
    Conn = {c1}
    Int64Max = 3
    MsPerSec = 1
    MaxScan = 2
    PxArgs = {}
    ExArgs = {1}
    MaxNow = 1
INVARIANTS NoOrphanDeadline NoNullDereference NoEmptySetOrList
PROPERTIES ImplementsTtlStore
