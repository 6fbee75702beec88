SPECIFICATION Spec
CONSTANTS
    k1 = k1
    k2 = k2
    s1 = s1
    n1 = n1
    e1 = e1
    c1 = c1
    c2 = c2
    Absent = Absent
    Rank <- MCRank
    Key = {k1, k2}
    Str = {s1}
    NumStr = {}
    Member = {}
    DB = {0}
    Conn = {c1}
    Int64Max = 4
    MsPerSec = 2
    MaxScan = 1
    PxArgs = {1}
    ExArgs = {0, 3}
    MaxNow = 2
INVARIANTS SetIsStored
