CONSTANTS
    Conn = {"c0", "c1"}
    NumShards = 2
    NumDBs = 2
    Key = {"a", "b", "z"}
    Str = {"x", "y"}
    Member = {"m"}
    Absent = Absent
    Home <- MCHome
    VcpuOf <- MCVcpuOf
    Command <- MCCommand
    MaxCalls = 2
SPECIFICATION Spec
INVARIANT AnswersWhereverAsked
CHECK_DEADLOCK FALSE
