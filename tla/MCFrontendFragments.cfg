CONSTANTS
    c1 = c1  c2 = c2
    Conn = {c1, c2}
    NumVcpus = 2
    VcpuOf <- MCVcpuOf
    ShardOf <- MCShardOf
    Victim <- MCVictim
    Input <- MCInput
    MayHangUp = {c1}
    FlushThreshold = 2
    PauseMs = 1
    Int64Max = 3
    MaxNow = 0
SPECIFICATION Spec
INVARIANTS FragmentationIsInvisible
CHECK_DEADLOCK FALSE
