SPECIFICATION FairSpec
CONSTANTS
    Key = {0, 1, 2, 6, 8, 12}
    Val = {v1, v2}
    Absent = Absent
    HashBits = 4
    Hash <- SmallHash
    InitialDepth = 0
    MaxSegmentSize = 3
INVARIANTS DirectoryConsistent IterationIsExact SegmentsBounded
PROPERTIES ImplementsMap InsertEnds
