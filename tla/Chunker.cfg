SPECIFICATION FairSpec
CONSTANTS
    MaxLen = 6
    RawTargets = {0, 3}
    RawMaxes = {0, 1, 4}
    RawOverlaps <- MCOverlaps
    DefaultTarget = 2
    DefaultMax = 3
CHECK_DEADLOCK FALSE
INVARIANTS
    ChunksBounded
    NothingLost
    ChunksOrdered
    SplitInv
PROPERTIES
    Terminates
