SPECIFICATION LFairSpec
CONSTANTS
    Doc = {1, 2, 3, 4}
    Limit = 2
    MaxTime = 2
CHECK_DEADLOCK FALSE
INVARIANTS
    StrictlyDescending
    NoneSkipped
PROPERTIES
    WalkEnds
