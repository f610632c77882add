SPECIFICATION FairSpec
CONSTANTS
    Count = 6
    Worker = {w1, w2}
    MaxFaults = 2
CHECK_DEADLOCK FALSE
INVARIANTS
    EveryDocAccounted
    PoolInv
PROPERTIES
    RunEnds
