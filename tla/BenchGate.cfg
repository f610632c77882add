SPECIFICATION Spec
CONSTANTS
    Lat = {1, 3, 4}
    Floor = 2
    Tol = 30
    Pcts = {500, 950, 990, 999}
    Queries = 20
    Scale = 2
    BaseRaw <- MCBaseRaw
    FreshRaw <- MCFreshRaw
CHECK_DEADLOCK FALSE
INVARIANTS
    PassIsAsFast
    FailHasCause
