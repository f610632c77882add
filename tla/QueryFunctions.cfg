SPECIFICATION QSpec
CONSTANTS
    MaxQueryRunes = 3
    MaxInput = 6
    RRFK = 60
    MaxList = 3
    Id = {1, 2, 3, 4}
    Signal = {"bm25", "vector"}
    TopN = {1, 2, 10}
    QueryWords = 2
    MaxWords = 3
    Target = 2
CHECK_DEADLOCK FALSE
INVARIANTS
    BoundariesKept
    FixedPoint
    SanitizeInv
    OrderIndependent
    ParetoOrder
    RerankDominates
