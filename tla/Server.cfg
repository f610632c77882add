SPECIFICATION SFairSpec
CONSTANTS
    Request = {1, 2, 3}
    PoolSize = 1
    h1 = h1
    Hash = {h1}
    DocId = {1}
    NoHash = NoHash
    ChunksOf <- MCChunksOf
    Ops = {"index", "get", "delete", "compact", "bad"}
    Slow = {1}
    Stages = {"absent", "live"}
    MaxFaults = 1
CHECK_DEADLOCK FALSE
INVARIANTS
    Graceful
    AnswersFit
    ReadsFollowAnswers
PROPERTIES
    Exits
    RequestsEnd
