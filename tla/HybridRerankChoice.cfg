SPECIFICATION Spec
CONSTANTS
    h1 = h1  h2 = h2
    Hash = {h1, h2}
    DocId = {1, 2}
    NoHash = NoHash
    ChunksOf <- MCChunksOf
    RRFK = 60
    MaxList = 3
    MaxChunks = 2
    KeywordScore <- MCKeywordScore
    VectorScore <- MCVectorScore
    RerankScore <- MCRerankScore
    Modes = {"hybrid+rerank"}
    Ks = {1, 3}
    DefaultK = 2
    PerListLimit = 3
    RerankInputN = 2
    RerankerKinds = {"heuristic"}
    MaxQueries = 1
    MaxFaults = 1
CHECK_DEADLOCK FALSE
INVARIANTS
    RerankHasChoice
