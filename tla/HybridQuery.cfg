SPECIFICATION FairSpec
CONSTANTS
    h1 = h1  h2 = h2
    Hash = {h1, h2}
    DocId = {1, 2}
    NoHash = NoHash
    ChunksOf <- MCChunksOf
    RRFK = 60
    MaxList = 3
    MaxChunks = 2
    KeywordScore <- MCKeywordScore
    VectorScore <- MCVectorScore
    RerankScore <- MCRerankScore
    Modes = {"hybrid", "keyword", "vector", "hybrid+rerank"}
    Ks = {0, 2, 3}
    DefaultK = 1
    PerListLimit = 2
    RerankInputN = 2
    RerankerKinds = {"none", "heuristic", "cross"}
    MaxQueries = 2
    MaxFaults = 1
CHECK_DEADLOCK FALSE
INVARIANTS
    NothingDeletedBefore
    ShortPageComplete
    ResultsFound
PROPERTIES
    QueryAnswered
