SPECIFICATION FairSpec
CONSTANTS
    h1 = h1  h2 = h2
    d1 = d1  d2 = d2  d3 = d3
    r1 = r1  r2 = r2  r3 = r3
    Req = {r1, r2, r3}
    Hash = {h1, h2}
    DocId = {d1, d2}
    NoHash = NoHash
    NoId = NoId
    ChunksOf <- MCChunksOf
    MaxConns = 2
    MaxStarts = 4
    MaxFaults = 1
CHECK_DEADLOCK FALSE
PROPERTIES
    RequestsEnd
    ImplementsDocIndex
