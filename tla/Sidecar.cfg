SPECIFICATION SSpec
CONSTANTS
    MaxTexts = 4
    BatchSizes = {0, 1, 3}
    DefaultBatch = 2
    Dim = 384
    OtherDim = 768
    Thread = {t1, t2, t3}
    Caller = t1
CHECK_DEADLOCK FALSE
INVARIANTS
    OwnVector
    ReadyIsWarm
PROPERTIES
    DocumentEnds
