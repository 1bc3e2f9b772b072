SPECIFICATION FairSpec
CONSTANTS
    a1 = a1
    a2 = a2
    a3 = a3
    v1 = v1
    v2 = v2
    Addr = {a1, a2}
    Val = {v1, v2}
    NoVal = NoVal
    Pad = Pad
    block_num = 3
    bucket_size = 1
    Standalone = TRUE
    DataVectors <- TwoBlocks
    MaxFaults = 2
INVARIANTS
    TypeOK
    NoLoss
    OneCopy
    OnPath
    WritesEmptyBuckets
    NotFoundJustified
PROPERTIES
    LossIsLocal
    ImplementsStore
    EveryCallEnds
CHECK_DEADLOCK FALSE
