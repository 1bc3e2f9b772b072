SPECIFICATION Spec
CONSTANTS
    a1 = a1
    a2 = a2
    a3 = a3
    v1 = v1
    v2 = v2
    Addr = {a1, a2, a3}
    Val = {v1}
    NoVal = NoVal
    Pad = Pad
    block_num = 3
    bucket_size = 1
    Standalone = FALSE
    DataVectors <- ThreeBlocks
    MaxFaults = 1
INVARIANTS
    IInv
PROPERTIES
    ImplementsStore
CHECK_DEADLOCK FALSE
