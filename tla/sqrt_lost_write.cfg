SPECIFICATION Spec
CONSTANTS
    block_num = 2
    sqrt_m = 2
    Val = {v1, v2}
    Nonsense = Nonsense
    Cipher = Cipher
    DataSizes = {2}
    Shuffles <- MCShuffles
    MaxFills = 1
    MaxFaults = 0
INVARIANT LatestIsStored
CHECK_DEADLOCK FALSE
