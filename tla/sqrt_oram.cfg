SPECIFICATION FairSpec
CONSTANTS
    block_num = 2
    sqrt_m = 2
    Val = {v1}
    Nonsense = Nonsense
    Cipher = Cipher
    DataSizes = {2}
    Shuffles <- MCShuffles
    MaxFills = 2
    MaxFaults = 1
INVARIANTS
    TypeOK
    PositionsAgree
    ShelterDrained
    NoPanic
PROPERTIES
    EveryCallEnds
CHECK_DEADLOCK FALSE
