SPECIFICATION FairSpec
CONSTANTS
    v1 = v1
    v2 = v2
    Addr = {0, 1}
    Val = {v1, v2}
    NoVal = NoVal
    Garbage = Garbage
    NoAddr = NoAddr
    squared = 2
    PathCapacity = 2
    NuValues = {0, 1}
    Inputs <- MCInputs
    MaxFaults = 1
    MaxControllers = 3
    MaxHeld = 2
INVARIANTS
    Consistent
    UndefinedJustified
PROPERTIES
    GarbageJustified
    EveryCallEnds
CHECK_DEADLOCK FALSE
