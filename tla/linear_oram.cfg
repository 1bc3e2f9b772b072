SPECIFICATION FairSpec
CONSTANTS
    a1 = a1
    a2 = a2
    a3 = a3
    v1 = v1
    v2 = v2
    Addr = {a1, a2, a3}
    Val = {v1, v2}
    NoVal = NoVal
    DataVectors <- Inputs
    MaxFaults = 3
INVARIANTS
    CopyIsCurrent
PROPERTIES
    AnswersAreTrue
    ImplementsStore
    EveryCallEnds
CHECK_DEADLOCK FALSE
