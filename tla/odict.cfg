SPECIFICATION FairSpec
CONSTANTS
    Key = {1, 2, 3, 4}
    None = None
    Blank = Blank
    Gone = Gone
    Setups <- MCSetups
    MaxInserts = 5
    MaxDepth = 7
    MaxFaults = 1
    MaxLost = 2
INVARIANTS
    TreeSound
    FailuresJustified
PROPERTIES
    FindsFirst
    EveryCallEnds
CHECK_DEADLOCK FALSE
