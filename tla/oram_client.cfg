SPECIFICATION FairSpec
CONSTANTS
    p1 = p1
    p2 = p2
    c1 = c1
    c2 = c2
    c3 = c3
    None = None
    Malformed = Malformed
    Nested = Nested
    ACharacter = ACharacter
    Process = {p1, p2}
    Client = {c1, c2, c3}
    ProcessOf <- MCProcessOf
    Scenarios <- MCScenarios
    Ids = {0, 1, 2}
    kMaximumOramStorageNum = 2
    MaxKeys = 4
    MaxStarts = 2
    MaxFaults = 1
INVARIANTS
    KeysKept
    StartJustified
PROPERTIES
    KeysAgree
    StartupEnds
CHECK_DEADLOCK FALSE
