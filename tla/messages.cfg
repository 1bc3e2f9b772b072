SPECIFICATION Spec
CONSTANTS
    Absent = Absent
    MaxSets = 3
    MaxCut = 8
    Numbers = {0, 300}
    Payloads <- MCPayloads
    Versions = {0, 2, 6}
INVARIANTS
    Delivered
    WireSound
CHECK_DEADLOCK FALSE
