SPECIFICATION Spec
CONSTANTS
    Width = 4
    MaxSize = 5
INVARIANTS
    SamplesSound
CHECK_DEADLOCK FALSE
