CONSTANTS
    Families <- ElseIfs
    MaxDefers = 2
SPECIFICATION Spec
CHECK_DEADLOCK FALSE
INVARIANTS
    SkipsOnlyDeadCode
