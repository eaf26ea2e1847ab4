CONSTANTS
    Families <- OnlyCleanups
    MaxDefers = 2
SPECIFICATION Spec
CHECK_DEADLOCK FALSE
INVARIANTS
    NoneSkipped
