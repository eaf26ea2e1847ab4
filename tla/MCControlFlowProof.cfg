CONSTANTS
    Families <- OnlyProofs
    MaxDefers = 2
SPECIFICATION Spec
CHECK_DEADLOCK FALSE
INVARIANTS
    NullSafe
