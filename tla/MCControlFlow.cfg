CONSTANTS
    Families <- AllFamilies
    MaxDefers = 2
SPECIFICATION Spec
CHECK_DEADLOCK FALSE
INVARIANTS
    LandsInScope
    DefersRunOnce
    ExitsInReverse
    FallsOnlyWhereMiscounted
    ProofsHold
    ReadsLive
