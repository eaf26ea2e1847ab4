CONSTANTS
    Keys = {k1, k2, k3, k4}
    Values = {u}
    None = None
    FirstCapacity = 4
    MaxCapacity = 4
SYMMETRY Symmetry
SPECIFICATION MapSpec
INVARIANTS
    LookupReturns
