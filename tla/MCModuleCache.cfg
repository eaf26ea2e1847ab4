CONSTANTS
    main = main
    dep = dep
    CacheKeys = {k}
    Paths = {main, dep}
    Fingerprints = {f1, f2}
    Clients = {c1, c2, c3}
    Builds = {b1, b2, b3}
    None = None
    DependencySets <- Cycle
    MaxEpoch = 2
SYMMETRY Symmetry
SPECIFICATION Spec
INVARIANTS
    CachedIsCurrent
    ReverseExact
    InFlightExact
    SingleFlight
PROPERTIES
    ImplementsContract
