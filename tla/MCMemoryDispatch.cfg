CONSTANTS
    Counts = {0, 1, 2, 3}
    Alignments = {1, 2}
    MaxSize = 5
    MaxDepth = 3
    k1 = k1
    k2 = k2
    k3 = k3
    k4 = k4
    Keys = {k1, k2, k3, k4}
    Values = {u, v}
    None = None
    FirstCapacity = 4
    MaxCapacity = 8
    Sizes = {0, 5}
    ArenaAlignments = {1, 4}
    BlockSize = 4
    BlockAlign = 2
    DefaultAlign = 4
    EntrySize = 2
    EntryAlign = 2
    WordSize = 64
    MaxBlocks = 3
    MaxLive = 5
    MaxMarks = 2
    Program <- Functions
    Main <- MainFunction
    Bindings <- MainBindings
    Literals = {3, 5}
    Floats = {2}
    ImmediateBits = 2
    IntBits = 4
    MaxStatements = 6
    MaxFrames = 3
SPECIFICATION MachineSpec
INVARIANT DispatchByType
