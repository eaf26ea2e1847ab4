CONSTANTS
    Counts = {0, 1, 2, 3}
    Alignments = {1, 2}
    MaxSize = 5
    MaxDepth = 3
SPECIFICATION Spec
INVARIANTS
    ArenaHeapDisjoint
