SPECIFICATION StrideFairSpec
CONSTANTS
    Procs <- MCProcs
    WORD = 6
    BIG_STRIDE = 2
    Priorities = {1, 2}
INVARIANTS
    HeapOk
PROPERTIES
    ImplementsIdeal
    NobodyStarves
