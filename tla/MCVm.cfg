SPECIFICATION Spec
CONSTANTS
    Procs = {p1, p2, p3}
    VASize = 8
    Programs <- MCPrograms
    Values = {0, 1}
    Shares = {TRUE, FALSE}
    NPages = 18
    PTSIZE = 2
    PDSIZE = 4
    USTACKSIZE = 2
    Touched = {0, 1, 2}
    Garbage = {0}
    MaxLost = 1
SYMMETRY Symmetry
CHECK_DEADLOCK FALSE
INVARIANTS
    VmTypeOK
    FramesExact
PROPERTIES
    ImplementsSpaces
