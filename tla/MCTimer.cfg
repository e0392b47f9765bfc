SPECIFICATION TimerSpec
CONSTANTS
    Owners = {p1, p2, p3, p4, p5}
    MaxTicks = 5
INVARIANT TimerTypeOK
PROPERTY ImplementsTimeouts
SYMMETRY Symmetry
