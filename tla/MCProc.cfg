CONSTANTS
    Procs = {p1, p2, p3}
    idleproc = idle
    initproc = init
    NULL = null
    MAX_TIME_SLICE = 1
    MaxSleep = 1
    Killable = {p1, p2, p3, init}
    InitThreads = 1
    MAX_PROCESS = 5
    CopyFilesFails = FALSE
SYMMETRY Symmetry
SPECIFICATION Spec
INVARIANTS
    ProcTypeOK
    QueueOk
    NoLostWakeup
    TimerOk
    NoDangling
    RelationsOk
    NoPanic
PROPERTIES
    ImplementsLife
