SPECIFICATION FairSpec
CONSTANTS
    Procs = {p1, p2}
    idleproc = idle
    initproc = init
    NULL = null
    MAX_TIME_SLICE = 1
    MaxSleep = 1
    Keys = {a, b}
    STDIN_BUFSIZE = 2
    MaxLen = 2
    MaxTyped = 3
INVARIANTS
    NoSleepOnInput
    LinkedOk
PROPERTIES
    ImplementsKeyboard
    KeyIsRead
