CONSTANTS
    Procs = {p1, p2}
    idleproc = idle
    initproc = init
    NULL = null
    MAX_TIME_SLICE = 2
    MaxSleep = 2
    Killable = {p1, p2}
    InitThreads = 1
    MAX_PROCESS = 4
    CopyFilesFails = FALSE
SPECIFICATION FairSpec
PROPERTIES
    RunnableRuns
    KilledEndsOrWaits
    SleeperWakes
    ParentGoesOn
    OrphanReaped
