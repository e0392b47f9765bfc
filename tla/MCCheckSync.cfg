SPECIFICATION FairSpec
CONSTANTS
    Procs = {0, 1, 2, 3}
    N = 4
    TIMES = 1
    SLEEP_TIME = 1
    idleproc = idle
    initproc = init
    NULL = null
    MAX_TIME_SLICE = 1
    MaxSleep = 1
    Sems = {0, 1, 2, 3, 4, 5}
INVARIANTS
    NeighboursNeverEat
    SemOk
    MonitorOk
PROPERTIES
    CheckSyncEnds
    HungryEats
