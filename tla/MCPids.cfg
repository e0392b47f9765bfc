SPECIFICATION FairSpec
CONSTANTS
    MAX_PROCESS = 8
    MAX_PID = 10
INVARIANT PidsUnique
PROPERTY GetPidEnds
