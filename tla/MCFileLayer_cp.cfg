SPECIFICATION MCLiveSpec
CONSTANTS
    Procs = {1, 2, 3}
    Foreign = {3}
    MaxLink = 8
    MaxCalls = 3
    MaxCrash = 1
INVARIANTS
    CacheUnaltered
    OwnerGetsIt
    LockExclusive
    DirThere
PROPERTIES
    AllEnd
CHECK_DEADLOCK FALSE
