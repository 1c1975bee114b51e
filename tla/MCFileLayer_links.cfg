SPECIFICATION MCSpec
CONSTANTS
    Procs = {1, 2, 3}
    Foreign = {3}
    MaxLink = 8
    MaxCalls = 3
    MaxCrash = 1
INVARIANT GetsIt
CHECK_DEADLOCK FALSE
