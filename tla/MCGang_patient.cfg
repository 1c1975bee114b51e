SPECIFICATION TimerSpec
CONSTANTS
    Entries = {1, 2, 3, 4}
    Gangs = {1, 2}
    GangOf <- ThreeAndOne
    AllowMissing = 1
    HasWaitlimit = FALSE
    InitEntry = {"expected"}
INVARIANTS
    NoGangForgotten
PROPERTIES
    LoopEnds
