SPECIFICATION TimerSpec
CONSTANTS
    Entries = {1, 2, 3, 4}
    Gangs = {1, 2}
    GangOf <- ThreeAndOne
    AllowMissing = 2
    HasWaitlimit = TRUE
    InitEntry = {"ufo", "expected", "available"}
INVARIANTS
    Classified
PROPERTIES
    HandedOutRightly
    WaitLimitHonoured
    LoopEnds
