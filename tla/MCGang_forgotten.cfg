SPECIFICATION GangSpec
CONSTANTS
    Entries = {1, 2, 3}
    Gangs = {1}
    GangOf <- OneOfThree
    AllowMissing = 1
    HasWaitlimit = TRUE
    InitEntry = {"expected"}
INVARIANTS
    NoGangForgotten
