SPECIFICATION LiveSpec
CONSTANTS
    Jobs = {j1, j2}
    Names <- OneName
    InStack <- OneName
    Tube = "ftp"
    Options = {"any", "incache"}
    MaxCalls = 3
    MaxPurge = 1
    MaxFault = 1
INVARIANTS
    OwnCopy
    NoFalseMiss
    PutEverywhere
    DeletedIsGone
PROPERTIES
    GetEnds
CHECK_DEADLOCK FALSE
