SPECIFICATION Spec
CONSTANTS
    Jobs = {j1, j2}
    Names <- TwoNames
    InStack <- TwoNames
    Tube = "ftp"
    Options = {"any"}
    MaxCalls = 2
    MaxPurge = 0
    MaxFault = 0
INVARIANT StackKept
CHECK_DEADLOCK FALSE
