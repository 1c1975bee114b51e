SPECIFICATION LiveSpec
CONSTANTS
    N = 3
    Targets = {"t", "u"}
    Special = {"u"}
    Within <- NoneWithin
    MaxOther = 1
INVARIANTS
    OwnData
    FailsRightly
    EachSettledOnce
PROPERTIES
    BatchEnds
