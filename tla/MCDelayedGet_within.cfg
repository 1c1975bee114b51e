SPECIFICATION Spec
CONSTANTS
    N = 3
    Targets = {"t", "u"}
    Special = {}
    Within <- OneWithin
    MaxOther = 1
INVARIANTS
    OwnData
