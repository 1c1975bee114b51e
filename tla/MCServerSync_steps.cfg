SPECIFICATION FairSpec
CONSTANTS
    K = 3
INVARIANTS
    SuccessMeansDone
PROPERTIES
    TakesTurns
    BothEnd
