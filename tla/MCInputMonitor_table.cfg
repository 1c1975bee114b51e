SPECIFICATION Spec
CONSTANTS
    N = 3
    Threshold = 1
    Fatal <- FirstFatal
    Alternates <- NoAlternate
    InitStages <- UfoAndExpected
    MaxRepromise = 0
    MaxNews = 9
INVARIANTS
    TypeOK
    HandedOutInOrder
    AllDoneIsTrue
PROPERTIES
    NoGetAfterQuit
