SPECIFICATION PatientSpec
CONSTANTS
    N = 2
    Threshold = 1
    Fatal <- FirstFatal
    Alternates <- SecondAlternate
    InitStages <- UfoAndExpected
    MaxRepromise = 1
    MaxNews = 3
INVARIANTS
    HandedOutInOrder
    CopiesAgree
    AvailableIsFetched
PROPERTIES
    OnlyAlternatesWait
