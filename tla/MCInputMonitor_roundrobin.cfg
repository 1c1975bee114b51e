SPECIFICATION CrawlSpec
CONSTANTS
    N = 4
    Threshold = 1
    Fatal <- NoFatal
    Alternates <- NoAlternate
    InitStages <- OnlyExpected
    MaxRepromise = 0
    MaxNews = 9
PROPERTY
    RoundRobin
CHECK_DEADLOCK FALSE
