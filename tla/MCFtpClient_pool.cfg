SPECIFICATION FtpSpec
CONSTANTS
    RetryDefault = 3
    RetryLogin = 2
    RetryConnect = 4
    Streams = FALSE
    MaxLease = 3
    NoBudget = NoBudget
CHECK_DEADLOCK FALSE
INVARIANT ReusedLikeNew
