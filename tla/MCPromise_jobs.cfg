SPECIFICATION FairSpec
CONSTANTS
    NbJobs = 3
    Desc <- OtherThenSame
    Consumers = {1, 2}
    Patient = {1}
    MaxPolls = 1
INVARIANTS
    NoFalseMiss
    NoOrphan
    FreshAfterPromise
PROPERTIES
    ImplementsAvailability
    NoEndlessWait
