SPECIFICATION FairSpec
CONSTANTS
    Files = {f1, f2}
INVARIANTS
    NeverGone
    SkippedIsThere
    WellEnded
PROPERTIES
    EndsInTime
