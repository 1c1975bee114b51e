SPECIFICATION Spec
CONSTANTS
    N = 7
    File <- SevenFiles
    Rh <- SevenHandlers
    Groups <- SevenGroups
    Alternates = {3, 5, 7}
    Fatal = {4}
INVARIANT GroupHonoured
