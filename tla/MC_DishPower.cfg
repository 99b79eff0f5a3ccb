SPECIFICATION FairSpec
CONSTANTS
    Modes <- TwoModes
    Scenarios <- OnlyMains
    MaxSequences = 2
    MaxHandlers = 1
    NoKind = NoKind
    NoTask = NoTask
PROPERTIES PowerRestoreHandled
CHECK_DEADLOCK FALSE
