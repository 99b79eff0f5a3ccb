SPECIFICATION FairSpec
CONSTANTS
    Modes <- TwoModes
    Scenarios <- EachTrouble
    MaxSequences = 2
    MaxHandlers = 1
    NoKind = NoKind
    NoTask = NoTask
INVARIANTS PowerOrdersCurrent NeverCutOff OneSequencePerCommand
PROPERTIES PowerCutHandled ImplementsScheduler
CHECK_DEADLOCK FALSE
