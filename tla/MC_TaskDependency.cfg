CONSTANTS
    N = 3
    Now = 1
    Rows <- ShortRows
    Specs <- MixedSpecs
SPECIFICATION Spec
INVARIANTS
    CyclesRefused
    SortedTopologically
    TimesFit
    QueueOrderTotal
CHECK_DEADLOCK FALSE
