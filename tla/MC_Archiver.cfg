SPECIFICATION FairSpec
CONSTANTS
    Attr = {a1, a2}
    NoAttr = NoAttr
    DbFails = TRUE
    MaxCommands = 3
INVARIANTS TypeOK CountersRight StoppedIsSilent SubscriptionKnown
PROPERTIES FailedIsRetried
CHECK_DEADLOCK FALSE
