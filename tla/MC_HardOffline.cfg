SPECIFICATION FairSpec
CONSTANTS
    ds = ds
    progress = progress
    Proxy = {ds}
    Formula = {progress}
    Vars <- ProgressVars
    InvalidIfOld = {progress}
    MaxEvents = 2
    MaxReading = 2
    MaxTrouble = 1
    Safe = Safe
    NoFormula = NoFormula
    NoEvent = NoEvent
PROPERTIES FallbackKept
CHECK_DEADLOCK FALSE
