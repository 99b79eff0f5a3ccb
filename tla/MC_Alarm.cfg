SPECIFICATION FairSpec
CONSTANTS
    Scenarios <- SomeScenarios
    MaxChanges <- SomeChanges
    MaxCommands <- SomeCommands
INVARIANTS TypeOK AlarmShown
PROPERTIES StatusFollows
CHECK_DEADLOCK FALSE
