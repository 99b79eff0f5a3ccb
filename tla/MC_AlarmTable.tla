--------------------------- MODULE MC_AlarmTable ---------------------------
\* An instance of AlarmTable: alarms without delays, with every command; and with
\* delays, when the attributes go on changing.
EXTENDS AlarmTable

Delayed == {{"on_delay", "repeats"}, {"on_delay", "off_delay", "repeats"}}
SomeScenarios ==
    {{"others"}, {"silence", "others"}, {"disable", "others"}, {"shelve"}} \cup Delayed

SomeChanges  == [s \in SomeScenarios |-> IF s = {"others"} THEN 2 ELSE 1]
SomeCommands == [s \in SomeScenarios |-> IF s \in Delayed THEN 0 ELSE 1]
=============================================================================
