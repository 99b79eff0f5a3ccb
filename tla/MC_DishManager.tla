--------------------------- MODULE MC_DishManager ---------------------------
\* Instances of DishManager.
EXTENDS DishManager

TwoModes == {"STANDBY-LP", "OPERATE"}

\* The power of the dish, left alone, and each command or handler with what may
\* go wrong around it.
EachTrouble ==
    {{"mains"},
     {"SetMaintenanceMode", "flush", "resetTasks"},
     {"SetStowMode", "tmLoss"},
     {"ConfigureBand"},
     {"estop", "expire"},
     {"estop", "fail"},
     {"resetMode"}}
OnlyMains == {{"mains"}}
=============================================================================
