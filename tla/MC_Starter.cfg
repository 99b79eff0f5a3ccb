SPECIFICATION FairSpec
CONSTANTS
    ds = ds
    dm = dm
    Server = {ds, dm}
    Place <- TwoPlaces
    Level <- TwoLevels
    NbLevels = 2
    MaxThreads = 3
    MaxCommands = 1
    MaxTrouble = 1
INVARIANTS TypeOK LevelsOwned LevelsInOrder
PROPERTIES StoppedStaysDown RestartUnlessStopped EveryThreadEnds HostSettles
CHECK_DEADLOCK FALSE
