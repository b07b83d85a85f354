SPECIFICATION FairSpec
CONSTANTS
    Cells = 2
    Values = {0, 1}
    Factory <- MCFactory
    Zero <- MCZero
    Backups = 2
    SaveDelay = 2
    RetryDelay = 3
    FrameCycles = {1, 3}
    MaxLoads = 3
    MaxChanges = 3
    MaxFails = 2
INVARIANTS Settled LastGoodKept
PROPERTY SavedInTheEnd
CHECK_DEADLOCK FALSE
