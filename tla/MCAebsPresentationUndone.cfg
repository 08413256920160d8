SPECIFICATION DisplaySpec
CONSTANTS
    RestoreFrames = 1
    StaleAfter = 0
    RestoredHold = 1
    Topics = {"lifecycle", "warning", "native", "braking"}
    MaxBehind = 1
    MaxQueue = 1
    MaxFaults = 0
PROPERTIES
    ReleaseIsNotUndone
