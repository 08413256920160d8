SPECIFICATION FairDisplaySpec
CONSTANTS
    RestoreFrames = 2
    StaleAfter = 0
    RestoredHold = 1
    Topics = {"lifecycle", "warning", "native", "braking"}
    MaxBehind = 1
    MaxQueue = 1
    MaxFaults = 1
INVARIANTS
    ReleasedIsReal
PROPERTIES
    ReleaseIsNotForgotten
    SilenceIsShown
    ReleaseIsShown
CONSTRAINTS
    MCFaultsOfTheLifecycle
    MCOneOtherTopic
