SPECIFICATION Spec
CONSTANTS
    NSites = 1
    MaxRuns = 2
    MaxCrashes = 1
    MaxEvents = 0
    MaxQueue = 1
CHECK_DEADLOCK FALSE
INVARIANT OpenTabsOwned
PROPERTY RunsKeepContract
