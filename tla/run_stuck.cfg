SPECIFICATION FairSpec
CONSTANTS
    NSites = 1
    MaxRuns = 2
    MaxCrashes = 0
    MaxEvents = 0
    MaxQueue = 1
CHECK_DEADLOCK FALSE
PROPERTY RunEnds
