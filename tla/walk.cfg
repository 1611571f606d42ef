SPECIFICATION FairSpec
CONSTANTS
    NSites = 2
    MaxRuns = 1
    MaxCrashes = 1
    MaxEvents = 1
    MaxQueue = 1
CHECK_DEADLOCK FALSE
INVARIANTS TypeOK SitesWalkedInOrder DoneWasReported CompletedRunStamped
PROPERTY ArmedRunEnds
