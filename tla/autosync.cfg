SPECIFICATION FairSpec
CONSTANTS
    Stale = 2
    MaxNow = 3
    Pages = {1, 2}
    MaxRuns = 2
    MaxEvents = 2
    MaxFaults = 1
INVARIANTS TypeOK ClosesOnlyUnseen
PROPERTIES NotNagged NotParked DueIsOpened
CHECK_DEADLOCK FALSE
