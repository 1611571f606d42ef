SPECIFICATION FairSpec
CONSTANTS
    MaxPid = 5
    MaxLaunches = 2
    MaxVersion = 2
    MaxFailures = 1
INVARIANTS TypeOK OneDaemon HolderRecorded
PROPERTIES ComesToRest LaunchLeavesDaemon IncumbentGoes
CHECK_DEADLOCK FALSE
