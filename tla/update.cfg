SPECIFICATION FairSpec
CONSTANTS
    Daemon = daemon
    Commands = {c1}
    MaxVersion = 3
    MaxFailures = 2
INVARIANT TypeOK
PROPERTIES NoStaleReapply MarkerGoes EventuallyLatest
