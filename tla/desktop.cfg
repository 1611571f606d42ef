SPECIFICATION Spec
CONSTANTS
    Clients = {"daemon", "cli"}
    Interactive = {"cli"}
    Sources = {1}
    Cowork = {}
    Cursor = {1}
    Broken = {}
    Sessions = {1, 2, 3}
    Source <- OneSource
    Undated = {2}
    Noisy = {}
    Size <- MixedSizes
    MaxBody = 4
    ServerLimit = 2
    MaxRetries = 0
    MaxTime = 3
    MaxCrashes = 0
INVARIANTS TypeOK CoveredIsAccounted EmptyBodyReadNothing
