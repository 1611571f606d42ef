SPECIFICATION Spec
CONSTANTS
    Clients = {"daemon", "cli"}
    Interactive = {"cli"}
    Sources = {1, 2}
    Cowork = {1}
    Cursor = {}
    Broken = {}
    Sessions = {1, 2}
    Source <- OneEach
    Undated = {}
    Noisy = {1}
    Size <- PairSizes
    MaxBody = 4
    ServerLimit = 3
    MaxRetries = 0
    MaxTime = 3
    MaxCrashes = 0
INVARIANT IgnoredNotSent
