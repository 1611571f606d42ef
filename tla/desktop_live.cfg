SPECIFICATION BackfillSpec
CONSTANTS
    Clients = {"daemon"}
    Interactive = {}
    Sources = {1, 2, 3}
    Cowork = {}
    Cursor = {1}
    Broken = {3}
    Sessions = {1, 2}
    Source <- Second
    Undated = {}
    Noisy = {}
    Size <- PairSizes
    MaxBody = 4
    ServerLimit = 3
    MaxRetries = 1
    MaxTime = 3
    MaxCrashes = 1
PROPERTIES SyncEnds Backfilled
