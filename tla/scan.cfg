SPECIFICATION FairSpec
CONSTANTS
    Conversations = {1, 2, 3}
    Undated = {2}
    Unpackable = {3}
    PageSize = 2
    MaxTime = 3
    MaxFailures = 1
INVARIANTS TypeOK CoveredIsAccounted UnpackableNotAlone
PROPERTIES ScanEnds Reauthorizes Backfilled
