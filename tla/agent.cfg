SPECIFICATION FairSpec
CONSTANTS
    Clicks = {"login", "logout", "sync", "force", "update", "pause"}
    MaxClicks = 1
    MaxTokens = 1
    Interval = 1
    Expiry = 2
INVARIANTS TypeOK
PROPERTIES LogoutSticks PublishReturns LoginEnds LoginSyncs LogoutNoticed ShownCatchesUp
