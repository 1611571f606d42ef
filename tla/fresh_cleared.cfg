SPECIFICATION Spec
CONSTANTS
    Clicks = {"login", "logout", "sync", "force", "update"}
    MaxClicks = 1
    MaxTokens = 2
    Interval = 1
    Expiry = 1
PROPERTIES OnlyStaleCleared
