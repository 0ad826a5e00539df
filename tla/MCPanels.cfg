SPECIFICATION Spec
CONSTANTS
    Panels = {p1}
    Sites = {s1}
    NoSite = NoSite
    Secrets = {1, 2}
    Lag = 1
    Retention = 4
    Recent = 3
    SyncAttempts = 2
    SyncDays = 2
    MaxRestarts = 1
    MaxSyncFaults = 1
    MaxVisits = 3
    MaxFetchFaults = 1
    MaxClicks = 2
    MaxOthers = 1
    Ids = {"a", "b"}
    Tabs = {"t1", "t2"}
    TelemetryMax = 2
    MaxEvents = 4
    MaxTurns = 2
INVARIANT SyncKept
PROPERTIES SyncSeenToEnd ScreenTruth LinksLand SessionKeepsUp
CHECK_DEADLOCK FALSE
