SPECIFICATION FairSpec
CONSTANTS
    Channels = {c1}
    Broken = {}
    Clients = {k1}
    c1 = c1
    k1 = k1
    MaxAttempts = 2
    QueueAttempts = 2
    MaxJobs = 3
    MaxPosts = 1
    MaxRetries = 0
    MaxCancels = 0
    MaxCrashes = 1
    MaxFaults = 1
    MaxOutages = 0
INVARIANT NoOrphanPublish
PROPERTY PublishesEnd
CHECK_DEADLOCK FALSE
