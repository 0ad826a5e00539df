SPECIFICATION Spec
CONSTANTS
    Channels = {c1, c2}
    Broken = {c2}
    Clients = {k1}
    c1 = c1
    c2 = c2
    k1 = k1
    MaxAttempts = 2
    QueueAttempts = 2
    MaxJobs = 4
    MaxPosts = 1
    MaxRetries = 1
    MaxCancels = 1
    MaxCrashes = 0
    MaxFaults = 0
    MaxOutages = 1
INVARIANTS NoOrphanPublish BoundedByRequests
CHECK_DEADLOCK FALSE
