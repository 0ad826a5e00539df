SPECIFICATION Spec
CONSTANTS
    Channels = {c1, c2}
    Broken = {}
    Clients = {k1, k2}
    c1 = c1
    c2 = c2
    k1 = k1
    k2 = k2
    MaxAttempts = 2
    QueueAttempts = 1
    MaxJobs = 4
    MaxPosts = 2
    MaxRetries = 1
    MaxCancels = 0
    MaxCrashes = 0
    MaxFaults = 0
    MaxOutages = 0
SYMMETRY Symmetry
INVARIANTS TypeOK ReviewStateSettles
CHECK_DEADLOCK FALSE
