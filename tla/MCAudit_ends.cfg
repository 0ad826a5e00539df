SPECIFICATION FairSpec
CONSTANTS
    Pages = {p1}
    p1 = p1
    Orchestrator = "polling"
    AuditAttempts = 2
    PageAttempts = 2
    MaxDeletes = 0
    MaxCrashes = 1
    MaxFaults = 1
    MaxLockLosses = 0
INVARIANT JobEndsAuditEnds
PROPERTIES LifecycleImplemented EnqueuedEnds
CHECK_DEADLOCK FALSE
