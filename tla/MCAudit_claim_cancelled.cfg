SPECIFICATION Spec
CONSTANTS
    Pages = {p1}
    p1 = p1
    Orchestrator = "flow"
    AuditAttempts = 3
    PageAttempts = 1
    MaxDeletes = 1
    MaxCrashes = 0
    MaxFaults = 0
    MaxLockLosses = 0
PROPERTY CancelledStaysCancelled
CHECK_DEADLOCK FALSE
