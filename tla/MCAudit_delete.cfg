SPECIFICATION Spec
CONSTANTS
    Pages = {p1}
    p1 = p1
    Orchestrator = "flow"
    AuditAttempts = 1
    PageAttempts = 1
    MaxDeletes = 1
    MaxCrashes = 1
    MaxFaults = 1
    MaxLockLosses = 1
INVARIANT BatchesBounded
PROPERTY OnlyDeleteLeavesTerminal
CHECK_DEADLOCK FALSE
