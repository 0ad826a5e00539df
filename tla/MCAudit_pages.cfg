SPECIFICATION Spec
CONSTANTS
    Pages = {p1, p2}
    p1 = p1
    p2 = p2
    Orchestrator = "flow"
    AuditAttempts = 1
    PageAttempts = 1
    MaxDeletes = 0
    MaxCrashes = 1
    MaxFaults = 0
    MaxLockLosses = 0
SYMMETRY Symmetry
INVARIANTS TypeOK FindingsOncePerRow JobsHaveOwnRows PublishedScoreExact
PROPERTY RowOutcomeFinal
CHECK_DEADLOCK FALSE
