SPECIFICATION FairSpec
CONSTANTS
    Clients = {k1, k2}
    k1 = k1
    k2 = k2
    Attempts = 2
    MaxRequests = 3
    MaxPublishes = 2
    MaxCrashes = 1
    MaxFaults = 1
    MaxLockLosses = 1
INVARIANTS TypeOK CompletedJobEnded
PROPERTIES EndedStaysEnded ApprovedTextChanges EnqueuedGenerationEnds
CHECK_DEADLOCK FALSE
