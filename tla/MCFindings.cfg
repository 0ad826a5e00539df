SPECIFICATION Spec
CONSTANTS
    Clients = {k1}
    Occurrences <- MCOccurrences
    Looks <- MCLooks
    PageAttempts = 2
    MaxRows = 2
    MaxCrashes = 1
    MaxFaults = 1
    Browsers = {b1, b2}
    MaxSuggestions = 3
    MaxAsks = 5
INVARIANT LineageExact
PROPERTIES DecisionsKept ReauditEnds
CHECK_DEADLOCK FALSE
