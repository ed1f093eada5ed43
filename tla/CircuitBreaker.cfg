SPECIFICATION FairBreakerSpec
CONSTANTS
    Callers = {p1, p2, p3, p4}
    MaxRequests = 2
    FailureThreshold = 2
    SuccessThreshold = 2
INVARIANTS
    BreakerTypeOK
    SlotsAccounted
PROPERTIES
    StaleResultsIgnored
    Recovers
