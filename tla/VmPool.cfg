SPECIFICATION FairSpec
CONSTANTS
    r1 = r1
    r2 = r2
    s1 = s1
    None = None
    Requests = {r1, r2}
    Sessions = {s1}
    WarmCount = 1
    MaxCount = 2
    MaxFailures = 1
INVARIANTS
    EverySlotIsAVm
    DriveIsExclusive
    CleanIsSynced
PROPERTIES
    EveryRequestEnds
CHECK_DEADLOCK FALSE
