SPECIFICATION FairSpec
CONSTANTS
    router = router
    agent = agent
    Publishers <- MCPublishers
    Script <- MCScript
    Filters <- MCFilters
    Capacity = 2
    Buffer = 1
    Count = 2
    MaxConnects = 3
    MaxFaults = 1
INVARIANTS
    TypeOK
    InOrder
    NothingSkipped
PROPERTIES
    EndCloses
CHECK_DEADLOCK FALSE
