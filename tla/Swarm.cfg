SPECIFICATION FairSpec
CONSTANTS
    t1 = t1
    t2 = t2
    NoTask = NoTask
    Tasks <- MCTasks
    Deps <- MCDeps
    Plans <- MCPlans
    MaxAgents = 2
    MaxIterations = 1
    PerReassign = 2
    TotalIterations = 3
    MaxReassignments = 1
    Obedient = TRUE
    MaxActions = 1
    MaxTroubles = 1
INVARIANTS
    InProgressIsTracked
PROPERTIES
    OneAgentPerTask
    DepsHonoured
    DoneOnlyWhenQuiet
    EverythingEnds
CHECK_DEADLOCK FALSE
