SPECIFICATION FairSpec
CONSTANTS
    c1 = c1
    a = a
    b = b
    d = d
    Calls = {c1}
    NoCall = NoCall
    Agents = {a, b, d}
    Lead = Lead
    Deps <- JoinDeps
    Kinds = {"sample", "dag", "research", "swarm"}
    Budget = 2
    MaxUsage = 1
    MaxRounds = 2
    WorkerRounds = 2
    MaxReady = 3
    WaveLimit <- Limits
    MaxCancels = 1
INVARIANTS
    TypeOK
    BoundedOvershoot
    OkIsFinal
PROPERTIES
    NoWorkBeforeApproval
    EveryCallEnds
    RpcSpec
CHECK_DEADLOCK FALSE
