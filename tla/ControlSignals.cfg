SPECIFICATION FairSpec
CONSTANTS
    Root = Root
    k1 = k1
    k2 = k2
    Kids = {k1, k2}
    NoKid = NoKid
    RootCheckpoints = 1
    KidCheckpoints = 1
    Checkpoints <- TwoLevels
    MaxCommands = 3
INVARIANTS
    NoChildLeftPaused
PROPERTIES
    ResumeFrees
    CancelEnds
CHECK_DEADLOCK FALSE
