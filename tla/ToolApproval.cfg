SPECIFICATION FairToolSpec
CONSTANTS
    Branches = {b1, b2}
    Bindings = {x, y}
    NoBinding = NoBinding
    MaxRounds = 2
    MaxDecisions = 3
INVARIANTS
    OneRunPerApproval
PROPERTIES
    RunsWhatWasDecided
    EveryAskEnds
CHECK_DEADLOCK FALSE
