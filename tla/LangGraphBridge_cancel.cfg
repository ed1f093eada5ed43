SPECIFICATION FairSpec
CONSTANTS
    MaximumAttempts = 2
    Answers = {"OK", "BUDGET_EXCEEDED", "STRATEGY_FAILED", "UNKNOWN"}
    MaxCuts = 1
    NoCall = NoCall
INVARIANTS
    CancelTakesEffect
CHECK_DEADLOCK FALSE
