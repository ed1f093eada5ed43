SPECIFICATION FairSpec
CONSTANTS
    MaximumAttempts = 2
    Answers = {"OK", "BUDGET_EXCEEDED", "STRATEGY_FAILED", "UNKNOWN"}
    MaxCuts = 1
    NoCall = NoCall
INVARIANTS
    OverlapOnlyAfterLoss
    CancelHasACause
    SuccessIsAnotherCall
PROPERTIES
    WorkflowReturns
CHECK_DEADLOCK FALSE
