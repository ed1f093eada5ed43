SPECIFICATION Spec
CONSTANTS
    Requests = {r1, r2}
    Responders = {u1, u2}
    Notifiers = {n1}
    None = None
INVARIANTS
    DecidedOnce
    NeverLost
    OnlyRestoredRemain
CHECK_DEADLOCK FALSE
