SPECIFICATION Spec
CONSTANTS
    Conns = {c1, c2, c3}
    Messages = {m1}
    None = None
SYMMETRY Symmetry
INVARIANTS
    GrantIsBacked
    SignalledOnce
    DisconnectReleases
CHECK_DEADLOCK FALSE
