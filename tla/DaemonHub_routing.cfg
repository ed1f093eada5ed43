SPECIFICATION Spec
CONSTANTS
    Conns = {c1, c2}
    Messages = {m1}
    None = None
SYMMETRY Symmetry
INVARIANTS
    RoutingPreserved
CHECK_DEADLOCK FALSE
