SPECIFICATION Spec

CONSTANTS
    w1 = w1
    w2 = w2
    r1 = r1
    p1 = p1
    p2 = p2
    NoProvider = NoProvider
    Workers = {w1}
    Reconcilers = {r1}
    Providers = {p1}
    MaxClaims = 1
    MaxVersion = 5
    MaxSetbacks = 2

\* A finished job leaves nothing to do.
CHECK_DEADLOCK FALSE

INVARIANTS
    ReleasedBeforeDispatch
