SPECIFICATION Spec

CONSTANTS
    o1 = o1
    o2 = o2
    w1 = w1
    w2 = w2
    r1 = r1
    p1 = p1
    p2 = p2
    NoProvider = NoProvider
    Operations = {o1, o2}
    Workers = {w1, w2}
    Reconcilers = {r1}
    Providers = {p1, p2}
    Limit = 1
    MaxSetbacks = 1

SYMMETRY Symmetry

\* When every operation has ended there is nothing left to do.
CHECK_DEADLOCK FALSE

INVARIANTS
    TypeOK
    LoadWithinLimit
