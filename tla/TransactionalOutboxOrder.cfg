SPECIFICATION Spec

CONSTANTS
    a1 = a1
    a2 = a2
    p1 = p1
    p2 = p2
    Aggregates = {a1, a2}
    Publishers = {p1, p2}
    MaxVersion = 2
    MaxAttempts = 1
    Limit = 2
    MaxSetbacks = 2

SYMMETRY Symmetry

\* When every event is settled there is nothing left to publish.
CHECK_DEADLOCK FALSE

INVARIANTS
    TypeOK
    FirstPublicationsInOrder
PROPERTIES
    SettledEventsStay
