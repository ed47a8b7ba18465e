SPECIFICATION FairSpec

CONSTANTS
    e1 = e1
    e2 = e2
    c1 = c1
    c2 = c2
    Envelopes = {e1, e2}
    Consumers = {c1, c2}
    MaxItems = 2
    MaxSetbacks = 3

\* When every envelope is settled there is nothing left to deliver.
CHECK_DEADLOCK FALSE

INVARIANTS
    TypeOK
    LeaseIsExclusive
PROPERTIES
    Implements
    EventuallySettled
