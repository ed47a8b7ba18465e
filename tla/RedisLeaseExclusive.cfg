SPECIFICATION Spec

CONSTANTS
    e1 = e1
    e2 = e2
    c1 = c1
    c2 = c2
    Envelopes = {e1}
    Consumers = {c1, c2}
    MaxItems = 1
    MaxSetbacks = 1

INVARIANT LeaseIsExclusive
