----------------------- MODULE MCTransactionalOutbox -----------------------
(* Small instances of TransactionalOutbox for TLC.                         *)
EXTENDS TransactionalOutbox, TLC

CONSTANTS a1, a2, p1, p2

\* Aggregates are interchangeable, and so are publishers.
Symmetry == Permutations(Aggregates) \cup Permutations(Publishers)
=============================================================================
