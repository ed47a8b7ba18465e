------------------------- MODULE MCProviderCapacity -------------------------
(* Operations, workers and accounts for TLC; each set is symmetric.          *)
EXTENDS ProviderCapacity, TLC

CONSTANTS o1, o2, w1, w2, r1, p1, p2

Symmetry == Permutations({o1, o2}) \cup Permutations({w1, w2}) \cup Permutations({p1, p2})
=============================================================================
