---------------------------- MODULE MCDurableJob ----------------------------
(* Small instances of DurableJob for TLC.                                  *)
EXTENDS DurableJob, TLC

CONSTANTS w1, w2, r1, p1, p2

\* Workers are interchangeable, and so are providers: nothing orders them.
Symmetry == Permutations(Workers) \cup Permutations(Providers)
=============================================================================
