-------------------------- MODULE MCOutboxReplay --------------------------
(* Small instances of OutboxReplay. *)
EXTENDS OutboxReplay, TLC

CONSTANTS k1, k2, q1, q2, none

MCKeys == {k1, k2}
MCRequests == {q1, q2}
\* No liveness property is checked under it.
Symmetry == Permutations(MCKeys) \cup Permutations(MCRequests)
===========================================================================
