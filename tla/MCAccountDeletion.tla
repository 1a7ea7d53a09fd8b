------------------------- MODULE MCAccountDeletion -------------------------
(* Small instances of AccountDeletion. *)
EXTENDS AccountDeletion, TLC

CONSTANTS owner, teen, q1, q2, r1, r2, none

MCUsers == {owner, teen}
MCRequests == {q1, q2}
MCRuns == {r1, r2}

Symmetry == Permutations(MCRequests) \cup Permutations(MCRuns)
============================================================================
