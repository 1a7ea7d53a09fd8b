------------------------ MODULE MCConsentRevocation ------------------------
(* Small instances of ConsentRevocation. *)
EXTENDS ConsentRevocation, TLC

CONSTANTS teen, r1, r2, none

MCUsers == {teen}
MCRuns == {r1, r2}

Symmetry == Permutations(MCRuns)
============================================================================
