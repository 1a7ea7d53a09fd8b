-------------------------- MODULE MCMeteringGate --------------------------
(* Small instances of MeteringGate: a month of one or two questions, so that *)
(* exhaustion, top-ups and the races for the last unit all happen.           *)
EXTENDS MeteringGate, TLC

CONSTANTS r1, r2, none

MCPair == {r1, r2}

\* The handlers that refund themselves, against each other.
MCMixedKinds == [r \in Requests |-> IF r = r1 THEN "stream" ELSE "assessment"]
MCFailingKinds == [r \in Requests |-> IF r = r1 THEN "stream" ELSE "message"]
===========================================================================
