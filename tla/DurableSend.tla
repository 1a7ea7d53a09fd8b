---------------------------- MODULE DurableSend ----------------------------
(* What sending a message durably promises, whatever fails in between: an     *)
(* entry leaves the device only once the server holds its message or support  *)
(* has a copy, or with everything else when the learner signs out; the server *)
(* stores it at most once, and its reply and the count of exchanges go with   *)
(* that one row.                                                              *)
EXTENDS Integers

CONSTANT Keys

VARIABLES
  device,    \* entries on the device
  stored,    \* messages in the session's history
  answered,  \* those stored together with their reply
  exchanges, \* exchanges counted in the session
  support,   \* messages support has a copy of
  discarded  \* those a sign-out took off the device

vars == <<device, stored, answered, exchanges, support, discarded>>

Init ==
  /\ device = {} /\ stored = {} /\ answered = {} /\ support = {} /\ discarded = {}
  /\ exchanges = 0

Submit(k) ==
  /\ k \notin device \cup stored \cup support \cup discarded
  /\ device' = device \cup {k}
  /\ UNCHANGED <<stored, answered, exchanges, support, discarded>>

Store(k) ==
  /\ k \in (device \cup support \cup discarded) \ stored
  /\ stored' = stored \cup {k}
  /\ \/ /\ answered' = answered \cup {k}
        /\ exchanges' = exchanges + 1
     \/ UNCHANGED <<answered, exchanges>>
  /\ UNCHANGED <<device, support, discarded>>

\* A copy may be handed over although the message was stored in the meantime,
\* or discarded while it was on its way; it may be stored then as well.
HandOver(K) ==
  /\ K \subseteq device \cup stored \cup support \cup discarded
  /\ support' = support \cup K
  /\ UNCHANGED <<device, stored, answered, exchanges, discarded>>

Forget(k) ==
  /\ k \in device \cap (stored \cup support)
  /\ device' = device \ {k}
  /\ UNCHANGED <<stored, answered, exchanges, support, discarded>>

\* A sign-out discards whatever is on the device.
Discard ==
  /\ discarded' = discarded \cup device
  /\ device' = {}
  /\ UNCHANGED <<stored, answered, exchanges, support>>

Next ==
  \/ \E K \in SUBSET Keys : HandOver(K)
  \/ \E k \in Keys : Submit(k) \/ Store(k) \/ Forget(k)
  \/ Discard

Spec == Init /\ [][Next]_vars
=============================================================================
