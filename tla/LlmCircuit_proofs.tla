-------------------------- MODULE LlmCircuit_proofs --------------------------
(* Proofs about the circuit breakers of LlmCircuit, for any number of         *)
(* requests and circuits, any assignment of primary and fallback providers    *)
(* and any CIRCUIT_FAILURE_THRESHOLD above 2.                                 *)
(*                                                                            *)
(* That no request alone opens a circuit is not inductive: the proof bounds   *)
(* what one request has reported on a circuit (Own) by how far it has come,   *)
(* and carries that bound for every circuit nobody else reported on.          *)
EXTENDS LlmCircuit, TLAPS

----------------------------------------------------------------------------
(* The inductive invariant *)

\* A request reaches its fallback only if it has one, and only a stream runs
\* its fallback inside the try around the primary.
Places ==
  \A r \in Requests :
    /\ pc[r] \in {"fall", "second", "inside", "caught", "caughtClient"}
         => HasFallback(r)
    /\ pc[r] \in {"inside", "caught", "caughtClient"} => r \in Streams

\* At most so many failures has r reported on its primary, and its fallback.
AtPrimary(l) ==
  IF l \in {"new", "primary"} THEN 0
  ELSE IF l \in {"fall", "inside", "caught", "caughtClient"} THEN 1 ELSE 2
AtFallback(l) ==
  IF l \in {"new", "primary", "fall", "inside"} THEN 0
  ELSE IF l \in {"second", "caught", "caughtClient"} THEN 1 ELSE 2
Own(r, k) ==
  IF k = Primary[r] THEN AtPrimary(pc[r])
  ELSE IF k = Fallback[r] THEN AtFallback(pc[r]) ELSE 0

\* What the failure count of circuit k says about who reported on it.
Counted(k) ==
  /\ blamed[k] = {} => circuit[k].failures = 0
  /\ circuit[k].state # "CLOSED" => circuit[k].failures >= Threshold
  /\ \A r \in Requests : blamed[k] \subseteq {r} => circuit[k].failures <= Own(r, k)

CountInv == \A k \in Keys : Counted(k)

----------------------------------------------------------------------------
(* One circuit *)

\* canAttempt and the two kinds of report keep a circuit a circuit.
LEMMA CircuitOps ==
  ASSUME NEW c \in Circuit
  PROVE /\ Probing(c) \in Circuit /\ Failed(c) \in Circuit /\ Released(c) \in Circuit
        /\ Probing(c).failures = c.failures /\ Released(c).failures = c.failures
        /\ Failed(c).failures = c.failures + 1
        /\ (Probing(c).state = "CLOSED") = (c.state = "CLOSED")
        /\ Released(c).state = c.state
        /\ ~Failed(c).probe /\ ~Released(c).probe
        /\ c.state # "CLOSED" => Probing(c).state = "HALF_OPEN"
        /\ c.state = "CLOSED" => Probing(c) = c
        /\ Failed(c).state # "CLOSED" =>
             c.failures + 1 >= Threshold \/ c.state # "CLOSED"
<1>1. Failed(c) \in Circuit
  <2>1. c.failures + 1 \in Nat BY DEF Circuit
  <2> QED BY <2>1 DEF Failed, Circuit
<1>2. Probing(c) \in Circuit /\ Released(c) \in Circuit
  BY DEF Probing, Released, Circuit
<1> QED BY <1>1, <1>2 DEF Probing, Failed, Released, Circuit

\* A closed circuit is one.
LEMMA ClosedCircuit ==
  Closed \in Circuit /\ Closed.failures = 0 /\ Closed.state = "CLOSED" /\ ~Closed.probe
BY DEF Closed, Circuit

\* The keys a request uses are keys, and different.
LEMMA KeysOfRequests ==
  ASSUME NEW r \in Requests
  PROVE /\ Primary[r] \in Keys
        /\ HasFallback(r) => Fallback[r] \in Keys
        /\ Fallback[r] # Primary[r]
BY KeyAssumption DEF HasFallback

\* The attempt under way uses a key of its own.
LEMMA KeyInUse ==
  ASSUME TypeOK, Places, NEW r \in Requests, InFlight(r)
  PROVE KeyOf(r) \in Keys
BY KeysOfRequests DEF Places, InFlight, KeyOf, At

----------------------------------------------------------------------------
(* Types *)

LEMMA InitTypes == Init => TypeOK /\ Places
BY ClosedCircuit DEF Init, TypeOK, Places, Labels

\* Every step keeps the types and the places.
LEMMA TypesStep ==
  ASSUME TypeOK, Places, [Next]_vars
  PROVE TypeOK' /\ Places'
<1> USE KeysOfRequests, CircuitOps, ClosedCircuit, KeyInUse
<1>1. CASE UNCHANGED vars
  BY <1>1 DEF vars, history, TypeOK, Places, HasFallback
<1>2. CASE \E k \in Keys : Cool(k)
  BY <1>2 DEF Cool, history, TypeOK, Places, HasFallback
<1>3. ASSUME NEW r \in Requests, Start(r) PROVE TypeOK' /\ Places'
  BY <1>3 DEF Start, AdmitTo, Enter, At, Goto, TypeOK, Places, HasFallback, Labels
<1>4. ASSUME NEW r \in Requests, Fall(r) PROVE TypeOK' /\ Places'
  BY <1>4 DEF Fall, AdmitTo, Enter, At, Goto, TypeOK, Places, FallbackAdmits,
              HasFallback, Labels
<1>5. ASSUME NEW r \in Requests, Succeed(r) PROVE TypeOK' /\ Places'
  BY <1>5 DEF Succeed, Leave, Goto, TypeOK, Places, HasFallback, Labels
<1>6. ASSUME NEW r \in Requests, Empty(r) PROVE TypeOK' /\ Places'
  <2>1. /\ Fallback[r] \in Keys /\ Primary[r] \in Keys
        /\ r \in Streams /\ HasFallback(r)
    BY <1>6 DEF Empty, EmptyPrimary, FallbackAdmits
  <2>2. circuit' \in [Keys -> Circuit]
    BY <1>6, <2>1 DEF Empty, FailAt, AdmitTo, TypeOK
  <2> QED
    BY <1>6, <2>1, <2>2 DEF Empty, Enter, Goto, Blame, TypeOK, Places, HasFallback, Labels
<1>7. ASSUME NEW r \in Requests, PrimaryFails(r) PROVE TypeOK' /\ Places'
  <2>1. Primary[r] \in Keys
    OBVIOUS
  <2>2. circuit' \in [Keys -> Circuit]
    BY <1>7, <2>1 DEF PrimaryFails, FallbackAdmits, FailAt, AdmitTo, TypeOK
  <2>3. probers' \subseteq Requests \X Keys
    BY <1>7, <2>1 DEF PrimaryFails, FallbackAdmits, Enter, Leave, TypeOK
  <2>4. pc' \in [Requests -> Labels] /\ Places'
    BY <1>7 DEF PrimaryFails, Goto, FallbackAdmits, TypeOK, Places, HasFallback, Labels
  <2> QED BY <1>7, <2>1, <2>2, <2>3, <2>4 DEF PrimaryFails, Blame, TypeOK
<1>8. ASSUME NEW r \in Requests, FallbackFails(r) PROVE TypeOK' /\ Places'
  <2>1. Fallback[r] \in Keys
    BY <1>8 DEF FallbackFails, Places
  <2> QED
    BY <1>8, <2>1 DEF FallbackFails, FailAt, Leave, Blame, Goto, At, TypeOK, Places,
                      HasFallback, Labels
<1>9. ASSUME NEW r \in Requests, ClientError(r) PROVE TypeOK' /\ Places'
  BY <1>9 DEF ClientError, ReleaseAt, Leave, Goto, At, TypeOK, Places, HasFallback, Labels
<1>10. ASSUME NEW r \in Requests, CaughtClientError(r) PROVE TypeOK' /\ Places'
  BY <1>10 DEF CaughtClientError, ReleaseAt, Leave, Goto, At, TypeOK, Places,
               HasFallback, Labels
<1>11. ASSUME NEW r \in Requests, Abort(r) PROVE TypeOK' /\ Places'
  BY <1>11 DEF Abort, ReleaseAt, Leave, Goto, TypeOK, Places, HasFallback, Labels
<1>12. ASSUME NEW r \in Requests, Speak(r) PROVE TypeOK' /\ Places'
  BY <1>12 DEF Speak, InFlight, history, TypeOK, Places, HasFallback
<1>13. ASSUME NEW r \in Requests, Abandon(r) PROVE TypeOK' /\ Places'
  BY <1>13 DEF Abandon, Goto, history, TypeOK, Places, HasFallback, Labels
<1> QED
  BY <1>1, <1>2, <1>3, <1>4, <1>5, <1>6, <1>7, <1>8, <1>9, <1>10, <1>11, <1>12, <1>13
  DEF Next, Proceed

\* The state of the circuits and the requests is well formed.
THEOREM TypeCorrect == Spec => [](TypeOK /\ Places)
<1>1. (TypeOK /\ Places) /\ [Next]_vars => (TypeOK /\ Places)'
  BY TypesStep
<1> QED BY InitTypes, <1>1, PTL DEF Spec

----------------------------------------------------------------------------
(* Who opened a circuit *)

\* What a step of r may do to circuit k and to the record of who blamed it:
\* leave the count alone, reset it, or add one report that r still has left.
Kept(k) ==
  /\ circuit'[k].failures = circuit[k].failures
  /\ circuit'[k].state # "CLOSED" => circuit[k].state # "CLOSED"
  /\ blamed'[k] = blamed[k]
Reset(k) == circuit'[k] = Closed /\ blamed'[k] = {}
Reported(r, k) ==
  /\ circuit'[k] = Failed(circuit[k])
  /\ blamed'[k] = blamed[k] \cup {r}
  /\ Own(r, k) + 1 <= Own(r, k)'

\* The bound only grows while a request goes on.
OwnGrows == \A r \in Requests, k \in Keys : Own(r, k) <= Own(r, k)'

LEMMA OwnIsNat == \A r \in Requests, k \in Keys : Own(r, k) \in Nat /\ Own(r, k)' \in Nat
BY DEF Own, AtPrimary, AtFallback

\* A step of that kind keeps what the counts say.
LEMMA CountStep ==
  ASSUME TypeOK, TypeOK', CountInv, OwnGrows, NEW r \in Requests,
         \A k \in Keys : Kept(k) \/ Reset(k) \/ Reported(r, k)
  PROVE CountInv'
<1> SUFFICES ASSUME NEW k \in Keys PROVE Counted(k)'
  BY DEF CountInv
<1>0. /\ Counted(k)
      /\ circuit[k] \in Circuit /\ circuit'[k] \in Circuit
      /\ circuit[k].failures \in Nat /\ circuit'[k].failures \in Nat
      /\ blamed[k] \subseteq Requests
      /\ Threshold \in Nat
  BY ThresholdAssumption DEF CountInv, TypeOK, Circuit
<1>1. CASE Kept(k)
  BY <1>0, <1>1, OwnIsNat DEF Kept, Counted, OwnGrows
<1>2. CASE Reset(k)
  BY <1>2, ClosedCircuit, OwnIsNat DEF Reset, Counted
<1>3. CASE Reported(r, k)
  <2>1. circuit'[k].failures = circuit[k].failures + 1
    BY <1>0, <1>3, CircuitOps DEF Reported
  <2>2. circuit'[k].state # "CLOSED" => circuit'[k].failures >= Threshold
    <3> SUFFICES ASSUME circuit'[k].state # "CLOSED"
                 PROVE circuit'[k].failures >= Threshold
      OBVIOUS
    <3>1. circuit[k].failures + 1 >= Threshold \/ circuit[k].state # "CLOSED"
      BY <1>0, <1>3, CircuitOps DEF Reported
    <3>2. circuit[k].state # "CLOSED" => circuit[k].failures >= Threshold
      BY <1>0 DEF Counted
    <3> QED BY <1>0, <2>1, <3>1, <3>2
  <2>3. ASSUME NEW s \in Requests, blamed'[k] \subseteq {s}
        PROVE circuit'[k].failures <= Own(s, k)'
    <3>1. s = r /\ blamed[k] \subseteq {r}
      BY <1>3, <2>3 DEF Reported
    <3>2. circuit[k].failures <= Own(r, k)
      BY <1>0, <3>1 DEF Counted
    <3>3. Own(r, k) + 1 <= Own(r, k)'
      BY <1>3 DEF Reported
    <3>4. circuit[k].failures + 1 <= Own(r, k)'
      BY <1>0, <3>2, <3>3, OwnIsNat
    <3> QED BY <2>1, <3>1, <3>4
  <2>4. blamed'[k] # {}
    BY <1>3 DEF Reported
  <2> QED BY <2>2, <2>3, <2>4 DEF Counted
<1> QED BY <1>1, <1>2, <1>3

\* From l to m, neither bound falls.
Onward(l, m) == AtPrimary(l) <= AtPrimary(m) /\ AtFallback(l) <= AtFallback(m)

\* A step that moves r onward lets every bound grow.
LEMMA OwnMoves ==
  ASSUME TypeOK, NEW r \in Requests, NEW l, Goto(r, l), Onward(pc[r], l)
  PROVE /\ OwnGrows
        /\ Own(r, Primary[r]) = AtPrimary(pc[r]) /\ Own(r, Primary[r])' = AtPrimary(l)
        /\ HasFallback(r) => /\ Own(r, Fallback[r]) = AtFallback(pc[r])
                             /\ Own(r, Fallback[r])' = AtFallback(l)
<1>1. pc'[r] = l /\ \A s \in Requests \ {r} : pc'[s] = pc[s]
  BY DEF TypeOK, Goto
<1>2. ASSUME NEW s \in Requests, NEW k \in Keys PROVE Own(s, k) <= Own(s, k)'
  <2>1. CASE s = r
    BY <1>1, <2>1, OwnIsNat DEF Own, Onward
  <2>2. CASE s # r
    BY <1>1, <2>2, OwnIsNat DEF Own
  <2> QED BY <2>1, <2>2
<1> QED BY <1>1, <1>2, KeysOfRequests DEF Own, OwnGrows

LEMMA InitCounts == Init => CountInv
BY ClosedCircuit, OwnIsNat DEF Init, CountInv, Counted

\* Every step keeps what the counts say.
LEMMA CountsStep ==
  ASSUME TypeOK, TypeOK', Places, CountInv, [Next]_vars
  PROVE CountInv'
<1> USE KeysOfRequests, CircuitOps, ClosedCircuit
<1>0. \A k \in Keys : circuit[k] \in Circuit
  BY DEF TypeOK
<1>1. CASE UNCHANGED <<circuit, pc, blamed>>
  BY <1>1 DEF CountInv, Counted, Own
<1>2. ASSUME NEW r \in Requests, Start(r) PROVE CountInv'
  <2>1. PICK l \in {"primary", "fall", "refused"} : At(r, "new") /\ Goto(r, l)
    BY <1>2 DEF Start
  <2>2. OwnGrows
    <3>1. Onward(pc[r], l)
      BY <2>1 DEF Onward, At, AtPrimary, AtFallback
    <3> QED BY <2>1, <3>1, OwnMoves
  <2>3. \A k \in Keys : Kept(k)
    BY <1>0, <1>2 DEF Start, AdmitTo, Kept, TypeOK
  <2> QED BY <2>2, <2>3, CountStep
<1>3. ASSUME NEW r \in Requests, Fall(r) PROVE CountInv'
  <2>1. PICK l \in {"second", "refused"} : At(r, "fall") /\ Goto(r, l)
    BY <1>3 DEF Fall
  <2>2. OwnGrows
    <3>1. Onward(pc[r], l)
      BY <2>1 DEF Onward, At, AtPrimary, AtFallback
    <3> QED BY <2>1, <3>1, OwnMoves
  <2>3. \A k \in Keys : Kept(k)
    BY <1>0, <1>3 DEF Fall, AdmitTo, Kept, TypeOK
  <2> QED BY <2>2, <2>3, CountStep
<1>4. ASSUME NEW r \in Requests, Succeed(r) PROVE CountInv'
  <2>1. InFlight(r) /\ Goto(r, "ok")
    BY <1>4 DEF Succeed
  <2>2. OwnGrows
    <3>1. Onward(pc[r], "ok")
      BY <2>1 DEF Onward, InFlight, AtPrimary, AtFallback
    <3> QED BY <2>1, <3>1, OwnMoves
  <2>3. \A k \in Keys : Kept(k) \/ Reset(k)
    BY <1>4 DEF Succeed, Kept, Reset, TypeOK
  <2> QED BY <2>2, <2>3, CountStep
<1>5. ASSUME NEW r \in Requests, Empty(r) PROVE CountInv'
  <2>1. At(r, "primary") /\ Goto(r, "inside") /\ HasFallback(r)
    BY <1>5 DEF Empty, EmptyPrimary, FallbackAdmits
  <2>2. OwnGrows /\ Own(r, Primary[r]) + 1 <= Own(r, Primary[r])'
    <3>1. Onward(pc[r], "inside")
      BY <2>1 DEF Onward, At, AtPrimary, AtFallback
    <3>2. AtPrimary(pc[r]) + 1 <= AtPrimary("inside")
      BY <2>1 DEF At, AtPrimary, AtFallback
    <3> QED BY <2>1, <3>1, <3>2, OwnMoves
  <2>3. Reported(r, Primary[r])
    BY <1>5, <2>1, <2>2 DEF Empty, FailAt, AdmitTo, Blame, Reported, TypeOK
  <2>4. \A k \in Keys \ {Primary[r]} : Kept(k)
    BY <1>0, <1>5, <2>1 DEF Empty, FailAt, AdmitTo, Blame, Kept, TypeOK
  <2> QED BY <2>2, <2>3, <2>4, CountStep
<1>6. ASSUME NEW r \in Requests, PrimaryFails(r) PROVE CountInv'
  <2>1. PICK l \in {"second", "fall", "failed"} :
          /\ pc[r] \in {"primary", "caught"}
          /\ pc[r] = "caught" => l # "fall"
          /\ Goto(r, l)
    BY <1>6, RequestAssumption DEF PrimaryFails, Places
  <2>2. OwnGrows /\ Own(r, Primary[r]) + 1 <= Own(r, Primary[r])'
    <3>1. Onward(pc[r], l)
      BY <2>1 DEF Onward, AtPrimary, AtFallback
    <3>2. AtPrimary(pc[r]) + 1 <= AtPrimary(l)
      BY <2>1 DEF AtPrimary, AtFallback
    <3> QED BY <2>1, <3>1, <3>2, OwnMoves
  <2>3. Reported(r, Primary[r])
    BY <1>6, <2>2 DEF PrimaryFails, FallbackAdmits, FailAt, AdmitTo, Blame, Reported, TypeOK
  <2>4. \A k \in Keys \ {Primary[r]} : Kept(k)
    BY <1>0, <1>6 DEF PrimaryFails, FallbackAdmits, FailAt, AdmitTo, Blame, Kept, TypeOK
  <2> QED BY <2>2, <2>3, <2>4, CountStep
<1>7. ASSUME NEW r \in Requests, FallbackFails(r) PROVE CountInv'
  <2>1. PICK l \in {"caught", "failed"} :
          /\ pc[r] \in {"second", "inside"}
          /\ pc[r] = "second" => l = "failed"
          /\ HasFallback(r) /\ Goto(r, l)
    BY <1>7 DEF FallbackFails, Places, At
  <2>2. OwnGrows /\ Own(r, Fallback[r]) + 1 <= Own(r, Fallback[r])'
    <3>1. Onward(pc[r], l)
      BY <2>1 DEF Onward, AtPrimary, AtFallback
    <3>2. AtFallback(pc[r]) + 1 <= AtFallback(l)
      BY <2>1 DEF AtPrimary, AtFallback
    <3> QED BY <2>1, <3>1, <3>2, OwnMoves
  <2>3. Reported(r, Fallback[r])
    BY <1>7, <2>1, <2>2 DEF FallbackFails, FailAt, Blame, Reported, TypeOK
  <2>4. \A k \in Keys \ {Fallback[r]} : Kept(k)
    BY <1>7 DEF FallbackFails, FailAt, Blame, Kept, TypeOK
  <2> QED BY <2>2, <2>3, <2>4, CountStep
<1>8. ASSUME NEW r \in Requests, ClientError(r) \/ CaughtClientError(r) \/ Abort(r)
      PROVE CountInv'
  <2>1. PICK l \in {"caughtClient", "failed", "aborted"} :
          /\ pc[r] \in {"primary", "second", "inside", "caughtClient"}
          /\ l = "caughtClient" => pc[r] = "inside"
          /\ Goto(r, l)
    BY <1>8 DEF ClientError, CaughtClientError, Abort, InFlight, At
  <2>2. OwnGrows
    <3>1. Onward(pc[r], l)
      BY <2>1 DEF Onward, AtPrimary, AtFallback
    <3> QED BY <2>1, <3>1, OwnMoves
  <2>3. \A k \in Keys : Kept(k)
    BY <1>0, <1>8 DEF ClientError, CaughtClientError, Abort, ReleaseAt, Kept, TypeOK
  <2> QED BY <2>2, <2>3, CountStep
<1>9. ASSUME NEW r \in Requests, Abandon(r) PROVE CountInv'
  <2>1. OwnGrows
    <3>1. InFlight(r) /\ Goto(r, "abandoned")
      BY <1>9 DEF Abandon
    <3>2. Onward(pc[r], "abandoned")
      BY <3>1 DEF Onward, InFlight, AtPrimary, AtFallback
    <3> QED BY <3>1, <3>2, OwnMoves
  <2>2. \A k \in Keys : Kept(k)
    BY <1>9 DEF Abandon, history, Kept
  <2> QED BY <2>1, <2>2, CountStep
<1> QED
  BY <1>1, <1>2, <1>3, <1>4, <1>5, <1>6, <1>7, <1>8, <1>9
  DEF Next, Proceed, Speak, Cool, vars, history

\* A circuit with a single reporter has counted at most two failures, fewer
\* than it takes to open it.
LEMMA CountsSuffice == TypeOK /\ CountInv => NoSingleRequestTrips
<1> SUFFICES ASSUME TypeOK, CountInv, NEW k \in Keys, circuit[k].state # "CLOSED"
             PROVE \E r, s \in blamed[k] : r # s
  BY DEF NoSingleRequestTrips
<1>1. circuit[k].failures \in Nat /\ circuit[k].failures > 2
  BY ThresholdAssumption DEF CountInv, Counted, TypeOK, Circuit
<1>2. PICK r \in blamed[k] : TRUE
  BY <1>1 DEF CountInv, Counted
<1>3. r \in Requests
  BY DEF TypeOK
<1>4. Own(r, k) <= 2
  BY DEF Own, AtPrimary, AtFallback
<1>5. ~(blamed[k] \subseteq {r})
  BY <1>1, <1>3, <1>4, OwnIsNat DEF CountInv, Counted
<1> QED BY <1>5

\* However requests, their fallbacks and their retries interleave, a provider
\* is taken from the others only on the reports of two different requests.
THEOREM TwoReporters == Spec => []NoSingleRequestTrips
<1>1. Init => TypeOK /\ Places /\ CountInv
  BY InitTypes, InitCounts
<1>2. (TypeOK /\ Places /\ CountInv) /\ [Next]_vars => (TypeOK /\ Places /\ CountInv)'
  BY TypesStep, CountsStep
<1>3. TypeOK /\ Places /\ CountInv => NoSingleRequestTrips
  BY CountsSuffice
<1> QED BY <1>1, <1>2, <1>3, PTL DEF Spec

----------------------------------------------------------------------------
(* Who holds the probe slot *)

\* The three things a step of r may do about the slot of circuit k: free it,
\* take it and be under way there, or leave it and not be its holder.
Frees(k) == ~circuit'[k].probe
Takes(r, k) ==
  \/ circuit'[k] = circuit[k] /\ circuit[k].state = "CLOSED"
  \/ circuit'[k].state = "HALF_OPEN" /\ Probes(r, k)'
Spares(r, k) == circuit'[k] = circuit[k] /\ (Probes(r, k) => Probes(r, k)')

\* What a step of r does to the others: it leaves them where they are, and
\* takes none of their admissions away.
Apart(r) ==
  \A s \in Requests \ {r} :
    pc'[s] = pc[s] /\ \A k \in Keys : <<s, k>> \in probers => <<s, k>> \in probers'

LEMMA ProbeStep ==
  ASSUME ProbeHeld, NEW r \in Requests, Apart(r),
         \A k \in Keys : Frees(k) \/ Takes(r, k) \/ Spares(r, k)
  PROVE ProbeHeld'
<1> SUFFICES ASSUME NEW k \in Keys, circuit'[k].probe
             PROVE /\ circuit'[k].state = "HALF_OPEN"
                   /\ \E s \in Requests : Probes(s, k)'
  BY DEF ProbeHeld
<1>1. CASE Takes(r, k)
  BY <1>1 DEF Takes, ProbeHeld
<1>2. CASE Spares(r, k)
  <2>1. circuit'[k].state = "HALF_OPEN"
    BY <1>2 DEF Spares, ProbeHeld
  <2>2. PICK s \in Requests : Probes(s, k)
    BY <1>2 DEF Spares, ProbeHeld
  <2>3. CASE s = r
    BY <1>2, <2>1, <2>2, <2>3 DEF Spares
  <2>4. CASE s # r
    <3>1. Probes(s, k)'
      BY <2>2, <2>4 DEF Apart, Probes, InFlight, KeyOf, At
    <3> QED BY <2>1, <3>1
  <2> QED BY <2>3, <2>4
<1> QED BY <1>1, <1>2 DEF Frees

\* A step that moves r and only removes its own admissions keeps apart.
LEMMA ApartMoves ==
  ASSUME TypeOK, NEW r \in Requests, NEW l, Goto(r, l),
         \A s \in Requests \ {r}, k \in Keys : <<s, k>> \in probers => <<s, k>> \in probers'
  PROVE Apart(r) /\ pc'[r] = l
BY DEF TypeOK, Goto, Apart

\* An attempt that ends frees the slot of its circuit and spares the others.
LEMMA AttemptEnds ==
  ASSUME TypeOK, Places, ProbeHeld, NEW r \in Requests, InFlight(r), NEW l, Goto(r, l),
         probers' = Leave(r, KeyOf(r)), ~circuit'[KeyOf(r)].probe,
         \A k \in Keys \ {KeyOf(r)} : circuit'[k] = circuit[k]
  PROVE ProbeHeld'
<1>1. Apart(r)
  BY ApartMoves DEF Leave
<1>2. \A k \in Keys \ {KeyOf(r)} : ~Probes(r, k)
  BY DEF Probes, InFlight, At
<1> QED BY <1>1, <1>2, ProbeStep DEF Frees, Spares

LEMMA InitProbes == Init => ProbeHeld
BY ClosedCircuit DEF Init, ProbeHeld

\* Every step keeps the slot held.
LEMMA ProbesStep ==
  ASSUME TypeOK, TypeOK', Places, ProbeHeld, [Next]_vars
  PROVE ProbeHeld'
<1> USE KeysOfRequests, CircuitOps, ClosedCircuit
<1>0. \A k \in Keys : circuit[k] \in Circuit
  BY DEF TypeOK
<1>1. CASE UNCHANGED <<circuit, pc, probers>>
  <2>1. ASSUME NEW r \in Requests, NEW k \in Keys, Probes(r, k) PROVE Probes(r, k)'
    BY <1>1, <2>1 DEF Probes, InFlight, KeyOf, At
  <2> QED BY <1>1, <2>1 DEF ProbeHeld
<1>2. ASSUME NEW r \in Requests, Start(r) PROVE ProbeHeld'
  <2>1. ~\E k \in Keys : Probes(r, k)
    BY <1>2 DEF Start, Probes, InFlight, At
  <2>2. CASE Goto(r, "primary") /\ circuit' = AdmitTo(circuit, Primary[r])
             /\ probers' = Enter(r, Primary[r])
    <3>1. Apart(r) /\ pc'[r] = "primary"
      BY <2>2, ApartMoves DEF Enter
    <3>2. Takes(r, Primary[r])
      BY <1>0, <2>2, <3>1 DEF AdmitTo, Enter, Takes, Probes, InFlight, KeyOf, At, TypeOK
    <3>3. \A k \in Keys \ {Primary[r]} : Spares(r, k)
      BY <2>1, <2>2 DEF AdmitTo, Spares, TypeOK
    <3> QED BY <3>1, <3>2, <3>3, ProbeStep
  <2>3. CASE UNCHANGED <<circuit, probers>>
    <3>1. PICK l \in Labels : Goto(r, l)
      BY <1>2 DEF Start, Labels
    <3>2. Apart(r)
      BY <2>3, <3>1, ApartMoves
    <3> QED BY <2>1, <2>3, <3>2, ProbeStep DEF Spares
  <2> QED BY <1>2, <2>2, <2>3 DEF Start
<1>3. ASSUME NEW r \in Requests, Fall(r) PROVE ProbeHeld'
  <2>1. ~\E k \in Keys : Probes(r, k)
    BY <1>3 DEF Fall, Probes, InFlight, At
  <2>2. CASE Goto(r, "second") /\ circuit' = AdmitTo(circuit, Fallback[r])
             /\ probers' = Enter(r, Fallback[r])
    <3>0. Fallback[r] \in Keys
      BY <1>3 DEF Fall, Places, At
    <3>1. Apart(r) /\ pc'[r] = "second"
      BY <2>2, ApartMoves DEF Enter
    <3>2. Takes(r, Fallback[r])
      BY <1>0, <2>2, <3>0, <3>1
      DEF AdmitTo, Enter, Takes, Probes, InFlight, KeyOf, At, TypeOK
    <3>3. \A k \in Keys \ {Fallback[r]} : Spares(r, k)
      BY <2>1, <2>2 DEF AdmitTo, Spares, TypeOK
    <3> QED BY <3>1, <3>2, <3>3, ProbeStep
  <2>3. CASE UNCHANGED <<circuit, probers>> /\ Goto(r, "refused")
    <3>1. Apart(r)
      BY <2>3, ApartMoves
    <3> QED BY <2>1, <2>3, <3>1, ProbeStep DEF Spares
  <2> QED BY <1>3, <2>2, <2>3 DEF Fall
<1>4. ASSUME NEW r \in Requests, Succeed(r) PROVE ProbeHeld'
  <2>1. KeyOf(r) \in Keys
    BY <1>4, KeyInUse DEF Succeed
  <2>2. /\ ~circuit'[KeyOf(r)].probe
        /\ \A k \in Keys \ {KeyOf(r)} : circuit'[k] = circuit[k]
    BY <1>4, <2>1 DEF Succeed, TypeOK
  <2> QED BY <1>4, <2>2, AttemptEnds DEF Succeed
<1>5. ASSUME NEW r \in Requests,
             Goto(r, "inside") \/ Goto(r, "second"),
             pc[r] \in {"primary", "caught"},
             FallbackAdmits(r),
             circuit' = FailAt(AdmitTo(circuit, Fallback[r]), Primary[r]),
             probers' = Enter(r, Fallback[r]) \ {<<r, Primary[r]>>}
      PROVE ProbeHeld'
  <2>0. Fallback[r] \in Keys /\ Primary[r] \in Keys /\ Fallback[r] # Primary[r]
    BY <1>5 DEF FallbackAdmits
  <2>1. Apart(r) /\ pc'[r] \in {"inside", "second"}
    BY <1>5, ApartMoves DEF Enter
  <2>2. Frees(Primary[r])
    BY <1>0, <1>5, <2>0 DEF FailAt, AdmitTo, Frees, TypeOK
  <2>3. circuit'[Fallback[r]] = Probing(circuit[Fallback[r]])
    BY <1>5, <2>0 DEF FailAt, AdmitTo, TypeOK
  <2>4. Takes(r, Fallback[r])
    BY <1>0, <1>5, <2>0, <2>1, <2>3 DEF Enter, Takes, Probes, InFlight, KeyOf, At
  <2>5. \A k \in Keys \ {Primary[r], Fallback[r]} : Spares(r, k)
    BY <1>5, <2>0 DEF FailAt, AdmitTo, Spares, Probes, InFlight, KeyOf, At, TypeOK
  <2> QED BY <2>1, <2>2, <2>4, <2>5, ProbeStep
<1>6. ASSUME NEW r \in Requests, Empty(r) PROVE ProbeHeld'
  BY <1>5, <1>6 DEF Empty, EmptyPrimary, At
<1>7. ASSUME NEW r \in Requests, PrimaryFails(r) PROVE ProbeHeld'
  <2>1. CASE circuit' = FailAt(circuit, Primary[r]) /\ probers' = Leave(r, Primary[r])
    <3>1. pc[r] \in {"primary", "caught"}
      BY <1>7 DEF PrimaryFails
    <3>2. PICK l \in Labels : Goto(r, l)
      BY <1>7 DEF PrimaryFails, Labels
    <3>3. Apart(r)
      BY <2>1, <3>2, ApartMoves DEF Leave
    <3>4. Frees(Primary[r])
      BY <1>0, <2>1 DEF FailAt, Frees, TypeOK
    <3>5. \A k \in Keys \ {Primary[r]} : Spares(r, k)
      BY <2>1, <3>1 DEF FailAt, Spares, Probes, InFlight, KeyOf, At, TypeOK
    <3> QED BY <3>3, <3>4, <3>5, ProbeStep
  <2>2. CASE /\ FallbackAdmits(r) /\ Goto(r, "second")
             /\ circuit' = FailAt(AdmitTo(circuit, Fallback[r]), Primary[r])
             /\ probers' = Enter(r, Fallback[r]) \ {<<r, Primary[r]>>}
    BY <1>5, <1>7, <2>2 DEF PrimaryFails
  <2> QED BY <1>7, <2>1, <2>2 DEF PrimaryFails
<1>8. ASSUME NEW r \in Requests, FallbackFails(r) PROVE ProbeHeld'
  <2>1. InFlight(r) /\ KeyOf(r) = Fallback[r] /\ Fallback[r] \in Keys
    BY <1>8 DEF FallbackFails, Places, InFlight, KeyOf, At
  <2>2. PICK l \in Labels : Goto(r, l)
    BY <1>8 DEF FallbackFails, Labels
  <2>3. /\ ~circuit'[Fallback[r]].probe
        /\ \A k \in Keys \ {Fallback[r]} : circuit'[k] = circuit[k]
    BY <1>0, <1>8, <2>1 DEF FallbackFails, FailAt, TypeOK
  <2>4. probers' = Leave(r, Fallback[r])
    BY <1>8 DEF FallbackFails
  <2> QED BY <2>1, <2>2, <2>3, <2>4, AttemptEnds
<1>9. ASSUME NEW r \in Requests, ClientError(r) \/ Abort(r) PROVE ProbeHeld'
  <2>1. InFlight(r) /\ KeyOf(r) \in Keys /\ probers' = Leave(r, KeyOf(r))
    BY <1>9, KeyInUse DEF ClientError, Abort
  <2>2. PICK l \in Labels : Goto(r, l)
    BY <1>9 DEF ClientError, Abort, Labels
  <2>3. /\ ~circuit'[KeyOf(r)].probe
        /\ \A k \in Keys \ {KeyOf(r)} : circuit'[k] = circuit[k]
    BY <1>0, <1>9, <2>1 DEF ClientError, Abort, ReleaseAt, TypeOK
  <2> QED BY <2>1, <2>2, <2>3, AttemptEnds
<1>10. ASSUME NEW r \in Requests, CaughtClientError(r) PROVE ProbeHeld'
  <2>1. Apart(r)
    BY <1>10, ApartMoves DEF CaughtClientError, Leave
  <2>2. Frees(Primary[r])
    BY <1>0, <1>10 DEF CaughtClientError, ReleaseAt, Frees, TypeOK
  <2>3. \A k \in Keys \ {Primary[r]} : Spares(r, k)
    BY <1>10 DEF CaughtClientError, ReleaseAt, Spares, Probes, InFlight, At, TypeOK
  <2> QED BY <2>1, <2>2, <2>3, ProbeStep
<1>11. ASSUME NEW r \in Requests, Abandon(r) PROVE ProbeHeld'
  <2>1. Apart(r) /\ pc'[r] = "abandoned"
    BY <1>11, ApartMoves DEF Abandon, history
  <2>2. \A k \in Keys : Spares(r, k)
    BY <1>11, <2>1 DEF Abandon, history, Spares, Probes, At
  <2> QED BY <2>1, <2>2, ProbeStep
<1> QED
  BY <1>1, <1>2, <1>3, <1>4, <1>6, <1>7, <1>8, <1>9, <1>10, <1>11
  DEF Next, Proceed, Speak, Cool, vars, history

\* A taken probe slot always has its prober under way, or abandoned: no ending
\* of an attempt leaves a provider shut out for good.
THEOREM ProbeSlots == Spec => []ProbeHeld
<1>1. Init => TypeOK /\ Places /\ ProbeHeld
  BY InitTypes, InitProbes
<1>2. (TypeOK /\ Places /\ ProbeHeld) /\ [Next]_vars => (TypeOK /\ Places /\ ProbeHeld)'
  BY TypesStep, ProbesStep
<1> QED BY <1>1, <1>2, PTL DEF Spec

==============================================================================
