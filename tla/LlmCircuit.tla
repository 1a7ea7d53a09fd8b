----------------------------- MODULE LlmCircuit -----------------------------
(* The circuit breakers of the LLM router (services/llm/router.ts). All       *)
(* requests of an isolate share one circuit per provider and capability. A    *)
(* call (routeAndCall) or a stream (routeAndStream) tries its primary         *)
(* provider, then at most its fallback; whatever becomes of an attempt is     *)
(* recorded on the circuit as it is by then, not as it was at admission.      *)
(*                                                                            *)
(* JavaScript runs a step between two awaits without interruption, so that    *)
(* is one action here. withRetry does not look at the circuit between its     *)
(* tries and is part of the provider's answer. Of the clock only this is      *)
(* kept: whether the last failure of a circuit is CIRCUIT_RECOVERY_MS old.    *)
EXTENDS Integers

CONSTANTS
  Calls,      \* requests made with routeAndCall
  Streams,    \* requests made with routeAndStream
  Keys,       \* circuit keys, a provider and a capability
  NoKey,
  Primary,    \* request -> key of the model getModelConfig selects
  Fallback,   \* request -> key of getFallbackConfig, or NoKey
  Threshold   \* CIRCUIT_FAILURE_THRESHOLD

Requests == Calls \cup Streams

ASSUME RequestAssumption == Calls \cap Streams = {}
\* getFallbackConfigV2 never names the provider that failed.
ASSUME KeyAssumption ==
  /\ NoKey \notin Keys
  /\ Primary \in [Requests -> Keys]
  /\ Fallback \in [Requests -> Keys \cup {NoKey}]
  /\ \A r \in Requests : Fallback[r] # Primary[r]
ASSUME ThresholdAssumption == Threshold \in Nat /\ Threshold > 2

VARIABLES
  circuit, \* key -> CircuitBreaker
  cooled,  \* keys whose last failure is CIRCUIT_RECOVERY_MS old
  pc,      \* request -> where it is
  spoke,   \* request -> its attempts that streamed text to the learner
  probers, \* history: <<r, k>> when r was admitted to k as a probe
  blamed   \* history: key -> requests that recorded a failure since a success

history == <<probers, blamed>>
vars == <<circuit, cooled, pc, spoke, probers, blamed>>

----------------------------------------------------------------------------
(* One circuit *)

Circuit == [state : {"CLOSED", "OPEN", "HALF_OPEN"}, failures : Nat, probe : BOOLEAN]
Closed == [state |-> "CLOSED", failures |-> 0, probe |-> FALSE]

\* canAttempt, its answer and what it does to the circuit it admits to.
Admits(k) ==
  \/ circuit[k].state = "CLOSED"
  \/ circuit[k].state = "OPEN" /\ k \in cooled
  \/ circuit[k].state = "HALF_OPEN" /\ ~circuit[k].probe
Probing(c) ==
  IF c.state = "CLOSED" THEN c ELSE [c EXCEPT !.state = "HALF_OPEN", !.probe = TRUE]

\* Mutant: every try of withRetry is reported.
FailedPerTry(c) ==
  [state |-> IF c.failures + 3 >= Threshold THEN "OPEN" ELSE c.state,
   failures |-> c.failures + 3, probe |-> FALSE]
\* recordFailure
Failed(c) ==
  [state |-> IF c.failures + 1 >= Threshold THEN "OPEN" ELSE c.state,
   failures |-> c.failures + 1, probe |-> FALSE]
\* Mutant: a call that is aborted, or refused by the provider, just returns.
ReleasedNever(c) == c
\* Mutant: what is no failure of the provider is taken off its count.
ReleasedForgiven(c) == [c EXCEPT !.probe = FALSE, !.failures = @ - 1]
\* A caller that gave up, or a client error: not a verdict on the provider.
Released(c) == [c EXCEPT !.probe = FALSE]

AdmitTo(c, k) == [c EXCEPT ![k] = Probing(@)]
FailAt(c, k) == [c EXCEPT ![k] = Failed(@)]
ReleaseAt(c, k) == [c EXCEPT ![k] = Released(@)]

----------------------------------------------------------------------------
(* Requests *)

At(r, label) == pc[r] = label
Goto(r, label) == pc' = [pc EXCEPT ![r] = label]

Labels == {"new", "primary", "fall", "second", "inside", "caught", "caughtClient",
           "ok", "failed", "refused", "aborted", "abandoned"}

\* The circuit the attempt under way was admitted to.
KeyOf(r) == IF At(r, "primary") THEN Primary[r] ELSE Fallback[r]
InFlight(r) == pc[r] \in {"primary", "second", "inside"}

HasFallback(r) == Fallback[r] # NoKey
FallbackAdmits(r) == HasFallback(r) /\ Admits(Fallback[r])

\* History of an admission to k, and of the end of the attempt of r there.
Enter(r, k) ==
  IF circuit[k].state = "CLOSED" THEN probers ELSE probers \cup {<<r, k>>}
Leave(r, k) == probers \ {<<r, k>>}
Blame(r, k) == blamed' = [blamed EXCEPT ![k] = @ \cup {r}]

Init ==
  /\ circuit = [k \in Keys |-> Closed]
  /\ cooled = {}
  /\ pc = [r \in Requests |-> "new"]
  /\ spoke = [r \in Requests |-> {}]
  /\ probers = {}
  /\ blamed = [k \in Keys |-> {}]

\* Both entry points: the primary if its circuit admits, else the fallback
\* after an await (captureLlmFallbackSignal), else CircuitOpenError.
Start(r) ==
  /\ At(r, "new")
  /\ \/ /\ Admits(Primary[r])
        /\ circuit' = AdmitTo(circuit, Primary[r])
        /\ probers' = Enter(r, Primary[r])
        /\ Goto(r, "primary")
     \/ /\ ~Admits(Primary[r])
        /\ Goto(r, IF HasFallback(r) THEN "fall" ELSE "refused")
        /\ UNCHANGED <<circuit, probers>>
  /\ UNCHANGED <<cooled, spoke, blamed>>

\* attemptProvider and attemptStreamProvider up to their request.
Fall(r) ==
  /\ At(r, "fall")
  /\ \/ /\ FallbackAdmits(r)
        /\ circuit' = AdmitTo(circuit, Fallback[r])
        /\ probers' = Enter(r, Fallback[r])
        /\ Goto(r, "second")
     \/ /\ ~FallbackAdmits(r)
        /\ Goto(r, "refused")
        /\ UNCHANGED <<circuit, probers>>
  /\ UNCHANGED <<cooled, spoke, blamed>>

\* An empty primary stream is a success when there is nowhere to fall back to.
EmptyPrimary(r) == r \in Streams /\ At(r, "primary") /\ spoke[r] = {}

\* recordSuccess
Succeed(r) ==
  /\ InFlight(r)
  /\ ~(EmptyPrimary(r) /\ FallbackAdmits(r))
  /\ circuit' = [circuit EXCEPT ![KeyOf(r)] = Closed]
  /\ blamed' = [blamed EXCEPT ![KeyOf(r)] = {}]
  /\ probers' = Leave(r, KeyOf(r))
  /\ Goto(r, "ok")
  /\ UNCHANGED <<cooled, spoke>>

\* A stream that completes without a chunk counts as a failure if, and only
\* if, the fallback admits it; the fallback then streams inside the try.
Empty(r) ==
  /\ EmptyPrimary(r) /\ FallbackAdmits(r)
  /\ circuit' = FailAt(AdmitTo(circuit, Fallback[r]), Primary[r])
  /\ cooled' = cooled \ {Primary[r]}
  /\ probers' = Enter(r, Fallback[r]) \ {<<r, Primary[r]>>}
  /\ Blame(r, Primary[r])
  /\ Goto(r, "inside")
  /\ UNCHANGED spoke

\* A transient failure of the primary attempt, or the fallback's that reached
\* the catch around it: recordFailure. A call goes on to its fallback in any
\* case, a stream if no chunk of the primary came and the fallback admits.
PrimaryFails(r) ==
  /\ pc[r] \in {"primary", "caught"}
  /\ LET again == r \in Streams /\ "primary" \notin spoke[r] /\ FallbackAdmits(r)
     IN \/ /\ again
           /\ circuit' = FailAt(AdmitTo(circuit, Fallback[r]), Primary[r])
           /\ probers' = Enter(r, Fallback[r]) \ {<<r, Primary[r]>>}
           /\ Goto(r, "second")
        \/ /\ ~again
           /\ circuit' = FailAt(circuit, Primary[r])
           /\ probers' = Leave(r, Primary[r])
           /\ Goto(r, IF r \in Calls /\ HasFallback(r) THEN "fall" ELSE "failed")
  /\ cooled' = cooled \ {Primary[r]}
  /\ Blame(r, Primary[r])
  /\ UNCHANGED spoke

\* A transient failure of the fallback attempt.
FallbackFails(r) ==
  /\ pc[r] \in {"second", "inside"}
  /\ circuit' = FailAt(circuit, Fallback[r])
  /\ cooled' = cooled \ {Fallback[r]}
  /\ probers' = Leave(r, Fallback[r])
  /\ Blame(r, Fallback[r])
  /\ Goto(r, IF At(r, "inside") THEN "caught" ELSE "failed")
  /\ UNCHANGED spoke

\* Mutant: the error is rethrown before the catch looks at the circuit.
ClientErrorUnreleased(r) ==
  /\ InFlight(r)
  /\ Goto(r, IF At(r, "inside") THEN "caughtClient" ELSE "failed")
  /\ UNCHANGED <<circuit, cooled, spoke, history>>
\* A client error or a safety refusal (isTransientError is false) is rethrown.
ClientError(r) ==
  /\ InFlight(r)
  /\ circuit' = ReleaseAt(circuit, KeyOf(r))
  /\ probers' = Leave(r, KeyOf(r))
  /\ Goto(r, IF At(r, "inside") THEN "caughtClient" ELSE "failed")
  /\ UNCHANGED <<cooled, spoke, blamed>>

\* The catch around a fallback that streamed inside the try.
CaughtClientError(r) ==
  /\ At(r, "caughtClient")
  /\ circuit' = ReleaseAt(circuit, Primary[r])
  /\ probers' = Leave(r, Primary[r])
  /\ Goto(r, "failed")
  /\ UNCHANGED <<cooled, spoke, blamed>>

\* The caller's AbortSignal; streams have none.
Abort(r) ==
  /\ r \in Calls /\ InFlight(r)
  /\ circuit' = ReleaseAt(circuit, KeyOf(r))
  /\ probers' = Leave(r, KeyOf(r))
  /\ Goto(r, "aborted")
  /\ UNCHANGED <<cooled, spoke, blamed>>

\* A chunk reaches the learner.
Speak(r) ==
  /\ r \in Streams /\ InFlight(r)
  /\ spoke' = [spoke EXCEPT ![r] = @ \cup {pc[r]}]
  /\ UNCHANGED <<circuit, cooled, pc, history>>

\* The consumer stops iterating: only the finally block runs, which settles
\* promises and leaves the circuit alone.
Abandon(r) ==
  /\ r \in Streams /\ InFlight(r)
  /\ Goto(r, "abandoned")
  /\ UNCHANGED <<circuit, cooled, spoke, history>>

\* CIRCUIT_RECOVERY_MS pass, not between a throw and its catch. Only canAttempt
\* on an open circuit looks.
Cool(k) ==
  /\ circuit[k].state = "OPEN" /\ k \notin cooled
  /\ \A r \in Requests : pc[r] \notin {"caught", "caughtClient"}
  /\ cooled' = cooled \cup {k}
  /\ UNCHANGED <<circuit, pc, spoke, history>>

\* The steps a request takes once the provider has answered or timed out.
Proceed(r) ==
  \/ Start(r) \/ Fall(r) \/ Succeed(r) \/ Empty(r) \/ PrimaryFails(r)
  \/ FallbackFails(r) \/ ClientError(r) \/ CaughtClientError(r)

Next ==
  \/ \E r \in Requests : Proceed(r) \/ Abort(r) \/ Speak(r) \/ Abandon(r)
  \/ \E k \in Keys : Cool(k)

Spec == Init /\ [][Next]_vars

\* Every adapter puts a timeout on its request (AbortSignal.timeout), so an
\* attempt ends, unless its consumer is gone.
FairSpec == Spec /\ \A r \in Requests : WF_vars(Proceed(r))

----------------------------------------------------------------------------
(* Properties *)

TypeOK ==
  /\ circuit \in [Keys -> Circuit]
  /\ cooled \subseteq Keys
  /\ pc \in [Requests -> Labels]
  /\ spoke \in [Requests -> SUBSET {"primary", "second", "inside"}]
  /\ probers \subseteq Requests \X Keys
  /\ blamed \in [Keys -> SUBSET Requests]

\* A request that holds, or can no longer give back, the probe slot of k.
Probes(r, k) ==
  /\ <<r, k>> \in probers
  /\ (InFlight(r) /\ KeyOf(r) = k) \/ At(r, "abandoned")

\* The probe slot of a half-open circuit is taken by a request that was
\* admitted as its probe and is still under way, unless its stream was
\* abandoned: no other ending of a call, a stream or their fallbacks leaves
\* the slot behind, which would shut the provider out for good.
ProbeHeld ==
  \A k \in Keys : circuit[k].probe =>
    circuit[k].state = "HALF_OPEN" /\ \E r \in Requests : Probes(r, k)

\* No request alone takes a provider away from the others: a circuit is not
\* closed only if two different requests recorded failures since its last
\* success, though one request may report on a circuit twice (the empty stream
\* whose fallback fails as well), and tries each provider several times.
NoSingleRequestTrips ==
  \A k \in Keys : circuit[k].state # "CLOSED" =>
    \E r, s \in blamed[k] : r # s

\* A taken probe slot becomes free again, unless its stream was abandoned.
ProbeSettles ==
  \A k \in Keys : circuit[k].probe ~>
    ~circuit[k].probe \/ \E r \in Streams : At(r, "abandoned") /\ Probes(r, k)

=============================================================================
