------------------------- MODULE OutboxReplay_proofs -------------------------
(* Proofs about the durable sending of OutboxReplay, for any number of        *)
(* entries and requests, any number of kills and sign-outs and any limits: no *)
(* message is lost but to a sign-out, none is answered or counted twice, and  *)
(* the outbox, the stream route, the support endpoint and the sign-out        *)
(* together implement DurableSend.                                            *)
(*                                                                            *)
(* None of it is inductive. An entry may go because the answer the sender     *)
(* listens to is about that entry, and because "reply" is only ever answered  *)
(* once its row is stored; so the invariant follows an answer from the row    *)
(* through the marker and the request to the sender.                          *)
EXTENDS OutboxReplay, FiniteSetTheorems, TLAPS

----------------------------------------------------------------------------
(* The inductive invariant *)

Used(k) == outbox[k].status # "unused"

\* Where the messages of entries that are not, or no longer, on the device are.
EntriesOK ==
  \A k \in Keys :
    /\ ~Used(k) => outbox[k] = Unused /\ k \notin userRow \cup support \cup wiped
    /\ outbox[k].status = "gone" => k \in userRow \cup support \cup wiped

\* A request is about an entry, and tells of a reply only with the row stored.
RequestsOK ==
  \A q \in Requests :
    /\ At(q, "unsent") => request[q] = NotSent
    /\ ~At(q, "unsent") => request[q].key \in Keys /\ Used(request[q].key)
    /\ At(q, "marking") \/ Answer(q) = "reply" => request[q].key \in userRow

\* A sender listens to the request it made.
Listens(sender) ==
  sender.at = "waiting" =>
    /\ sender.request \in Requests
    /\ ~At(sender.request, "unsent")
    /\ request[sender.request].key = sender.key

\* Each sender to its own request, and the drain deletes what support has.
SendersOK ==
  /\ live.at # "idle" => live.key \in Keys /\ Used(live.key)
  /\ drain.at = "waiting" => drain.key \in Keys
  /\ Listens(live) /\ Listens(drain)
  /\ live.at = "waiting" /\ drain.at = "waiting" => live.request # drain.request
  /\ \A k \in drain.todo : Used(k)
  /\ drain.at = "deleting" => drain.todo \subseteq support

RowsOK ==
  /\ marker \subseteq userRow
  /\ OneTurn

IInv == TypeOK /\ EntriesOK /\ RequestsOK /\ SendersOK /\ RowsOK

LEMMA InitInv == Init => IInv
<1> SUFFICES ASSUME Init PROVE IInv
  OBVIOUS
<1>1. TypeOK
  BY BoundAssumption
  DEF Init, TypeOK, Entry, Statuses, Unused, Idle, Resting, NotSent, Places, Answers
<1>2. EntriesOK /\ RequestsOK /\ SendersOK
  BY DEF Init, EntriesOK, RequestsOK, SendersOK, Listens, Used, Unused, Idle, Resting,
         NotSent, At, Answer
<1>3. {k \in Keys : replies[k] = 1} = {}
  BY DEF Init
<1>4. RowsOK
  BY <1>3, FS_EmptySet DEF Init, RowsOK, OneTurn
<1> QED BY <1>1, <1>2, <1>4 DEF IInv

----------------------------------------------------------------------------
(* The outbox *)

\* What a step may do to the outbox: add a fresh entry, change one without
\* moving it, remove one that is safe elsewhere, or nothing.
Adds(k) == outbox[k] = Unused /\ outbox' = [outbox EXCEPT ![k] = Enqueued]
Changes(k, e) ==
  /\ outbox' = [outbox EXCEPT ![k] = e]
  /\ e \in Entry
  /\ e.status = outbox[k].status \/ (OnDevice(e) /\ OnDevice(outbox[k]))
  /\ Used(k)
Removes(k) ==
  /\ k \in userRow \cup support /\ Used(k)
  /\ outbox' = [outbox EXCEPT ![k] = Removed(@)]

UsedStays == \A k \in Keys : Used(k) => Used(k)'

\* The operations of an entry give entries.
LEMMA EntryOps ==
  ASSUME NEW e \in Entry
  PROVE /\ Begun(e) \in Entry /\ Failure(e) \in Entry /\ Removed(e) \in Entry
        /\ Begun(e).status = e.status
        /\ Failure(e).status = e.status \/ (OnDevice(Failure(e)) /\ OnDevice(e))
        /\ ~OnDevice(Removed(e)) /\ (~OnDevice(e) => Removed(e) = e)
        /\ OnDevice(e) => Removed(e).status = "gone"
<1>1. Bumped(e.attempts) \in 0..MaxAttempts
  BY BoundAssumption DEF Entry, Bumped
<1>2. 0 \in 0..MaxAttempts
  BY BoundAssumption
<1> QED BY <1>1, <1>2 DEF Entry, Statuses, Begun, Failure, Removed, OnDevice

\* A fresh id is one, and so is a fresh request.
LEMMA FreshKey ==
  ASSUME EntriesOK, SomeKey
  PROVE NextKey \in Keys /\ outbox[NextKey] = Unused
<1>1. \E k \in Keys : outbox[k] = Unused
  BY DEF EntriesOK, SomeKey, WithStatus, Used
<1> QED BY <1>1 DEF NextKey

LEMMA FreshRequest ==
  ASSUME SomeRequest
  PROVE NextRequest \in Requests /\ At(NextRequest, "unsent")
BY DEF SomeRequest, NextRequest

\* A step of the client that does one of these to the outbox keeps what is
\* known of the entries, and is a step of the promise.
LEMMA OutboxStep ==
  ASSUME TypeOK, EntriesOK, UNCHANGED <<server, wiped>>,
         \/ UNCHANGED outbox
         \/ \E k \in Keys : Adds(k) \/ Removes(k) \/ \E e \in Entry : Changes(k, e)
  PROVE /\ outbox' \in [Keys -> Entry]
        /\ EntriesOK' /\ UsedStays
        /\ [Promise!Next]_(Promise!vars)
<1> DEFINE Device == {k \in Keys : OnDevice(outbox[k])}
<1>0. /\ outbox \in [Keys -> Entry]
      /\ UNCHANGED <<userRow, replies, exchanges, support, wiped>>
  BY DEF TypeOK, server
<1>1. CASE UNCHANGED outbox
  BY <1>0, <1>1 DEF EntriesOK, Used, UsedStays, Promise!vars
<1>2. ASSUME NEW k \in Keys, Adds(k) PROVE
        /\ outbox' \in [Keys -> Entry] /\ EntriesOK' /\ UsedStays /\ Promise!Next
  <2>1. outbox' \in [Keys -> Entry]
    BY <1>0, <1>2, BoundAssumption DEF Adds, Enqueued, Entry, Statuses
  <2>2. ~Used(k) /\ k \notin userRow \cup support \cup wiped /\ k \notin Device
    BY <1>2 DEF Adds, Unused, Used, EntriesOK, OnDevice
  <2>3. Device' = Device \cup {k}
    BY <1>0, <1>2 DEF Adds, Enqueued, OnDevice
  <2>4. Promise!Submit(k)
    BY <1>0, <2>2, <2>3 DEF Promise!Submit
  <2>5. EntriesOK' /\ UsedStays
    BY <1>0, <1>2, <2>2 DEF Adds, Enqueued, EntriesOK, Used, UsedStays
  <2> QED BY <2>1, <2>4, <2>5 DEF Promise!Next
<1>3. ASSUME NEW k \in Keys, NEW e \in Entry, Changes(k, e) PROVE
        /\ outbox' \in [Keys -> Entry] /\ EntriesOK' /\ UsedStays /\ UNCHANGED Promise!vars
  <2>1. Device' = Device
    BY <1>0, <1>3 DEF Changes, OnDevice
  <2>2. outbox' \in [Keys -> Entry] /\ EntriesOK' /\ UsedStays
    BY <1>0, <1>3 DEF Changes, EntriesOK, Used, UsedStays, OnDevice
  <2> QED BY <1>0, <2>1, <2>2 DEF Promise!vars
<1>4. ASSUME NEW k \in Keys, Removes(k) PROVE
        /\ outbox' \in [Keys -> Entry] /\ EntriesOK' /\ UsedStays
        /\ [Promise!Next]_(Promise!vars)
  <2>1. /\ outbox[k] \in Entry /\ outbox'[k] = Removed(outbox[k])
        /\ \A j \in Keys \ {k} : outbox'[j] = outbox[j]
    BY <1>0, <1>4 DEF Removes
  <2>2. outbox' \in [Keys -> Entry]
    BY <1>0, <1>4, EntryOps DEF Removes
  <2>3. Device' = Device \ {k}
    BY <2>1, EntryOps
  <2>4. EntriesOK' /\ UsedStays
    BY <1>0, <1>4, <2>1, EntryOps DEF Removes, EntriesOK, Used, UsedStays, OnDevice
  <2>5. CASE OnDevice(outbox[k])
    <3>1. Promise!Forget(k)
      BY <1>0, <1>4, <2>3, <2>5 DEF Removes, Promise!Forget
    <3> QED BY <2>2, <2>4, <3>1 DEF Promise!Next
  <2>6. CASE ~OnDevice(outbox[k])
    <3>1. Device' = Device
      BY <2>3, <2>6
    <3> QED BY <1>0, <2>2, <2>4, <3>1 DEF Promise!vars
  <2> QED BY <2>5, <2>6
<1> QED BY <1>1, <1>2, <1>3, <1>4

----------------------------------------------------------------------------
(* Steps of the two senders *)

RequestType == [key : Keys \cup {NoKey}, at : Places, answer : Answers]
WireOK == request \in [Requests -> RequestType] /\ RequestsOK

SendersTyped ==
  /\ live \in [at : {"idle", "begin", "waiting"}, key : Keys \cup {NoKey},
               request : Requests \cup {NoRequest}, again : BOOLEAN]
  /\ prompt \in Keys \cup {NoKey}
  /\ drain \in [at : {"idle", "next", "waiting", "posting", "deleting"}, todo : SUBSET Keys,
                key : Keys \cup {NoKey}, request : Requests \cup {NoRequest}]
  /\ wiped \subseteq Keys /\ stops \in 0..MaxStops
ClientOK == SendersTyped /\ SendersOK

\* A step that changes nothing on the server and fits these keeps everything.
LEMMA SenderStep ==
  ASSUME IInv, UNCHANGED <<server, wiped>>,
         \/ UNCHANGED outbox
         \/ \E k \in Keys : Adds(k) \/ Removes(k) \/ \E e \in Entry : Changes(k, e),
         UsedStays => WireOK' /\ ClientOK'
  PROVE IInv' /\ [Promise!Next]_(Promise!vars)
<1>1. /\ outbox' \in [Keys -> Entry] /\ EntriesOK' /\ UsedStays
      /\ [Promise!Next]_(Promise!vars)
  BY OutboxStep DEF IInv
<1>2. RowsOK'
  BY DEF IInv, RowsOK, OneTurn, server
<1> QED
  BY <1>1, <1>2 DEF IInv, TypeOK, WireOK, ClientOK, SendersTyped, RequestType, server

LEMMA SameWire ==
  ASSUME WireOK, UsedStays, UNCHANGED <<request, userRow>>
  PROVE WireOK'
BY DEF WireOK, RequestsOK, UsedStays, At, Answer

\* A request is made.
LEMMA Made ==
  ASSUME WireOK, UsedStays, UNCHANGED userRow, SomeRequest, NEW k \in Keys, Used(k)',
         request' = [request EXCEPT ![NextRequest] = Sent(k)]
  PROVE /\ WireOK'
        /\ request'[NextRequest] = Sent(k)
        /\ \A q \in Requests \ {NextRequest} : request'[q] = request[q]
<1>1. NextRequest \in Requests
  BY FreshRequest
<1>2. /\ request'[NextRequest] = Sent(k)
      /\ \A q \in Requests \ {NextRequest} : request'[q] = request[q]
  BY <1>1 DEF WireOK
<1>3. request' \in [Requests -> RequestType]
  BY <1>1 DEF WireOK, RequestType, Sent, Places, Answers
<1>4. RequestsOK'
  BY <1>2 DEF WireOK, RequestsOK, UsedStays, At, Answer, Sent
<1> QED BY <1>2, <1>3, <1>4 DEF WireOK

\* A sender stops listening.
LEMMA Dropped ==
  ASSUME WireOK, UsedStays, UNCHANGED userRow, NEW q \in Requests,
         request' = [request EXCEPT ![q] = Hangup(q)]
  PROVE /\ WireOK'
        /\ \A p \in Requests \ {q} : request'[p] = request[p]
<1>1. \A p \in Requests \ {q} : request'[p] = request[p]
  BY DEF WireOK
<1>2. request'[q] = request[q] \/ request'[q] = NotSent
  BY DEF WireOK, Hangup
<1>3. request' \in [Requests -> RequestType]
  BY DEF WireOK, RequestType, Hangup, NotSent, Places, Answers
<1>4. RequestsOK'
  BY <1>1, <1>2 DEF WireOK, RequestsOK, UsedStays, At, Answer, NotSent
<1> QED BY <1>1, <1>3, <1>4 DEF WireOK

\* Entries of these kinds are changed, not moved.
LEMMA EntryChanges ==
  ASSUME TypeOK, NEW k \in Keys, Used(k), NEW e,
         e \in {Begun(outbox[k]), Failure(outbox[k]), Failure(Begun(outbox[k])), outbox[k]},
         outbox' = [outbox EXCEPT ![k] = e]
  PROVE e \in Entry /\ Changes(k, e)
<1>1. outbox[k] \in Entry /\ Begun(outbox[k]) \in Entry
  BY EntryOps DEF TypeOK
<1>2. /\ e \in Entry
      /\ e.status = outbox[k].status \/ (OnDevice(e) /\ OnDevice(outbox[k]))
  BY <1>1, EntryOps DEF OnDevice
<1> QED BY <1>2 DEF Changes

\* The senders are kept when neither them nor their requests change.
LEMMA SameSenders ==
  ASSUME ClientOK, UsedStays, UNCHANGED <<live, prompt, drain, wiped, stops, request, support>>
  PROVE ClientOK'
BY DEF ClientOK, SendersTyped, SendersOK, Listens, UsedStays, At

\* Every step of the live stream keeps the invariant and the promise.
LEMMA LiveSteps ==
  ASSUME IInv,
         Compose \/ Reconnect \/ LiveSend \/ LiveUnreachable \/ LiveConfirmed
           \/ LiveFails \/ LiveRetries
  PROVE IInv' /\ [Promise!Next]_(Promise!vars)
<1>0. WireOK /\ ClientOK /\ EntriesOK /\ TypeOK
  BY DEF IInv, TypeOK, WireOK, ClientOK, SendersTyped, RequestType
<1>1. CASE Compose \/ Reconnect
  <2>1. PICK k \in Keys :
          /\ Adds(k) \/ (UNCHANGED outbox /\ Used(k))
          /\ live' = Begin(k)
    <3>1. CASE Compose
      BY <1>0, <3>1, FreshKey DEF Compose, Adds
    <3>2. CASE Reconnect
      <4>1. prompt \in Keys
        BY <1>0, <3>2 DEF Reconnect, ClientOK, SendersTyped
      <4> QED BY <1>0, <3>2, <4>1, FreshKey DEF Reconnect, Adds, OnDevice, Used
    <3> QED BY <1>1, <3>1, <3>2
  <2>2. UNCHANGED <<drain, wiped, stops, request, server>> /\ prompt' = NoKey
    BY <1>1 DEF Compose, Reconnect
  <2>3. Used(k)'
    BY <1>0, <2>1 DEF Adds, Used, Enqueued, TypeOK
  <2>4. ASSUME UsedStays PROVE WireOK' /\ ClientOK'
    <3>1. ClientOK'
      BY <1>0, <2>1, <2>2, <2>3, <2>4
      DEF ClientOK, SendersTyped, SendersOK, Listens, UsedStays, At, Begin, Idle, server
    <3> QED BY <1>0, <2>2, <2>4, <3>1, SameWire DEF server
  <2> QED BY <2>1, <2>2, <2>4, SenderStep
<1>2. CASE LiveSend
  <2>1. live.key \in Keys /\ Used(live.key)
    BY <1>0, <1>2 DEF LiveSend, ClientOK, SendersOK
  <2>2. Begun(outbox[live.key]) \in Entry /\ Changes(live.key, Begun(outbox[live.key]))
    BY <1>0, <1>2, <2>1, EntryChanges DEF LiveSend
  <2>3. ASSUME UsedStays PROVE WireOK' /\ ClientOK'
    <3>1. /\ WireOK'
          /\ request'[NextRequest] = Sent(live.key)
          /\ \A q \in Requests \ {NextRequest} : request'[q] = request[q]
      BY <1>0, <1>2, <2>1, <2>3, Made DEF LiveSend, server, UsedStays
    <3>2. NextRequest \in Requests /\ At(NextRequest, "unsent")
      BY <1>2, FreshRequest DEF LiveSend
    <3>3. live' = Waiting(live.key, FALSE) /\ UNCHANGED <<prompt, drain, wiped, stops, support>>
      BY <1>2 DEF LiveSend, server
    <3>4. SendersTyped'
      BY <1>0, <2>1, <3>2, <3>3 DEF ClientOK, SendersTyped, Waiting
    <3>5. SendersOK'
      <4>1. drain.at = "waiting" =>
              /\ drain.request \in Requests \ {NextRequest}
              /\ request'[drain.request] = request[drain.request]
        BY <1>0, <3>1, <3>2 DEF ClientOK, SendersOK, Listens
      <4>2. Listens(live)' /\ Listens(drain)'
        BY <1>0, <3>1, <3>2, <3>3, <4>1
        DEF ClientOK, SendersOK, Listens, At, Waiting, Sent
      <4> QED
        BY <1>0, <2>1, <2>3, <3>2, <3>3, <4>1, <4>2
        DEF ClientOK, SendersTyped, SendersOK, UsedStays, Waiting
    <3> QED BY <3>1, <3>4, <3>5 DEF ClientOK
  <2> QED BY <1>2, <2>1, <2>2, <2>3, SenderStep DEF LiveSend
<1>3. CASE LiveUnreachable
  <2>1. live.key \in Keys /\ Used(live.key)
    BY <1>0, <1>3 DEF LiveUnreachable, ClientOK, SendersOK
  <2>2. PICK e \in Entry : Changes(live.key, e)
    BY <1>0, <1>3, <2>1, EntryChanges DEF LiveUnreachable
  <2>3. ASSUME UsedStays PROVE WireOK' /\ ClientOK'
    <3>1. WireOK'
      BY <1>0, <1>3, <2>3, SameWire DEF LiveUnreachable, server
    <3>2. ClientOK'
      BY <1>0, <1>3, <2>1, <2>3
      DEF LiveUnreachable, ClientOK, SendersTyped, SendersOK, Listens, UsedStays, At, Idle, server
    <3> QED BY <3>1, <3>2
  <2> QED BY <1>3, <2>1, <2>2, <2>3, SenderStep DEF LiveUnreachable
<1>4. CASE LiveConfirmed \/ LiveFails
  <2>1. /\ live.key \in Keys /\ Used(live.key)
        /\ live.request \in Requests /\ request[live.request].key = live.key
        /\ live.at = "waiting"
    BY <1>0, <1>4 DEF LiveConfirmed, LiveFails, ClientOK, SendersOK, Listens
  <2>2. Removes(live.key) \/ \E e \in Entry : Changes(live.key, e)
    <3>1. CASE LiveConfirmed
      <4>1. live.key \in userRow
        BY <1>0, <2>1, <3>1 DEF LiveConfirmed, WireOK, RequestsOK
      <4> QED BY <2>1, <3>1, <4>1 DEF LiveConfirmed, LiveEnds, Removes
    <3>2. CASE LiveFails
      BY <1>0, <2>1, <3>2, EntryChanges DEF LiveFails, LiveEnds
    <3> QED BY <1>4, <3>1, <3>2
  <2>3. /\ request' = [request EXCEPT ![live.request] = Hangup(live.request)]
        /\ live' = Idle /\ prompt' \in {NoKey, live.key}
        /\ UNCHANGED <<drain, wiped, stops, server>>
    BY <1>4 DEF LiveConfirmed, LiveFails, LiveEnds
  <2>4. ASSUME UsedStays PROVE WireOK' /\ ClientOK'
    <3>1. WireOK' /\ \A p \in Requests \ {live.request} : request'[p] = request[p]
      BY <1>0, <2>1, <2>3, <2>4, Dropped DEF server
    <3>2. SendersTyped'
      BY <1>0, <2>1, <2>3 DEF ClientOK, SendersTyped, Idle
    <3>3. SendersOK'
      <4>1. drain.at = "waiting" => request'[drain.request] = request[drain.request]
        BY <1>0, <2>1, <3>1 DEF ClientOK, SendersOK, Listens
      <4>2. Listens(live)' /\ Listens(drain)'
        BY <1>0, <2>3, <4>1 DEF ClientOK, SendersOK, Listens, At, Idle
      <4> QED
        BY <1>0, <2>3, <2>4, <4>2 DEF ClientOK, SendersTyped, SendersOK, UsedStays, Idle, server
    <3> QED BY <3>1, <3>2, <3>3 DEF ClientOK
  <2> QED BY <2>1, <2>2, <2>3, <2>4, SenderStep
<1>5. CASE LiveRetries
  <2>1. /\ live.key \in Keys /\ Used(live.key)
        /\ live.request \in Requests /\ ~At(live.request, "unsent")
        /\ NextRequest \in Requests /\ At(NextRequest, "unsent")
    BY <1>0, <1>5, FreshRequest DEF LiveRetries, ClientOK, SendersOK, Listens
  <2>2. /\ live' = Waiting(live.key, TRUE) /\ live.at = "waiting"
        /\ UNCHANGED <<outbox, prompt, drain, wiped, stops, server>>
    BY <1>5 DEF LiveRetries
  <2>3. ASSUME UsedStays PROVE WireOK' /\ ClientOK'
    <3>1. /\ request'[NextRequest] = Sent(live.key)
          /\ request'[live.request] \in {NotSent, request[live.request]}
          /\ \A q \in Requests \ {live.request, NextRequest} : request'[q] = request[q]
      BY <1>0, <1>5, <2>1 DEF LiveRetries, Hangup, WireOK, At
    <3>2. request' \in [Requests -> RequestType]
      BY <1>0, <1>5, <2>1
      DEF LiveRetries, Hangup, WireOK, RequestType, Sent, NotSent, Places, Answers
    <3>3. RequestsOK'
      BY <1>0, <2>1, <2>2, <2>3, <3>1
      DEF WireOK, RequestsOK, UsedStays, At, Answer, Sent, NotSent, server
    <3>4. SendersTyped'
      BY <1>0, <2>1, <2>2 DEF ClientOK, SendersTyped, Waiting
    <3>5. SendersOK'
      <4>1. drain.at = "waiting" =>
              /\ drain.request \in Requests \ {live.request, NextRequest}
              /\ request'[drain.request] = request[drain.request]
        BY <1>0, <2>1, <2>2, <3>1 DEF ClientOK, SendersOK, Listens
      <4>2. Listens(live)' /\ Listens(drain)'
        BY <1>0, <2>1, <2>2, <3>1, <4>1
        DEF ClientOK, SendersOK, Listens, At, Waiting, Sent
      <4> QED
        BY <1>0, <2>1, <2>2, <2>3, <4>1, <4>2
        DEF ClientOK, SendersTyped, SendersOK, UsedStays, Waiting, server
    <3> QED BY <3>2, <3>3, <3>4, <3>5 DEF WireOK, ClientOK
  <2> QED BY <2>2, <2>3, SenderStep
<1> QED BY <1>1, <1>2, <1>3, <1>4, <1>5

\* The drain rests, or goes on with entries that are used.
LEMMA DrainRests ==
  ASSUME ClientOK, UsedStays, UNCHANGED <<live, prompt, wiped, stops, request, support>>,
         NEW at \in {"idle", "next", "posting"}, NEW todo \in SUBSET Keys,
         drain' = [at |-> at, todo |-> todo, key |-> NoKey, request |-> NoRequest],
         \A k \in todo : Used(k)
  PROVE ClientOK'
<1>1. SendersTyped'
  BY DEF ClientOK, SendersTyped
<1>2. SendersOK'
  BY DEF ClientOK, SendersTyped, SendersOK, Listens, UsedStays, At
<1> QED BY <1>1, <1>2 DEF ClientOK

\* Every step of the drain that leaves the server alone, and a kill.
LEMMA DrainSteps ==
  ASSUME IInv,
         \/ DrainStart \/ DrainConfirmed \/ DrainIgnoresError \/ DrainFails \/ DrainReplayed
         \/ \E k \in Keys : DrainSend(k) \/ DrainUnreachable(k) \/ DrainDeletes(k)
         \/ Kill
  PROVE IInv' /\ [Promise!Next]_(Promise!vars)
<1>0. WireOK /\ ClientOK /\ EntriesOK /\ TypeOK
  BY DEF IInv, TypeOK, WireOK, ClientOK, SendersTyped, RequestType
<1>1. CASE DrainStart \/ DrainReplayed
  <2>1. /\ UNCHANGED <<outbox, live, prompt, wiped, stops, request, server>>
        /\ \/ drain' = Resting
           \/ drain' = [Resting EXCEPT !.at = "next", !.todo = WithStatus("pending")]
           \/ drain' = [Resting EXCEPT !.at = "posting", !.todo = WithStatus("failed")]
    BY <1>1 DEF DrainStart, DrainReplayed
  <2>2. ASSUME UsedStays PROVE WireOK' /\ ClientOK'
    <3>1. WireOK'
      BY <1>0, <2>1, <2>2, SameWire DEF server
    <3>2. /\ WithStatus("pending") \in SUBSET Keys /\ \A k \in WithStatus("pending") : Used(k)
          /\ WithStatus("failed") \in SUBSET Keys /\ \A k \in WithStatus("failed") : Used(k)
      BY DEF WithStatus, Used
    <3>3. CASE drain' = Resting
      BY <1>0, <2>1, <2>2, <3>1, <3>3, DrainRests DEF Resting, server
    <3>4. CASE drain' = [Resting EXCEPT !.at = "next", !.todo = WithStatus("pending")]
      BY <1>0, <2>1, <2>2, <3>1, <3>2, <3>4, DrainRests DEF Resting, server
    <3>5. CASE drain' = [Resting EXCEPT !.at = "posting", !.todo = WithStatus("failed")]
      BY <1>0, <2>1, <2>2, <3>1, <3>2, <3>5, DrainRests DEF Resting, server
    <3> QED BY <2>1, <3>3, <3>4, <3>5
  <2> QED BY <2>1, <2>2, SenderStep
<1>2. ASSUME NEW k \in Keys, DrainSend(k)
      PROVE IInv' /\ [Promise!Next]_(Promise!vars)
  <2>1. Used(k) /\ k \in drain.todo
    BY <1>0, <1>2 DEF DrainSend, ClientOK, SendersOK
  <2>2. Begun(outbox[k]) \in Entry /\ Changes(k, Begun(outbox[k]))
    BY <1>0, <1>2, <2>1, EntryChanges DEF DrainSend
  <2>3. ASSUME UsedStays PROVE WireOK' /\ ClientOK'
    <3>1. /\ WireOK'
          /\ request'[NextRequest] = Sent(k)
          /\ \A q \in Requests \ {NextRequest} : request'[q] = request[q]
      BY <1>0, <1>2, <2>1, <2>3, Made DEF DrainSend, server, UsedStays
    <3>2. NextRequest \in Requests /\ At(NextRequest, "unsent")
      BY <1>2, FreshRequest DEF DrainSend
    <3>3. /\ drain' = [at |-> "waiting", todo |-> drain.todo \ {k}, key |-> k,
                       request |-> NextRequest]
          /\ UNCHANGED <<live, prompt, wiped, stops, support>>
      BY <1>2 DEF DrainSend, server
    <3>4. SendersTyped'
      BY <1>0, <3>2, <3>3 DEF ClientOK, SendersTyped
    <3>5. SendersOK'
      <4>1. live.at = "waiting" =>
              /\ live.request \in Requests \ {NextRequest}
              /\ request'[live.request] = request[live.request]
        BY <1>0, <3>1, <3>2 DEF ClientOK, SendersOK, Listens
      <4>2. Listens(live)' /\ Listens(drain)'
        BY <1>0, <3>1, <3>2, <3>3, <4>1 DEF ClientOK, SendersOK, Listens, At, Sent
      <4> QED
        BY <1>0, <2>3, <3>2, <3>3, <4>1, <4>2
        DEF ClientOK, SendersTyped, SendersOK, UsedStays
    <3> QED BY <3>1, <3>4, <3>5 DEF ClientOK
  <2> QED BY <1>2, <2>2, <2>3, SenderStep DEF DrainSend
<1>3. ASSUME NEW k \in Keys, DrainUnreachable(k) \/ DrainDeletes(k)
      PROVE IInv' /\ [Promise!Next]_(Promise!vars)
  <2>1. Used(k) /\ k \in drain.todo
    BY <1>0, <1>3 DEF DrainUnreachable, DrainDeletes, ClientOK, SendersOK
  <2>2. Removes(k) \/ \E e \in Entry : Changes(k, e)
    <3>1. CASE DrainUnreachable(k)
      BY <1>0, <2>1, <3>1, EntryChanges DEF DrainUnreachable
    <3>2. CASE DrainDeletes(k)
      BY <1>0, <2>1, <3>2 DEF DrainDeletes, Removes, ClientOK, SendersOK
    <3> QED BY <1>3, <3>1, <3>2
  <2>3. UNCHANGED <<live, prompt, wiped, stops, request, server>>
    BY <1>3 DEF DrainUnreachable, DrainDeletes
  <2>4. ASSUME UsedStays PROVE WireOK' /\ ClientOK'
    <3>1. WireOK'
      BY <1>0, <2>3, <2>4, SameWire DEF server
    <3>2. CASE drain' = [Resting EXCEPT !.at = "next", !.todo = drain.todo \ {k}]
      <4>1. /\ drain.todo \ {k} \in SUBSET Keys
            /\ \A j \in drain.todo \ {k} : Used(j)
        BY <1>0 DEF ClientOK, SendersTyped, SendersOK
      <4>2. ClientOK'
        BY <1>0, <2>3, <2>4, <3>2, <4>1, DrainRests DEF Resting, server
      <4> QED BY <3>1, <4>2
    <3>3. CASE drain' = Resting
      <4>1. ClientOK'
        BY <1>0, <2>3, <2>4, <3>3, DrainRests DEF Resting, server
      <4> QED BY <3>1, <4>1
    <3>4. CASE drain.at = "deleting" /\ drain' = [drain EXCEPT !.todo = drain.todo \ {k}]
      <4>1. /\ drain' \in [at : {"deleting"}, todo : SUBSET Keys,
                           key : Keys \cup {NoKey}, request : Requests \cup {NoRequest}]
            /\ drain'.todo \subseteq drain.todo
        BY <1>0, <3>4 DEF ClientOK, SendersTyped
      <4>2. SendersTyped'
        BY <1>0, <2>3, <4>1 DEF ClientOK, SendersTyped
      <4>3. SendersOK'
        BY <1>0, <2>3, <2>4, <3>4, <4>1
        DEF ClientOK, SendersTyped, SendersOK, Listens, UsedStays, At, server
      <4> QED BY <3>1, <4>2, <4>3 DEF ClientOK
    <3> QED BY <1>3, <3>2, <3>3, <3>4 DEF DrainUnreachable, DrainGoesOn, DrainDeletes
  <2> QED BY <2>2, <2>3, <2>4, SenderStep
<1>4. CASE DrainConfirmed \/ DrainIgnoresError \/ DrainFails
  <2>1. /\ drain.key \in Keys /\ Used(drain.key)
        /\ drain.request \in Requests /\ request[drain.request].key = drain.key
        /\ drain.at = "waiting"
    BY <1>0, <1>4
    DEF DrainConfirmed, DrainIgnoresError, DrainFails, ClientOK, SendersOK, Listens,
        WireOK, RequestsOK
  <2>2. Removes(drain.key) \/ \E e \in Entry : Changes(drain.key, e)
    <3>1. CASE DrainConfirmed
      <4>1. drain.key \in userRow
        BY <1>0, <2>1, <3>1 DEF DrainConfirmed, WireOK, RequestsOK
      <4> QED BY <2>1, <3>1, <4>1 DEF DrainConfirmed, DrainEnds, Removes
    <3>2. CASE DrainIgnoresError \/ DrainFails
      BY <1>0, <2>1, <3>2, EntryChanges DEF DrainIgnoresError, DrainFails, DrainEnds
    <3> QED BY <1>4, <3>1, <3>2
  <2>3. /\ request' = [request EXCEPT ![drain.request] = Hangup(drain.request)]
        /\ drain' = [Resting EXCEPT !.at = "next", !.todo = drain.todo]
        /\ UNCHANGED <<live, prompt, wiped, stops, server>>
    BY <1>4 DEF DrainConfirmed, DrainIgnoresError, DrainFails, DrainEnds, DrainGoesOn
  <2>4. ASSUME UsedStays PROVE WireOK' /\ ClientOK'
    <3>1. WireOK' /\ \A p \in Requests \ {drain.request} : request'[p] = request[p]
      BY <1>0, <2>1, <2>3, <2>4, Dropped DEF server
    <3>2. SendersTyped'
      BY <1>0, <2>1, <2>3 DEF ClientOK, SendersTyped, Resting
    <3>3. SendersOK'
      <4>1. live.at = "waiting" => request'[live.request] = request[live.request]
        BY <1>0, <2>1, <3>1 DEF ClientOK, SendersOK, Listens
      <4>2. Listens(live)' /\ Listens(drain)'
        BY <1>0, <2>3, <4>1 DEF ClientOK, SendersOK, Listens, At, Resting
      <4> QED
        BY <1>0, <2>3, <2>4, <4>2
        DEF ClientOK, SendersTyped, SendersOK, UsedStays, Resting, server
    <3> QED BY <3>1, <3>2, <3>3 DEF ClientOK
  <2> QED BY <2>1, <2>2, <2>3, <2>4, SenderStep
<1>5. CASE Kill
  <2>1. /\ UNCHANGED <<outbox, wiped, server>> /\ live' = Idle /\ drain' = Resting
        /\ prompt' = NoKey /\ stops' \in 0..MaxStops
        /\ request' = [q \in Requests |-> Hangup(q)]
    BY <1>0, <1>5, BoundAssumption DEF Kill, ClientOK, SendersTyped
  <2>2. ASSUME UsedStays PROVE WireOK' /\ ClientOK'
    <3>1. \A q \in Requests : request'[q] \in {request[q], NotSent}
      BY <2>1 DEF Hangup
    <3>2. request' \in [Requests -> RequestType]
      BY <1>0, <2>1 DEF Hangup, WireOK, RequestType, NotSent, Places, Answers
    <3>3. RequestsOK'
      BY <1>0, <2>1, <2>2, <3>1
      DEF WireOK, RequestsOK, UsedStays, At, Answer, NotSent, server
    <3>4. ClientOK'
      BY <1>0, <2>1 DEF ClientOK, SendersTyped, SendersOK, Listens, Idle, Resting
    <3> QED BY <3>2, <3>3, <3>4 DEF WireOK
  <2> QED BY <2>1, <2>2, SenderStep
<1> QED BY <1>1, <1>2, <1>3, <1>4, <1>5

\* A sign-out takes every entry off the device, as the promise's Discard does.
LEMMA SignOutStep ==
  ASSUME IInv, SignOut
  PROVE IInv' /\ [Promise!Next]_(Promise!vars)
<1> DEFINE Device == {k \in Keys : OnDevice(outbox[k])}
<1>0. WireOK /\ ClientOK /\ EntriesOK /\ RowsOK /\ TypeOK
  BY DEF IInv, TypeOK, WireOK, ClientOK, SendersTyped, RequestType
<1>1. /\ UNCHANGED <<live, prompt, drain, request, server>>
      /\ wiped' = wiped \cup Device /\ stops' \in 0..MaxStops
      /\ \A k \in Keys : outbox'[k] = Removed(outbox[k]) /\ outbox[k] \in Entry
  BY <1>0, BoundAssumption DEF SignOut, TypeOK
<1>2. outbox' \in [Keys -> Entry]
  BY <1>1, EntryOps DEF SignOut
<1>3. Device' = {}
  BY <1>1, EntryOps
<1>4. ASSUME NEW k \in Keys
      PROVE outbox'[k] = outbox[k] \/ (outbox'[k].status = "gone" /\ k \in Device)
  BY <1>1, EntryOps
<1>5. EntriesOK' /\ UsedStays
  BY <1>0, <1>1, <1>4 DEF EntriesOK, Used, UsedStays, OnDevice, server
<1>6. WireOK'
  BY <1>0, <1>1, <1>5, SameWire DEF server
<1>7. ClientOK'
  BY <1>0, <1>1, <1>5 DEF ClientOK, SendersTyped, SendersOK, Listens, UsedStays, At, server
<1>8. RowsOK' /\ TypeOK'
  BY <1>0, <1>1, <1>2 DEF RowsOK, OneTurn, TypeOK, server
<1>9. Promise!Discard
  BY <1>1, <1>3 DEF Promise!Discard, server
<1> QED BY <1>5, <1>6, <1>7, <1>8, <1>9 DEF IInv, WireOK, ClientOK, Promise!Next

----------------------------------------------------------------------------
(* Steps of the server *)

\* A request gets on: what it tells is backed by the row, the senders keep
\* listening to theirs.
LEMMA RequestMoves ==
  ASSUME WireOK, ClientOK, UNCHANGED client, userRow \subseteq userRow',
         support \subseteq support',
         NEW q \in Requests, ~At(q, "unsent"),
         NEW place \in Places \ {"unsent"}, NEW answer \in Answers,
         Moves(q, place, answer),
         place = "marking" \/ answer = "reply" => request[q].key \in userRow'
  PROVE WireOK' /\ ClientOK'
<1>1. \A p \in Requests \ {q} : request'[p] = request[p]
  BY DEF WireOK, Moves
<1>2. \/ request'[q] = NotSent /\ ~Listened(q)
      \/ request'[q] = [request[q] EXCEPT !.at = place, !.answer = answer]
  BY DEF WireOK, Moves
<1>3. request' \in [Requests -> RequestType]
  BY DEF WireOK, Moves, RequestType, NotSent, Places, Answers
<1>4. request[q] \in RequestType
  BY DEF WireOK
<1>5. RequestsOK'
  <2>1. \A k \in Keys : Used(k)' = Used(k)
    BY DEF Used, client
  <2>2. request'[q] = NotSent \/
        (/\ request'[q].key = request[q].key
         /\ request'[q].at = place /\ request'[q].answer = answer)
    BY <1>2, <1>4 DEF RequestType
  <2> QED BY <1>1, <2>1, <2>2 DEF WireOK, RequestsOK, At, Answer, NotSent
<1>6. ASSUME NEW p \in Requests, ~At(p, "unsent"), Listened(p)
      PROVE ~At(p, "unsent")' /\ request'[p].key = request[p].key
  BY <1>1, <1>2, <1>4, <1>6 DEF At, RequestType
<1>7. Listens(live)' /\ Listens(drain)'
  <2>1. live.at = "waiting" => Listened(live.request)
    BY DEF Listened
  <2>2. drain.at = "waiting" => Listened(drain.request)
    BY DEF Listened
  <2> QED BY <1>6, <2>1, <2>2 DEF ClientOK, SendersOK, Listens, At, client
<1>8. ClientOK'
  BY <1>7 DEF ClientOK, SendersTyped, SendersOK, Used, client
<1> QED BY <1>3, <1>5, <1>8 DEF WireOK

\* A message that is being worked on is on the device, stored or with support.
LEMMA KeySomewhere ==
  ASSUME TypeOK, EntriesOK, NEW k \in Keys, Used(k)
  PROVE OnDevice(outbox[k]) \/ k \in userRow \cup support \cup wiped
BY DEF TypeOK, EntriesOK, Used, OnDevice, Entry, Statuses

\* More rows, or more copies, are no harm to the entries.
LEMMA EntriesStay ==
  ASSUME EntriesOK, UNCHANGED <<outbox, wiped>>,
         userRow \subseteq userRow', support \subseteq support',
         \A k \in (userRow' \cup support') \ (userRow \cup support) : k \in Keys => Used(k)
  PROVE EntriesOK'
BY DEF EntriesOK, Used

\* Preflight, a marker, a crash: no rows, no copies.
LEMMA RoutineSteps ==
  ASSUME IInv, NEW q \in Requests, Preflight(q) \/ Mark(q) \/ Crash(q)
  PROVE IInv' /\ UNCHANGED Promise!vars
<1>0. WireOK /\ ClientOK /\ EntriesOK /\ RowsOK /\ TypeOK
  BY DEF IInv, TypeOK, WireOK, ClientOK, SendersTyped, RequestType
<1>1. /\ UNCHANGED <<client, userRow, replies, exchanges, support>>
      /\ ~At(q, "unsent")
      /\ request[q].key \in Keys
  BY <1>0 DEF Preflight, Mark, Crash, At, server, WireOK, RequestsOK
<1>2. \E place \in Places \ {"unsent"}, answer \in Answers :
        /\ Moves(q, place, answer)
        /\ place = "marking" \/ answer = "reply" => request[q].key \in userRow
  <2>1. CASE Preflight(q)
    BY <1>0, <2>1 DEF Preflight, RowsOK, Places, Answers
  <2>2. CASE Mark(q)
    BY <1>0, <2>2 DEF Mark, WireOK, RequestsOK, Places, Answers
  <2>3. CASE Crash(q)
    BY <2>3 DEF Crash, Places, Answers
  <2> QED BY <2>1, <2>2, <2>3
<1>3. WireOK' /\ ClientOK'
  BY <1>0, <1>1, <1>2, RequestMoves
<1>4. marker' \subseteq userRow /\ marker' \subseteq Keys
  BY <1>0, <1>1 DEF Preflight, Mark, Crash, server, WireOK, RequestsOK, RowsOK, TypeOK
<1>5. EntriesOK' /\ RowsOK'
  BY <1>0, <1>1, <1>4 DEF EntriesOK, Used, RowsOK, OneTurn, client
<1>6. TypeOK'
  BY <1>0, <1>1, <1>3, <1>4
  DEF TypeOK, WireOK, ClientOK, SendersTyped, RequestType, client
<1> QED BY <1>1, <1>3, <1>5, <1>6 DEF IInv, WireOK, ClientOK, client, Promise!vars

\* A message that is not stored yet is, with its reply or without.
LEMMA Stored ==
  ASSUME NEW k \in Keys, k \notin userRow, OnDevice(outbox[k]) \/ k \in support \cup wiped,
         userRow' = userRow \cup {k}, UNCHANGED <<outbox, support, wiped>>,
         \/ UNCHANGED <<replies, exchanges>>
         \/ /\ {j \in Keys : replies[j] > 0}' = {j \in Keys : replies[j] > 0} \cup {k}
            /\ exchanges' = exchanges + 1
  PROVE Promise!Next
<1>1. k \in ({j \in Keys : OnDevice(outbox[j])} \cup support \cup wiped) \ userRow
  OBVIOUS
<1>2. {j \in Keys : OnDevice(outbox[j])}' = {j \in Keys : OnDevice(outbox[j])}
  BY DEF OnDevice
<1>3. UNCHANGED replies =>
        {j \in Keys : replies[j] > 0}' = {j \in Keys : replies[j] > 0}
  OBVIOUS
<1>4. Promise!Store(k)
  BY <1>1, <1>2, <1>3 DEF Promise!Store
<1> QED BY <1>4 DEF Promise!Next

\* A row without a reply.
LEMMA OrphanSteps ==
  ASSUME IInv, NEW q \in Requests, NoReply(q)
  PROVE IInv' /\ [Promise!Next]_(Promise!vars)
<1> DEFINE k == request[q].key
<1>0. WireOK /\ ClientOK /\ EntriesOK /\ RowsOK /\ TypeOK
  BY DEF IInv, TypeOK, WireOK, ClientOK, SendersTyped, RequestType
<1>1. /\ UNCHANGED <<client, replies, exchanges, marker, support>>
      /\ ~At(q, "unsent")
      /\ userRow' \in {userRow, userRow \cup {k}}
  BY DEF NoReply, OrphanKept, At
<1>2. k \in Keys /\ Used(k)
  BY <1>0, <1>1 DEF WireOK, RequestsOK
<1>3. \E answer \in Answers \ {"reply"} : Moves(q, "over", answer)
  BY DEF NoReply, Answers
<1>4. WireOK' /\ ClientOK'
  <2>1. "over" \in Places \ {"unsent"}
    BY DEF Places
  <2> QED BY <1>0, <1>1, <1>3, <2>1, RequestMoves
<1>5. EntriesOK'
  BY <1>0, <1>1, <1>2, EntriesStay DEF client
<1>6. RowsOK'
  BY <1>0, <1>1 DEF RowsOK, OneTurn
<1>7. TypeOK'
  BY <1>0, <1>1, <1>2, <1>4
  DEF TypeOK, WireOK, ClientOK, SendersTyped, RequestType, client
<1>8. [Promise!Next]_(Promise!vars)
  <2>1. CASE userRow' = userRow
    BY <1>1, <2>1 DEF Promise!vars, client
  <2>2. CASE userRow' = userRow \cup {k} /\ k \notin userRow
    <3>1. OnDevice(outbox[k]) \/ k \in support \cup wiped
      BY <1>0, <1>2, <2>2, KeySomewhere
    <3> QED BY <1>1, <1>2, <2>2, <3>1, Stored DEF client
  <2> QED BY <1>1, <2>1, <2>2
<1> QED BY <1>4, <1>5, <1>6, <1>7, <1>8 DEF IInv, WireOK, ClientOK

\* A row with its reply, or the row there is.
LEMMA PersistSteps ==
  ASSUME IInv, NEW q \in Requests, Persist(q)
  PROVE IInv' /\ [Promise!Next]_(Promise!vars)
<1> DEFINE k == request[q].key
           Once == {j \in Keys : replies[j] = 1}
<1>0. WireOK /\ ClientOK /\ EntriesOK /\ RowsOK /\ TypeOK
  BY DEF IInv, TypeOK, WireOK, ClientOK, SendersTyped, RequestType
<1>1. /\ UNCHANGED <<client, marker, support>>
      /\ ~At(q, "unsent")
      /\ Moves(q, "marking", "none")
      /\ k \in userRow'
      /\ userRow \subseteq userRow'
  BY DEF Persist, At
<1>2. k \in Keys /\ Used(k)
  BY <1>0, <1>1 DEF WireOK, RequestsOK
<1>3. WireOK' /\ ClientOK'
  <2>1. "marking" \in Places \ {"unsent"} /\ "none" \in Answers
    BY DEF Places, Answers
  <2> QED BY <1>0, <1>1, <2>1, RequestMoves
<1>4. userRow' = userRow \cup {k}
  BY DEF Persist
<1>5. EntriesOK'
  BY <1>0, <1>1, <1>2, <1>4, EntriesStay DEF client
<1>6. CASE UNCHANGED <<userRow, replies, exchanges>>
  <2>1. RowsOK'
    BY <1>0, <1>1, <1>6 DEF RowsOK, OneTurn
  <2>2. TypeOK'
    BY <1>0, <1>1, <1>3, <1>6
    DEF TypeOK, WireOK, ClientOK, SendersTyped, RequestType, client
  <2>3. UNCHANGED Promise!vars
    BY <1>1, <1>6 DEF Promise!vars, client
  <2> QED BY <1>3, <1>5, <2>1, <2>2, <2>3 DEF IInv, WireOK, ClientOK
<1>7. CASE /\ k \notin userRow
           /\ replies' = [replies EXCEPT ![k] = @ + 1] /\ exchanges' = exchanges + 1
  <2>1. replies[k] = 0 /\ replies \in [Keys -> Nat] /\ exchanges \in Nat
    <3>1. replies \in [Keys -> Nat] /\ exchanges \in Nat
      BY <1>0 DEF TypeOK
    <3>2. replies[k] <= 1 /\ (replies[k] = 1 => k \in userRow)
      BY <1>0, <1>2 DEF RowsOK, OneTurn
    <3> QED BY <1>2, <1>7, <3>1, <3>2
  <2>2. /\ replies'[k] = 1
        /\ \A j \in Keys \ {k} : replies'[j] = replies[j]
        /\ replies' \in [Keys -> Nat]
    BY <1>2, <1>7, <2>1
  <2>3. Once' = Once \cup {k} /\ k \notin Once
    BY <1>2, <2>1, <2>2
  <2>4. IsFiniteSet(Once)
    <3>1. Once \subseteq Keys
      OBVIOUS
    <3> QED BY <3>1, FiniteAssumption, FS_Subset
  <2>5. Cardinality(Once') = Cardinality(Once) + 1
    BY <2>3, <2>4, FS_AddElement
  <2>6. exchanges' = Cardinality(Once')
    BY <1>0, <1>7, <2>5 DEF RowsOK, OneTurn
  <2>7. RowsOK'
    BY <1>0, <1>1, <1>4, <2>2, <2>6 DEF RowsOK, OneTurn
  <2>8. TypeOK'
    BY <1>0, <1>1, <1>2, <1>3, <1>4, <1>7, <2>1, <2>2
    DEF TypeOK, WireOK, ClientOK, SendersTyped, RequestType, client
  <2>9. Promise!Next
    <3>1. OnDevice(outbox[k]) \/ k \in support \cup wiped
      BY <1>0, <1>2, <1>7, KeySomewhere
    <3>2. {j \in Keys : replies[j] > 0}' = {j \in Keys : replies[j] > 0} \cup {k}
      BY <1>2, <2>1, <2>2
    <3> QED BY <1>1, <1>2, <1>4, <1>7, <3>1, <3>2, Stored DEF client
  <2> QED BY <1>2, <1>3, <1>5, <2>7, <2>8, <2>9 DEF IInv, WireOK, ClientOK
<1> QED BY <1>6, <1>7 DEF Persist

\* Support gets copies of used entries.
LEMMA EscalateSteps ==
  ASSUME IInv, Escalate \/ EscalateFails
  PROVE IInv' /\ [Promise!Next]_(Promise!vars)
<1>0. WireOK /\ ClientOK /\ EntriesOK /\ RowsOK /\ TypeOK
  BY DEF IInv, TypeOK, WireOK, ClientOK, SendersTyped, RequestType
<1>1. /\ UNCHANGED <<outbox, live, prompt, wiped, stops, request, userRow, replies, exchanges, marker>>
      /\ support' \in {support, support \cup drain.todo}
      /\ drain.at = "posting"
  BY DEF Escalate, EscalateFails
<1>2. drain.todo \subseteq Keys /\ \A k \in drain.todo : Used(k)
  BY <1>0 DEF ClientOK, SendersTyped, SendersOK
<1>3. WireOK'
  BY <1>0, <1>1 DEF WireOK, RequestsOK, Used, At, Answer
<1>4. SendersTyped'
  BY <1>0, <1>1 DEF Escalate, EscalateFails, ClientOK, SendersTyped, Resting
<1>5. SendersOK'
  <2>1. CASE Escalate
    BY <1>0, <1>1, <1>2, <2>1
    DEF Escalate, ClientOK, SendersTyped, SendersOK, Listens, Used, At
  <2>2. CASE EscalateFails
    BY <1>0, <1>1, <2>2
    DEF EscalateFails, ClientOK, SendersOK, Listens, Used, At, Resting
  <2> QED BY <2>1, <2>2
<1>6. EntriesOK'
  BY <1>0, <1>1, <1>2, EntriesStay
<1>7. RowsOK'
  BY <1>0, <1>1 DEF RowsOK, OneTurn
<1>8. TypeOK'
  BY <1>0, <1>1, <1>2, <1>4 DEF TypeOK, SendersTyped
<1>9. [Promise!Next]_(Promise!vars)
  <2>1. CASE support' = support
    BY <1>1, <2>1 DEF Promise!vars
  <2>2. CASE support' = support \cup drain.todo
    <3>1. \A k \in drain.todo : OnDevice(outbox[k]) \/ k \in userRow \cup support \cup wiped
      BY <1>0, <1>2, KeySomewhere
    <3>2. Promise!HandOver(drain.todo)
      BY <1>1, <1>2, <2>2, <3>1 DEF Promise!HandOver
    <3> QED BY <1>2, <3>2 DEF Promise!Next
  <2> QED BY <1>1, <2>1, <2>2
<1> QED BY <1>3, <1>5, <1>6, <1>7, <1>8, <1>9 DEF IInv, WireOK

----------------------------------------------------------------------------
(* Theorems *)

\* The invariant is inductive, and every step is one of the promise, or none.
LEMMA Step ==
  ASSUME IInv, [Next]_vars
  PROVE IInv' /\ [Promise!Next]_(Promise!vars)
<1>1. CASE UNCHANGED vars
  <2>1. WireOK' /\ ClientOK' /\ EntriesOK' /\ RowsOK' /\ TypeOK'
    BY <1>1
    DEF IInv, vars, client, server, TypeOK, EntriesOK, RequestsOK, SendersOK, RowsOK,
        OneTurn, Listens, Used, At, Answer, WireOK, ClientOK, SendersTyped, RequestType
  <2> QED BY <1>1, <2>1 DEF IInv, WireOK, ClientOK, vars, client, server, Promise!vars
<1>2. CASE Next
  BY <1>2, LiveSteps, DrainSteps, SignOutStep, EscalateSteps, RoutineSteps, OrphanSteps, PersistSteps
  DEF Next
<1> QED BY <1>1, <1>2

\* The inductive invariant holds in every reachable state.
THEOREM Invariance == Spec => []IInv
<1>1. IInv /\ [Next]_vars => IInv'
  BY Step
<1> QED BY InitInv, <1>1, PTL DEF Spec

\* Every variable keeps its type.
THEOREM TypeCorrect == Spec => []TypeOK
<1>1. IInv => TypeOK
  BY DEF IInv
<1> QED BY Invariance, <1>1, PTL

\* However the two senders, kills, broken connections, dying workers and
\* sign-outs interleave, an entry leaves the device only once its message is
\* safe, or by a sign-out.
THEOREM MessagesKept == Spec => []NothingLost
<1>1. IInv => NothingLost
  BY DEF IInv, EntriesOK, NothingLost
<1> QED BY Invariance, <1>1, PTL

\* However often an entry is replayed, it is answered and counted once.
THEOREM TurnsCounted == Spec => []OneTurn
<1>1. IInv => OneTurn
  BY DEF IInv, RowsOK
<1> QED BY Invariance, <1>1, PTL

\* The outbox, the route, the support endpoint and the sign-out together
\* implement what DurableSend promises.
THEOREM KeepsPromise == Spec => ImplementsDurableSend
<1>1. Init => Promise!Init
  <2> SUFFICES ASSUME Init PROVE Promise!Init
    OBVIOUS
  <2>1. {k \in Keys : OnDevice(outbox[k])} = {} /\ {k \in Keys : replies[k] > 0} = {}
    BY DEF Init, OnDevice, Unused
  <2> QED BY <2>1 DEF Init, Promise!Init
<1>2. IInv /\ [Next]_vars => [Promise!Next]_(Promise!vars)
  BY Step
<1> QED BY Invariance, <1>1, <1>2, PTL DEF Spec, ImplementsDurableSend, Promise!Spec

==============================================================================
