---------------------------- MODULE OutboxReplay ----------------------------
(* Sending a chat message durably: the outbox on the device                   *)
(* (mobile/src/lib/message-outbox.ts), the two senders that empty it - the    *)
(* live stream (use-session-streaming.ts) and the drain                       *)
(* (OutboxDrainProvider.tsx) - and the stream route behind the idempotency    *)
(* preflight, for one learner and one session.                                *)
(*                                                                            *)
(* The device may be killed between any two of its writes, a sign-out may     *)
(* wipe the outbox (sign-out-cleanup.ts), a connection may break before,      *)
(* during or after the answer, and a worker may die between any two of its    *)
(* writes: its database transactions and its KV write are the steps. An       *)
(* entry's id is its Idempotency-Key and the client_id of the stored row, and *)
(* stands for its message.                                                    *)
EXTENDS Integers, FiniteSets, FiniteSetsExt

CONSTANTS
  Keys, NoKey,   \* entry ids
  Requests, NoRequest,
  MaxAttempts,   \* MAX_OUTBOX_ATTEMPTS
  MaxSpill,      \* entries the spillover endpoint accepts in one post
  MaxStops       \* bound: how often the app is killed or signed out of

ASSUME NoneAssumption ==
  /\ NoKey \notin Keys /\ NoRequest \notin Requests
ASSUME FiniteAssumption == IsFiniteSet(Keys) /\ IsFiniteSet(Requests)
ASSUME BoundAssumption ==
  MaxAttempts \in Nat \ {0} /\ MaxSpill \in Nat /\ MaxStops \in Nat

VARIABLES
  outbox,    \* key -> entry in AsyncStorage
  live,      \* the stream the learner watches
  prompt,    \* key of lastRetryPayloadRef while its reconnect prompt is shown
  drain,     \* runDrain
  wiped,     \* history: keys of entries a sign-out removed
  stops,
  request,   \* request -> a POST of the stream route, at the server
  userRow,   \* keys with a user_message row
  replies,   \* key -> ai_response rows
  exchanges, \* exchangeCount
  marker,    \* keys marked persisted in KV
  support    \* keys in support_messages

client == <<outbox, live, prompt, drain, wiped, stops>>
server == <<userRow, replies, exchanges, marker, support>>
vars == <<client, request, server>>

----------------------------------------------------------------------------
(* The outbox *)

Statuses == {"unused", "pending", "failed", "gone"}
Entry == [status : Statuses, attempts : 0..MaxAttempts]
Unused == [status |-> "unused", attempts |-> 0]

OnDevice(e) == e.status \in {"pending", "failed"}
WithStatus(s) == {k \in Keys : outbox[k].status = s}

\* Counted as far as comparisons with MAX_OUTBOX_ATTEMPTS tell apart.
Bumped(n) == IF n < MaxAttempts THEN n + 1 ELSE n

\* enqueue, with a fresh randomUUID
Enqueued == [status |-> "pending", attempts |-> 0]
\* beginAttempt; like the next two it finds nothing when the entry is gone.
Begun(e) == IF OnDevice(e) THEN [e EXCEPT !.attempts = Bumped(@)] ELSE e
\* Mutant: an entry that has used up its attempts is dropped at once.
FailureDropped(e) ==
  IF OnDevice(e)
  THEN [e EXCEPT !.attempts = Bumped(@),
                 !.status = IF Bumped(e.attempts) = MaxAttempts THEN "gone" ELSE @]
  ELSE e
\* Mutant: the status is written as the spillover endpoint's rows call it.
FailureMisnamed(e) ==
  IF OnDevice(e)
  THEN [e EXCEPT !.attempts = Bumped(@),
                 !.status = IF Bumped(e.attempts) = MaxAttempts THEN "outbox" ELSE @]
  ELSE e
\* recordFailure, for reasons that are not permanent
Failure(e) ==
  IF OnDevice(e)
  THEN [e EXCEPT !.attempts = Bumped(@),
                 !.status = IF Bumped(e.attempts) = MaxAttempts THEN "failed" ELSE @]
  ELSE e
\* markConfirmed and deletePermanentlyFailed
Removed(e) == IF OnDevice(e) THEN [e EXCEPT !.status = "gone", !.attempts = 0] ELSE e

----------------------------------------------------------------------------
(* The wire *)

\* "reply" is a finished stream with a reply, or the replay of one; "failed" a
\* fallback, an error status or a broken connection, which the senders treat
\* alike, and "error" an error frame.
Answers == {"none", "reply", "error", "failed"}
Places == {"unsent", "sent", "running", "marking", "over"}
NotSent == [key |-> NoKey, at |-> "unsent", answer |-> "none"]

At(q, place) == request[q].at = place
Answer(q) == request[q].answer
\* Fresh ids are interchangeable.
NextKey == CHOOSE k \in Keys : outbox[k] = Unused
SomeKey == WithStatus("unused") # {}
NextRequest == CHOOSE q \in Requests : At(q, "unsent")
SomeRequest == \E q \in Requests : At(q, "unsent")

Sent(k) == [key |-> k, at |-> "sent", answer |-> "none"]
\* A request that is over and has no listener is forgotten, and its slot free.
Hangup(q) == IF At(q, "over") THEN NotSent ELSE request[q]
Listened(q) == q \in {live.request, drain.request}

Idle == [at |-> "idle", key |-> NoKey, request |-> NoRequest, again |-> FALSE]
Begin(k) == [Idle EXCEPT !.at = "begin", !.key = k]
Waiting(k, again) == [at |-> "waiting", key |-> k, request |-> NextRequest, again |-> again]

Resting == [at |-> "idle", todo |-> {}, key |-> NoKey, request |-> NoRequest]

Init ==
  /\ outbox = [k \in Keys |-> Unused]
  /\ live = Idle /\ prompt = NoKey /\ drain = Resting /\ wiped = {} /\ stops = 0
  /\ request = [q \in Requests |-> NotSent]
  /\ userRow = {} /\ replies = [k \in Keys |-> 0] /\ exchanges = 0
  /\ marker = {} /\ support = {}

----------------------------------------------------------------------------
(* The live stream: one at a time (activeStreamRef, continueChainTailRef) *)

\* continueWithMessage up to the entry on the device.
Compose ==
  /\ live.at = "idle" /\ SomeKey
  /\ outbox' = [outbox EXCEPT ![NextKey] = Enqueued]
  /\ live' = Begin(NextKey)
  /\ prompt' = NoKey
  /\ UNCHANGED <<drain, wiped, stops, request, server>>

\* handleReconnect: the entry if getOutboxEntry still finds it, else another.
Reconnect ==
  /\ live.at = "idle" /\ prompt # NoKey
  /\ \/ /\ OnDevice(outbox[prompt])
        /\ live' = Begin(prompt)
        /\ UNCHANGED outbox
     \/ /\ ~OnDevice(outbox[prompt]) /\ SomeKey
        /\ outbox' = [outbox EXCEPT ![NextKey] = Enqueued]
        /\ live' = Begin(NextKey)
  /\ prompt' = NoKey
  /\ UNCHANGED <<drain, wiped, stops, request, server>>

\* beginAttempt and the POST
LiveSend ==
  /\ live.at = "begin" /\ SomeRequest
  /\ request' = [request EXCEPT ![NextRequest] = Sent(live.key)]
  /\ outbox' = [outbox EXCEPT ![live.key] = Begun(@)]
  /\ live' = Waiting(live.key, FALSE)
  /\ UNCHANGED <<prompt, drain, wiped, stops, server>>

\* The device is offline.
LiveUnreachable ==
  /\ live.at = "begin"
  /\ outbox' = [outbox EXCEPT ![live.key] = Failure(Begun(@))]
  /\ live' = Idle
  /\ prompt' = live.key
  /\ UNCHANGED <<drain, wiped, stops, request, server>>

LiveEnds(entry) ==
  /\ outbox' = [outbox EXCEPT ![live.key] = entry]
  /\ request' = [request EXCEPT ![live.request] = Hangup(live.request)]
  /\ live' = Idle
  /\ UNCHANGED <<drain, wiped, stops, server>>

\* onReplay, or onDone with a reply
LiveConfirmed ==
  /\ live.at = "waiting" /\ Answer(live.request) = "reply"
  /\ LiveEnds(Removed(outbox[live.key]))
  /\ prompt' = NoKey

\* A fallback or an error; or the connection broke or timed out, whatever the
\* answer is.
LiveFails ==
  /\ live.at = "waiting"
  /\ LiveEnds(Failure(outbox[live.key]))
  /\ prompt' = live.key

\* use-stream-message: one retry if no event of the stream was seen.
LiveRetries ==
  /\ live.at = "waiting" /\ ~live.again /\ SomeRequest
  /\ request' = [request EXCEPT ![live.request] = Hangup(live.request),
                                ![NextRequest] = Sent(live.key)]
  /\ live' = Waiting(live.key, TRUE)
  /\ UNCHANGED <<outbox, prompt, drain, wiped, stops, server>>

----------------------------------------------------------------------------
(* The drain: on mount, and when the app becomes active *)

DrainStart ==
  /\ drain.at = "idle"
  /\ drain' = [Resting EXCEPT !.at = "next", !.todo = WithStatus("pending")]
  /\ UNCHANGED <<outbox, live, prompt, wiped, stops, request, server>>

DrainSend(k) ==
  /\ drain.at = "next" /\ k \in drain.todo /\ SomeRequest
  /\ request' = [request EXCEPT ![NextRequest] = Sent(k)]
  /\ outbox' = [outbox EXCEPT ![k] = Begun(@)]
  /\ drain' = [at |-> "waiting", todo |-> drain.todo \ {k}, key |-> k, request |-> NextRequest]
  /\ UNCHANGED <<live, prompt, wiped, stops, server>>

DrainGoesOn(todo) == drain' = [Resting EXCEPT !.at = "next", !.todo = todo]

DrainUnreachable(k) ==
  /\ drain.at = "next" /\ k \in drain.todo
  /\ outbox' = [outbox EXCEPT ![k] = Failure(Begun(@))]
  /\ DrainGoesOn(drain.todo \ {k})
  /\ UNCHANGED <<live, prompt, wiped, stops, request, server>>

DrainEnds(entry) ==
  /\ outbox' = [outbox EXCEPT ![drain.key] = entry]
  /\ request' = [request EXCEPT ![drain.request] = Hangup(drain.request)]
  /\ DrainGoesOn(drain.todo)
  /\ UNCHANGED <<live, prompt, wiped, stops, server>>

DrainConfirmed ==
  /\ drain.at = "waiting" /\ Answer(drain.request) = "reply"
  /\ DrainEnds(Removed(outbox[drain.key]))

\* The loop over the events has no branch for an error frame.
DrainIgnoresError ==
  /\ drain.at = "waiting" /\ Answer(drain.request) = "error"
  /\ DrainEnds(outbox[drain.key])

DrainFails ==
  /\ drain.at = "waiting"
  /\ DrainEnds(Failure(outbox[drain.key]))

\* escalate, once the handler has seen every entry: listPermanentlyFailed
DrainReplayed ==
  /\ drain.at = "next" /\ drain.todo = {}
  /\ drain' = IF WithStatus("failed") = {} THEN Resting
              ELSE [Resting EXCEPT !.at = "posting", !.todo = WithStatus("failed")]
  /\ UNCHANGED <<outbox, live, prompt, wiped, stops, request, server>>

\* Mutant: the entries are deleted before the answer of the post is known.
EscalateUnrecorded ==
  /\ drain.at = "posting"
  /\ drain' = [drain EXCEPT !.at = "deleting"]
  /\ UNCHANGED <<outbox, live, prompt, wiped, stops, request, server>>
\* POST /support/outbox-spillover
Escalate ==
  /\ drain.at = "posting" /\ Cardinality(drain.todo) <= MaxSpill
  /\ support' = support \cup drain.todo
  /\ drain' = [drain EXCEPT !.at = "deleting"]
  /\ UNCHANGED <<outbox, live, prompt, wiped, stops, request, userRow, replies, exchanges, marker>>

\* Not reached, rate limited or not valid; or recorded and the answer lost.
EscalateFails ==
  /\ drain.at = "posting"
  /\ \/ UNCHANGED support
     \/ Cardinality(drain.todo) <= MaxSpill /\ support' = support \cup drain.todo
  /\ drain' = Resting
  /\ UNCHANGED <<outbox, live, prompt, wiped, stops, request, userRow, replies, exchanges, marker>>

DrainDeletes(k) ==
  /\ drain.at = "deleting" /\ k \in drain.todo
  /\ outbox' = [outbox EXCEPT ![k] = Removed(@)]
  /\ drain' = IF drain.todo = {k} THEN Resting ELSE [drain EXCEPT !.todo = @ \ {k}]
  /\ UNCHANGED <<live, prompt, wiped, stops, request, server>>

\* The app is killed; what AsyncStorage holds stays.
Kill ==
  /\ stops < MaxStops
  /\ <<live, drain>> # <<Idle, Resting>>
  /\ stops' = stops + 1
  /\ live' = Idle /\ prompt' = NoKey /\ drain' = Resting
  /\ request' = [q \in Requests |-> Hangup(q)]
  /\ UNCHANGED <<outbox, wiped, server>>

\* signOutWithCleanup, by the learner or after a 401: the outbox is removed
\* whatever is in it. The senders go on with the entries they hold, and find
\* them gone. With no profile loaded, AsyncStorage failing, or a write under way
\* that puts the list back, nothing is removed.
SignOut ==
  /\ stops < MaxStops
  /\ \E k \in Keys : OnDevice(outbox[k])
  /\ outbox' = [k \in Keys |-> Removed(outbox[k])]
  /\ wiped' = wiped \cup {k \in Keys : OnDevice(outbox[k])}
  /\ stops' = stops + 1
  /\ UNCHANGED <<live, prompt, drain, request, server>>

----------------------------------------------------------------------------
(* The stream route *)

Moves(q, place, answer) ==
  request' = [request EXCEPT ![q] =
    IF place = "over" /\ ~Listened(q) THEN NotSent
    ELSE [@ EXCEPT !.at = place, !.answer = answer]]

\* idempotencyPreflight. KV is eventually consistent and the marker has a TTL,
\* so a marker may not be seen. A KV failure is a 503; metering, consent, and a
\* session that is closed or full refuse as well.
Preflight(q) ==
  /\ At(q, "sent")
  /\ \/ request[q].key \in marker /\ Moves(q, "over", "reply")
     \/ Moves(q, "running", "none")
     \/ Moves(q, "over", "failed")
  /\ UNCHANGED <<client, server>>

\* persistUserMessageOnly, which may fail and then is only reported
OrphanKept(k) ==
  \/ userRow' = userRow \cup {k}
  \/ UNCHANGED userRow

\* No reply came of it: an empty or unparseable one leaves an orphan row and a
\* fallback frame; a rejected raw response, and a second try without a stream
\* (processMessage) that failed as well, an orphan row and an error - a frame
\* once the stream has begun, else a status; a rate limit, a safety filter or
\* a session that was closed meanwhile, an error alone.
NoReply(q) ==
  /\ At(q, "running")
  /\ \E answer \in {"error", "failed"} : Moves(q, "over", answer)
  /\ OrphanKept(request[q].key)
  /\ UNCHANGED <<client, replies, exchanges, marker, support>>

\* Mutant: the exchange is counted before the insert is known to be new.
PersistRecounted(q) ==
  /\ At(q, "running")
  /\ userRow' = userRow \cup {request[q].key}
  /\ replies' = IF request[q].key \in userRow THEN replies
                ELSE [replies EXCEPT ![request[q].key] = @ + 1]
  /\ exchanges' = exchanges + 1
  /\ Moves(q, "marking", "none")
  /\ UNCHANGED <<client, marker, support>>
\* The stream, or processMessage after it failed, brought a reply. The
\* transaction of persistExchangeResult: ON CONFLICT DO NOTHING on the
\* client_id, and then neither count nor reply; else all three.
Persist(q) ==
  /\ At(q, "running")
  /\ LET k == request[q].key
     IN \/ /\ k \in userRow
           /\ UNCHANGED <<userRow, replies, exchanges>>
        \/ /\ k \notin userRow
           /\ userRow' = userRow \cup {k}
           /\ replies' = [replies EXCEPT ![k] = @ + 1]
           /\ exchanges' = exchanges + 1
  /\ Moves(q, "marking", "none")
  /\ UNCHANGED <<client, marker, support>>

\* markPersisted, whose failure is swallowed
Mark(q) ==
  /\ At(q, "marking")
  /\ marker' \in {marker, marker \cup {request[q].key}}
  /\ Moves(q, "over", "reply")
  /\ UNCHANGED <<client, userRow, replies, exchanges, support>>

\* The worker dies, or the request never arrived.
Crash(q) ==
  /\ request[q].at \notin {"unsent", "over"}
  /\ Moves(q, "over", "failed")
  /\ UNCHANGED <<client, server>>

Next ==
  \/ Compose \/ Reconnect \/ LiveSend \/ LiveUnreachable \/ LiveConfirmed \/ LiveFails \/ LiveRetries
  \/ DrainStart \/ DrainConfirmed \/ DrainIgnoresError \/ DrainFails \/ DrainReplayed
  \/ \E k \in Keys : DrainSend(k) \/ DrainUnreachable(k) \/ DrainDeletes(k)
  \/ Escalate \/ EscalateFails
  \/ Kill \/ SignOut
  \/ \E q \in Requests :
       Preflight(q) \/ NoReply(q) \/ Persist(q) \/ Mark(q) \/ Crash(q)

Spec == Init /\ [][Next]_vars

----------------------------------------------------------------------------
(* Properties *)

TypeOK ==
  /\ outbox \in [Keys -> Entry]
  /\ live \in [at : {"idle", "begin", "waiting"}, key : Keys \cup {NoKey},
               request : Requests \cup {NoRequest}, again : BOOLEAN]
  /\ prompt \in Keys \cup {NoKey}
  /\ drain \in [at : {"idle", "next", "waiting", "posting", "deleting"}, todo : SUBSET Keys,
                key : Keys \cup {NoKey}, request : Requests \cup {NoRequest}]
  /\ wiped \subseteq Keys /\ stops \in 0..MaxStops
  /\ request \in [Requests -> [key : Keys \cup {NoKey}, at : Places, answer : Answers]]
  /\ userRow \subseteq Keys /\ marker \subseteq Keys /\ support \subseteq Keys
  /\ replies \in [Keys -> Nat] /\ exchanges \in Nat

\* What the learner sent is on the device, in the session or with support,
\* unless a sign-out took it: however the two senders, kills, broken
\* connections, dying workers and sign-outs interleave, nothing else removes an
\* entry before its message is safe elsewhere.
NothingLost ==
  \A k \in Keys : outbox[k].status = "gone" => k \in userRow \cup support \cup wiped

\* An entry replayed by both senders at a time, or again after a crash, has one
\* reply at most, and only replies of stored messages are counted.
OneTurn ==
  /\ \A k \in Keys : replies[k] <= 1 /\ (replies[k] = 1 => k \in userRow)
  /\ exchanges = Cardinality({k \in Keys : replies[k] = 1})

\* The outbox, the route, the support endpoint and the sign-out together keep
\* the promise of DurableSend.
Promise == INSTANCE DurableSend WITH
  device <- {k \in Keys : OnDevice(outbox[k])},
  stored <- userRow,
  answered <- {k \in Keys : replies[k] > 0},
  discarded <- wiped
ImplementsDurableSend == Promise!Spec

=============================================================================
