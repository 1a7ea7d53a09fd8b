# Verification of EduAgent (MentoMate) in TLA+

EduAgent is a tutoring service: a Hono API on Cloudflare Workers (`src/apps/api`) over Neon
Postgres and Workers KV, with Inngest background functions, an Expo mobile app
(`src/apps/mobile`) and shared packages (`src/packages`). This directory models where several of
these act on the same rows - metering and billing, the LLM router's circuits, the sending of a
message, the erasure of accounts, the filing of sessions - checks the models with TLC, and proves
their safety properties for all sizes with TLAPS.

The places cited are relative to `src/apps/api/src` unless they start with `src/`; `V2` is
`services/billing/billing-v2`.

## 1. Inventory

| Component | State | Operations | What is hard | What makes it correct |
|---|---|---|---|---|
| Quota metering `services/billing/metering.ts` | `quota_pools`, `profile_quota_usage`, `top_up_credits`, `usage_events` | decrementQuota, incrementQuota, safeRefundQuota | races for the last unit, contended credits, refunds after a reset or a plan change | counters, credits and ledger equal the charges outstanding; no overdraw; every call answers |
| Quota resets `inngest/functions/quota-reset.ts`, `V2/trial-v2.ts` | the same rows | daily and monthly reset | between a charge and its refund | a late refund takes at most itself off the new cycle |
| Plan changes `V2/quota-reconcile-v2.ts`, `V2/tier-v2.ts`, `V2/revenuecat-v2.ts` | limits, quota rows, owners of credits | reconcile, re-anchor, re-attribute | requests in flight across a change of quota model | the same conservation laws |
| Metering gate `middleware/metering.ts`, `services/kv.ts` | KV snapshot per account, request context | check, charge, refund, write-back, invalidate, webhook refresh | cache-aside races, streams that outlive their response | no refusal from a stale cache; a failure is refunded or reported |
| RevenueCat webhook `routes/revenuecat-webhook.ts`, `V2/revenuecat-*.ts`, `V2/top-up-v2.ts` | the `subscription` row with its event watermark, credits | one handler per event type | at-least-once, unordered and concurrent deliveries; reads outside the transaction | events are applied once, none is lost, the newest decides |
| Trial lifecycle `inngest/functions/trial-expiry.ts`, `V2/trial-v2.ts` | the `subscription` row | select and expire, extended trial, end of soft landing | cron against store events | only trials that are over expire, and they do |
| Provisioning and family `V2/subscription-core-v2.ts`, `V2/family-v2.ts` | subscription, members | create, join, remove | removal during a request | a member removed while his request runs stays charged for at most that request |
| Stripe webhooks and checkout `V2/stripe-webhook-handler-v2.ts`, `V2/subscription-core-v2.ts` | the `subscription` row | update, cancel, payment, checkout | unlocked transition checks, checkout against webhook | as for RevenueCat |
| LLM router `services/llm/router.ts` | a circuit per provider and capability, per isolate | call, stream, fallback | late results, aborts, empty and abandoned streams sharing one probe slot | a probe slot is given back; no request alone shuts a provider out |
| Idempotency `middleware/idempotency.ts`, `services/idempotency-marker.ts` | KV markers | preflight, mark | the marker is written after the commit; KV is read late | a message is stored and answered once |
| Message outbox `src/apps/mobile/src/lib/message-outbox.ts`, `src/apps/mobile/src/providers/OutboxDrainProvider.tsx` | entries on the device | enqueue, attempt, confirm, fail, replay, escalate, wipe at a sign-out | two senders, a killed app, connections that break in the middle of an answer | nothing the learner sent is lost, unless he signs out |
| Account deletion `routes/account.ts`, `inngest/functions/account-deletion.ts`, `services/identity-v2/deletion-v2.ts` | stamps on the organization, logins, Clerk users, fence rows | schedule, cancel, dispatch, durable erasure | at-least-once steps; cancellations and sign-ups in between | a cancelled deletion erases nothing, a started one completes outside the database too |
| Consent withdrawal `routes/consent.ts`, `inngest/functions/consent-revocation.ts`, `archive-cleanup.ts`, `person-erasure-steps.ts` | grants, archived children, notices | withdraw, restore, archive, erase, notify | a run that wakes under another withdrawal than its own | only a withdrawal that stands archives or erases; the guardian is told the truth |
| Library filing `services/session/session-crud.ts`, `routes/filing.ts`, `inngest/functions/auto-file-session.ts`, `freeform-filing.ts`, `filing-timed-out-observe.ts` | filing status, topic and date of a session; auto-filed topics | close, add, restore, retry, keep out, file, observe, backfill | several runs and routes after one session, some of whose writes have no guard; cleanup of topics against filing | filed once; kept out stays out; no session hangs pending |
| Retention `services/apply-retention-update.ts`, `src/packages/retention` | retention cards | guarded update, SM-2 | concurrent graders | no update is lost; intervals stay bounded |
| Streaks and XP `services/streaks.ts`, `services/xp.ts` | streak row, XP ledger | record activity | days skipped, several sessions a day | grace days are counted once |
| Sessions `services/session/*` | session rows and events | exchange, close, stale cleanup | concurrent turns, cron against close | closed once |
| Challenge rounds `services/challenge-round` | JSON state in the session | claim a question, finalise | concurrent turns | a question is counted once |

The other parts (notification and report crons, mentor notices, curriculum and books, quiz,
dictation and vocabulary, dashboards, app screens, shared packages, tooling and docs) are listed
in `PROJECT.json` with the reason they are not modelled: content generation, read-only
projections, declarations and user interface.

**Interaction.** A request to an LLM route passes the *gate*, which consults KV, calls
*metering*, runs the handler, and calls metering again to refund a failure. The *webhooks*
change the subscription, reconcile quota rows in the same transaction, then refresh KV. The
*crons* write the same rows. Inside the handler the *router* picks a provider by its circuit, and
the *stream route* stores the turn behind the idempotency preflight, for a client that may send
the message again. Closing a session starts its *filing*; deleting an account or withdrawing a
consent starts a *durable function*, and both of these erase through the same fence against Clerk.
The modules cut the system along these calls:

    SubscriptionEvents   the subscription row   (webhook, trial cron)
            | plan changes
    QuotaMetering        quota rows, credits, ledger   (metering, cron, reconciliation)
            | one atomic charge or refund
    MeteringGate         KV snapshot, request, stream  (middleware)
            | the handler
    LlmCircuit           circuits of the providers
    OutboxReplay         device, wire, stored turn   -- implements --> DurableSend

    AccountDeletion, ConsentRevocation   -- extend --> ClerkFence   logins and Clerk's users
                                         -- implement --> DurableErasure
    LibraryFiling        sessions, topics, durable runs

What is one step in one module is taken apart in the next: `ChangePlan` of QuotaMetering stands
for the transaction `Apply` or `Activate` of SubscriptionEvents ends with; `Charge` and
`GiveBack` of MeteringGate stand for complete decrementQuota and incrementQuota calls; a refusal of
the gate or of the router is one of the ways `NoReply` and `Preflight` of OutboxReplay fail.

## 2. The modules

### QuotaMetering

One subscription. `row` maps a bucket - the shared pool, or a person - to its quota row, so that
shared-pool and per-profile metering use the same actions; `Target` picks the bucket from the
tier the request read, which may be out of date by the time it is used.

A request is one decrementQuota call and perhaps one refund. Postgres runs at READ COMMITTED, so
each *statement* that can be overtaken is an action:

| Action | Code |
|---|---|
| `Begin` | reads of the subscription and the effective tier |
| `ChargeMonthly` | guarded UPDATE of the pool or profile row, with the usage event |
| `MissMonthly`, `Verdict` / `Classify` | UPDATE without a row; the re-read that tells why |
| `Provision` | lazy creation of a person's row, once |
| `SelectCredit`, `LoseCredit`, `TakeCredit` | the loop over top-up credits; TakeCredit contains the daily UPDATE and the rollback when that matches nothing |
| `Reread` | the last read after the credits ran out |
| `Serve` | the handler answered; nothing will be refunded |
| `Refund`, `RefundAgain`, `RefundLost` | incrementQuota, which nothing stops from running a second time for the same charge; safeRefundQuota when it fails for good |
| `QuotaReset` | the cron, on any set of rows that are due |
| `ChangePlan`, `BillingIssue`, `Lapse` | webhook transactions: new limits, rows dropped or provisioned, cycles re-anchored, credits re-attributed |
| `RemoveProfile` | a member leaves the family |
| `Purchase`, `Expire` | top-ups |

`cycle`, `day`, `strayMonth` and `strayDay` are history variables: they count restarts of the
counters, and the units a counter gave back that were not its own to give: for a charge of an
earlier cycle or day, or for one given back already. The code distinguishes neither from a proper
refund. `refunds` in the record of a charge is history too: a charge is outstanding until its first
refund, and a session route (`Rethrowing`) refunds it again through the middleware (`RefundAgain`,
section 5). The conservation laws therefore say how far each second refund takes counter, credit and
ledger from the charges: by one unit, and no further.

### MeteringGate

The middleware in its order: `ReadCache` (believes a snapshot only when it does not report
exhaustion), `ReadPool`, `Backfill`, `ReadTopUps`, `Charge`, `Aggregate`, the handler's outcomes
by kind of route, `RefundFailure` with `Invalidate` before it, `Settle` (the write-back), and
`StreamEnds` for the body that goes on after the 200. KV reads and writes may fail and entries
may expire (`Evict`); `RefreshRead` and `RefreshWrite` are the webhook's refresh. The kinds of
routes are those that treat the charge differently: an ordinary route (which the middleware
refunds), messages, streams and assessments (which refund themselves) and quota-neutral ones.
`AggregateFails` is the balance read after a top-up charge (`middleware/metering.ts:906`) when it
throws: it stands outside the try whose catch refunds, so the request ends in an error, charged.
`Stranded` names that state, and the two properties about failures exempt it; what is lost that way
is a top-up credit, never a question of the month.
Per-profile plans do not use the cache, so a shared pool is modelled.

### SubscriptionEvents

The subscription row with its watermark (`lastId`, `lastTs`). A worker takes a delivery through
`Receive` (idempotency read in the route), `ReadRow` for the handlers that read the row before
their transaction, and one of the transactions `Apply`, `Activate`, `ExtendTrial`, `Grant`.
`Fail` is a crash or an error before the commit: no answer, so the store delivers again.
`SelectTrial` and `ExpireTrial` are two steps of the trial cron. `event` is what the store sent;
every history of a run is fixed at the start and delivered in any order.

Assumed: every event carries `event_timestamp_ms` and a known product. Two events may carry the
same millisecond; `AppliedOnce` speaks of an event that no other stored event is tied with (see
section 5 for the tied ones), and such a tie leaves `NewestDecides` without a newest.

### LlmCircuit

All requests of an isolate share a circuit per provider and capability. A request is admitted by
`canAttempt`, and what becomes of its attempt is recorded on the circuit *as it is by then*. What
JavaScript runs between two awaits is one action: `Start` and `Fall` (admission to the primary and
the fallback), `Succeed`, `Empty`, `PrimaryFails`, `FallbackFails`, `ClientError` and
`CaughtClientError` (the catch around a fallback that streamed inside the try), `Abort`, `Speak`,
`Abandon`. The clock is reduced to what the code asks of it: `cooled` holds the circuits whose last
failure is CIRCUIT_RECOVERY_MS old. `probers` and `blamed` are history.

### OutboxReplay and DurableSend

One learner and one session. The device: `outbox`, the live stream with its reconnect prompt, the
drain with its escalation to support; `Kill` ends the app between any two of its writes, and
`SignOut` (`src/apps/mobile/src/lib/sign-out-cleanup.ts:301`, by the learner or after a 401) wipes
the outbox under whatever is sending. The server: `Preflight`, `Persist` (the transaction with ON
CONFLICT DO NOTHING on client_id), `NoReply` (the orphan row of a message without an answer),
`Mark`; `Crash` ends the worker between any two of them. A sender may believe an answer, or see a
broken connection whatever the answer was. `DurableSend` says in five actions what all of it is for:
an entry leaves the device only once its message is stored or with support, or with everything else
at a sign-out (`Discard`), is stored at most once, and its reply and the count of exchanges go with
that row. OutboxReplay implements it under the mapping device = entries pending or failed, stored =
user rows, answered = entries with a reply, discarded = entries a sign-out removed (`wiped`).

### ClerkFence, AccountDeletion, ConsentRevocation and DurableErasure

`ClerkFence` is what two erasures share: logins, Clerk's users, tokens that outlive their user, and
the pending_clerk_erasure rows that keep an erased user from signing up again until its Clerk
user is gone. Its helpers (`Reserved`, `Released`, `Rebound`) and the steps of others (`SignUp`,
`TokenExpires`, `FenceElapses`) are used by both modules that extend it.

A run of a durable function is a record of the step it is at, the receipts of earlier steps it
still needs and the failed tries. Every step may fail (`StepFails`), or take effect and lose its
receipt (`Returns`), and is then executed again with what earlier steps returned; when the retries
are exhausted `Report` stands for onFailure. `AccountDeletion` has the owner's requests with
their dispatch and its rollback, cancellation, members who join, and the steps of
`scheduledDeletion` in order. `promised` is what the owner was told and has not taken back; the
rollback of a dispatch that failed does not change it, and `rolledBack` remembers that it cancelled
the schedule under it. `ConsentRevocation` has withdrawal, restoration, dispatch, and the
steps of consent-revocation and archive-cleanup with the notice; a withdrawal's number stands for
the timestamp that its run carries and compares. `stranded` remembers that the receipt of an archive
was lost, after which no run schedules the cleanup.

`DurableErasure` says what both promise, without runs, steps or receipts: an account is hidden or
erased only while its erasure is ordered (`Hide`, which puts the erasure off, and `Erase`), an open
promise and a user who is owed an erasure at Clerk have somebody at work on them or a report
(`Answerable`, a part of every step), and Clerk forgets the users that went with the account, one by
one, none of whom has a login by then (`Follow`). Both modules implement it
(`ImplementsDurableErasure`):

| DurableErasure | AccountDeletion | ConsentRevocation |
|---|---|---|
| `there`, `ordered` | the organization; its stamp says scheduled | the child; the current grant is withdrawn |
| `promised` | the owner was told, the organization is there and no rollback cancelled the schedule | the guardian was told, the child is there and its cleanup was not lost with the receipt of its archive |
| `hidden` | never | archived |
| `owed` | users of the erased snapshot | users of the erased child |
| `working` | a run is not over | a run is not over, or the route has an event to send |
| `excused` | a failure was reported | a failure was reported |

### LibraryFiling

Freeform sessions of one profile and the topics they are filed under. `Close` sends the first
filing request, `Ask` (add, restore, retry) another; `Deliver` starts a run of auto-file-session
unless Inngest takes the request for a duplicate. A run goes through `Claim`, `Resolve` (the
LLM's choice is a choice of topic), `Finalize`, `Notify`, or the cleanup of the topic it
created for nothing (`CheckRaced`, `DeleteRaced`), and fails into `MarkFailed`. Reading and
writing are apart where the code has no transaction around them: `KeepOut`/`Detach` and the check
and deletion of `deleteTopicIfSafe`, whose foreign key takes sessions filed in between with it.
POST /filing files a session on the spot (`Post`, then `PostFiles` or `PostFails`), again and again
if the app asks for several topics, by an UPDATE that asks for no status (markSessionFiled).
POST /filing/request-retry (`RequestRetry`) claims a failed session for freeform-filing-retry, which
`Refile` and `RefileEnds` take as one step each: it files a topic and announces it, or ends, and
writes the session in neither case.
The observers: `Completed` (filing-completed-observe) and the steps `TimeOut`, `Reread`, `ClaimRetry`,
`MarkRecovered` and `GiveUp` of filing-timed-out-observe, which the wait of session-completed or the
operator's `Backfill` starts. Two history variables: `overridden` holds the sessions that a write
without a status guard has changed (markSessionFiled, and the observer's mark-pending and
mark-recovered) since they were last asked for or kept out; `claimant` says who has to settle a
pending session - a run or observer, the retry, or nobody because the claim was lost.

## 3. Runs

All passing runs explore their complete state space. Bounds are CONSTANTS: `MaxResets`,
`MaxChanges`, `MaxDeliveries`, `MaxCalls`, and the sets of requests, events and workers.

| Run | States | Shows |
|---|---|---|
| `quota_safety` | 1.2M | `TypeOK`; `MonthConserved`, `DayConserved`, `CreditConserved`, `LedgerConserved`: what is counted is what is outstanding, but for refunds that came late or twice; `NoOverdraw`: but for the same, no charge takes the charges of a cycle or a day past the limit |
| `quota_answered` | 258k | `AlwaysAnswered`: decrementQuota returns, whatever its loops run into |
| `gate_safety` | 2.5M | `NoStaleRefusal`: a 402 only if the pool was exhausted while the request ran; `NotChargedForFailure`: refunded, reported, or the balance read threw |
| `gate_refund` | 69k | `RefundFollows`: a failure of a stream or of a message is eventually refunded or reported, the throwing balance read apart |
| `events_safety` | 363k | `AppliedOnce`, `NothingLost`, `NewestDecides`, `GrantedOnce`, `TopUpHonoured` |
| `circuit_safety` | 134k | `ProbeHeld`: a taken probe slot belongs to a probe under way; `NoSingleRequestTrips`; `ProbeSettles`: it becomes free again |
| `outbox_safety` | 1.4M | `NothingLost`: nothing but a sign-out loses a message; `OneTurn`; `ImplementsDurableSend`, the refinement |
| `deletion_safety` | 1.05M | `CancelWins`: only a scheduled account is erased; `ErasureFollows`: what the database erased is erased at Clerk and the store too; `ScheduleKept`: a promised deletion stands and has a run, or a rollback cancelled it; `NoGhostLogin`; `ImplementsDurableErasure`, the refinement |
| `revocation_safety` | 1.3M | `RestoreWins`; `WithdrawalKept`: in the end the child is erased, unless its archive lost its receipt; `NoticeTrue`; `ImplementsDurableErasure`, the refinement |
| `filing_safety` | 621k | `KeepOutStands`, `FilingSticks`: one topic until the learner keeps the session out or files it anew; `PendingEnds` |
| `deletion_grace` | - | violates `GraceHonoured` |
| `filing_initial` | - | violates `OnlyOwnDuplicates` |

**Bounds.** In `quota_safety` a family plan starts with three requests of two persons on limits of
one and two, and may change to plus or free, so the last unit is contended by two and by three; one
top-up of one or two credits is contended by two requests; one cron run and one change reach a
refund after a reset, a change of quota model in both directions during a request, and the removal
of a member. One request of three, the one of the second person, is of a session route and may be
refunded twice (`Rethrowing`). The owner's requests are symmetric. The limits keep the order of
`TIER_CONFIGS`: free has a daily stop, plus meters persons and sells top-ups, family is a pool. More
changes, cycles and requests are covered for every safety property by the theorems of section 4,
which bound nothing. `events_safety` delivers every *pair* of thirteen payloads, a purchase or
top-up with an end of the same millisecond, and eighteen three-event lifecycles, to four starting
accounts (free, trial that is over, family, cancelled plus): an ordering error needs two events and
a duplicate of one of them. `gate_safety` has two requests on limits of one and two, with and
without a top-up, one cron run and one plan change: a stale snapshot needs one writer it did not
see. `gate_refund` has a stream and a message, whose failures are refunded by the streamed body and
by the route, with the cron beside them. An ordinary route fails as every kind may (`HandlerFails`),
and a quota-neutral request charges nothing: the runs leave both kinds out, the theorems have them.

`circuit_safety` has three calls and a stream on two providers with a threshold of three: enough to
trip a circuit with two requests, probe it with the third and have the late answer of a fourth.
`outbox_safety` has two messages and two requests at a time, three attempts, and one kill or one
sign-out (`MaxStops`; the theorems allow any number of both): live stream and drain can hold the
same entry, and an entry can be given up and handed to support.
`deletion_safety` has an owner and a teenager, two requests, two runs, one retry and a grace period
of two days in a time of four, so that a schedule, its cancellation and a second schedule fit before
the first run wakes. `revocation_safety` has two withdrawals and two runs with a grace period and a
retention of a day; a third run takes longer than a run should. `filing_safety` has one session, two
topics, two runs, one retry, one fault, one request to file the session and two other calls of the
learner (to keep it out, file it on the spot, have it retried), so that it is filed on the spot
twice, or kept out in the middle of it. That one session cannot meet another at a topic is its
limit; with two sessions the state space is beyond a run of this size. Runs and topics of the filing
are used in order, as a liveness property allows no symmetry; the owner's requests and runs of the
other modules are symmetric where no liveness property is checked.

**Deadlock** is not checked: a finite set of requests or deliveries ends in a state where nothing
is left to do.

**Fairness.** `quota_answered` assumes that a request that has begun goes on (`WF` of
`Decrement(r)`): a Worker keeps executing a request it accepted and Postgres answers statements.
It assumes nothing of the cron, the webhooks or other requests. `gate_refund` assumes the same of
the middleware and of the body of a stream, which the runtime drains until it ends or breaks.
`circuit_safety` assumes that an attempt ends, since every adapter puts an AbortSignal.timeout on
its request; a consumer who stops reading a stream is not assumed to come back, so `ProbeSettles`
exempts abandoned streams, whose probe slot the finally block indeed does not give back.
`filing_safety` assumes that Inngest delivers events, executes the next step of a run it began and
ends a wait; the learner, the operator, the routes and the closing of a session are not assumed to
happen.
The trial cron, webhooks and evictions are never assumed to happen. The liveness of the outbox, of
erasure and of consent is stated as safety of the states in which every run is over
(`ErasureFollows`, `ScheduleKept`, `WithdrawalKept`) and needs no fairness.

Each property of a passing run has a mutant in its module - a bug that could be written in that
code, such as a refund without GREATEST, a gate that trusts one of the two exhaustion checks, an
activation without the timestamp predicate, a claim without its status guard, a cleanup off by a day
- which the run detects.

## 4. Proofs

Every safety property of the passing runs is a theorem. Each of the eight specifications has a
module of proofs beside it, for every value of the constants its ASSUMEs allow; TLC evaluates these
assumptions in each run. Bounds such as `MaxResets`, `Retries` or `MaxDeliveries` are any natural
number in the theorems.

A proof has one lemma per action, or one per group of actions that touch the same state, and a frame
lemma for the actions that leave the state of a property alone. An action property is derived from
the invariant and one lemma on the step; an invariant that needs more than its own statement has the
strengthening named in the text below.

**`QuotaMetering_proofs`**, for any sets of requests, persons, credits and tiers, any limits and
any bounds:

| Theorem | States |
|---|---|
| `Invariance` | the inductive invariant `IInv` holds |
| `TypeCorrect` | `Spec => []TypeOK` |
| `CountersConserved`, `DaysConserved` | `Spec => []MonthConserved`, `Spec => []DayConserved` |
| `CreditsConserved` | `Spec => []CreditConserved` |
| `LedgerAgrees` | `Spec => []LedgerConserved` |
| `NothingOverdrawn` | `Spec => NoOverdraw`, a property of steps |

The assumptions are the named ASSUMEs of QuotaMetering, which TLC evaluates in each run: the
owner is a person, the pool and "nobody" are not, the set of requests is finite (cardinalities are
taken), the limits are natural numbers or absent, the free tier is metered per person.

`IInv` is `TypeOK`, the four conservation laws, `ChargeOK` and `RowsOK`. The laws relate a counter
to the cardinality of a set of requests, and are not inductive alone: to know that a charge adds
exactly one element, and a refund removes exactly one, the proof needs to know which `pc` values
go with a charge, in which bucket, cycle and credit it was made, and that it was not made in a
cycle that has not begun (`ChargeOK`: else a reset would bring it back); and that an absent row
counts nothing (`RowsOK`: else dropping a row and provisioning it again would lose charges). The
proof has one lemma per action. Steps that change one charge go through lemmas on the cardinality
of a set with one element more or less; steps that touch no charge go through a frame lemma. The
arithmetic of a refund - GREATEST and the correction for refunds that came late or twice - is a
lemma of its own.

`NothingOverdrawn` joins two facts about the step that makes a charge. Only two steps do
(`ChargingSteps`): the monthly UPDATE and the top-up decrement, and each leaves the counter it
raised within its limit, because the guard is in the statement that counts (`ChargeFits`). The
conservation laws after the step then bound the charges by that counter and the stray refunds.

**`LlmCircuit_proofs`**, for any calls and streams, any providers and any choice of primary and
fallback, and any threshold above two (the code's is 3):

| Theorem | States |
|---|---|
| `TypeCorrect` | `Spec => [](TypeOK /\ Places)` |
| `TwoReporters` | `Spec => []NoSingleRequestTrips` |
| `ProbeSlots` | `Spec => []ProbeHeld` |

A circuit does not say who its failures are from, so `NoSingleRequestTrips` is not inductive. `Own`
bounds what a request has reported on its primary and on its fallback by where it is - a stream
whose fallback fails inside the try reports on the fallback, then on the primary - and `CountInv`
says that the count of a circuit only one request reported on is within that bound, which never
exceeds two. A step keeps, resets or adds one to each circuit, and adds only where `Own` grows
(`CountStep`). `ProbeHeld` is inductive given that a request whose attempt runs at its fallback has
one (`Places`): a step frees a probe slot, takes it and is under way there, or leaves it alone
(`ProbeStep`).

**`OutboxReplay_proofs`**, for any finite sets of entries and requests, any number of kills and any
limits:

| Theorem | States |
|---|---|
| `Invariance` | the inductive invariant `IInv` holds |
| `TypeCorrect` | `Spec => []TypeOK` |
| `MessagesKept` | `Spec => []NothingLost` |
| `TurnsCounted` | `Spec => []OneTurn` |
| `KeepsPromise` | `Spec => ImplementsDurableSend`, the refinement |

An entry is removed on an answer, so the invariant follows the answer back: a request tells of a
reply only with the row of its entry stored (`RequestsOK`), through the marker as well (`RowsOK`);
a sender listens to the request it made for the entry it holds, and the two senders never to the
same (`SendersOK`: else the hangup of one would let the slot be used for another entry under the
other); the drain deletes only what support has; an id is fresh until its entry is used
(`EntriesOK`). Steps of the senders go through `SenderStep`, which knows the outbox only as adding,
changing or removing an entry and maps that to `Submit`, a stutter or `Forget`; a sign-out maps to
`Discard`; steps of the route
go through `RequestMoves`, and map to `Store`, `HandOver` or a stutter.

**`MeteringGate_proofs`**, for any requests of any kinds, any plans and any stock of top-ups:

| Theorem | States |
|---|---|
| `TypeCorrect` | `Spec => []TypeOK` |
| `RefusalsJust` | `Spec => []NoStaleRefusal` |
| `FailuresPaidBack` | `Spec => []NotChargedForFailure` |

Neither property is inductive. The snapshot may lie in both directions, but one that is trusted
leaves room for the question (`TrustedRoom`), so counters without room came from the pool, and were
the pool's while the request ran; `Excused` carries that from the read to the refusal. A plan
without a limit above zero would be an exception, since the snapshot's exhaustion is only asked for
when it has one; `TIER_CONFIGS` has none (`LimitAssumption`), and `Quotas` says that none gets in.
A failure is refunded by the handler, the middleware or the body of the stream;
`Owed` says for every place in the middleware what is still owed, and that a body that runs has not
failed yet; `Stranded` is the one place where a failure is left charged, and only a top-up charge
reaches it.

**`SubscriptionEvents_proofs`**, for any history the store may have sent, ties included, any row to
start with, any workers and any number of deliveries:

| Theorem | States |
|---|---|
| `TypeCorrect` | `Spec => []TypeOK` |
| `OnceOnly` | `Spec => []AppliedOnce` |
| `EventsKept` | `Spec => []NothingLost` |
| `LastWord` | `Spec => []NewestDecides` |
| `CreditedOnce`, `CreditsHonoured` | `Spec => []GrantedOnce`, `Spec => []TopUpHonoured` |

The row remembers one event. The invariant says that this event decides the row (`Remembered`), that
the row's timestamp has passed every applied event that can be told apart (`Passed`), and that no
worker holds a row newer than the present one (`Held`: activation and the other handlers that read
before their transaction). Each transaction then either leaves the row to the event it remembers
or replaces it by an event that is not older (`RowAdvances`), and the newest answered event can
only be the remembered one.

**`AccountDeletion_proofs`** and **`ConsentRevocation_proofs`**, for any users, requests and runs, any
grace and retention periods, any number of retries, schedules and withdrawals:

| Theorem | States |
|---|---|
| `InvHolds` (both) | the inductive invariant `TInv` holds |
| `TypeCorrect` (both) | `Spec => []TypeOK` |
| `NoGhosts` (both) | `Spec => []NoGhostLogin` |
| `LoginsSpared` (both) | `Spec => NoLiveLoginErased`, a property of steps |
| `CancellationWins` | `Spec => CancelWins`, a property of steps |
| `PromiseKept` | `Spec => []ScheduleKept` |
| `ErasureCarried` | `Spec => []ErasureFollows` |
| `RestorationWins` | `Spec => RestoreWins`, a property of steps |
| `NoticesTrue` | `Spec => []NoticeTrue` |
| `WithdrawalsKept` | `Spec => []WithdrawalKept` |
| `KeepsPromise` (both) | `Spec => ImplementsDurableErasure`, the refinement |

`TInv` has a common half about the fence: a user whom a run calls Clerk about has no login and is
fenced until the calls are over (`Calls`), and the fence outlasts the tokens of an erased user
(`Outlasts`); both modules prove it over lemmas on the helpers of `ClerkFence`. The other half is
about time: a run that is awake slept until its day (`Awake`), a run of the withdrawal that stands
sleeps through *its* grace period (`Due`), and nothing comes after the erasure without one before
(`Follows`).

What must happen in the end is stated of the states in which all runs are over, and proved with an
invariant that names who will do it. `Promise`: while a promise is open, some run is alive that will
keep it, or a failure is reported - or the schedule was rolled back, or the archive forgotten, the
two exemptions the properties name. It needs the assumption that the day within which Inngest drops
a duplicate is no longer than the grace period (`Window <= Grace`: 24 hours and 7 days), for
otherwise the event could be dropped in favour of a run that has ended. `Carried`: once the
transaction has erased the database, some run carries the snapshot that the transaction compared,
and at each of its steps says what is left of it - through a lost receipt, whose step finds its own
effect, and through a second run that finds the account gone and leaves the rest to the first.
`Notices` does the same for a notice that is prepared. Steps of other runs and of users keep these
by frame lemmas (`CarriesStays`, `EffectStays`, `NoticeStays`), the run's own steps move them along
(`CarriesOn`), and a step that has to be executed again leaves them (`CarriesAgain`).

`KeepsPromise` maps every step to a step of `DurableErasure` or a stutter (`KindOfStep`). It needs
one invariant more, `Scoped`: no run knows of a user outside the account, so that Clerk is never
called about a stranger. `Answerable` after the step is `Promise` and `Carried` in other words
(`Answered`). `NoLiveLoginErased`, which no run checks any more, follows from `Follow` as well; it is
proved on its own by `LoginsSpared`.

**`LibraryFiling_proofs`**, for any sessions, topics and runs:

| Theorem | States |
|---|---|
| `TypeCorrect` | `Spec => []TypeOK` |
| `KeptOutStaysOut` | `Spec => []KeepOutStands` |
| `FiledOnce` | `Spec => FilingSticks`, a property of steps |

A session under a topic that is not `overridden` is `recovered` (`Settled`), a status from which
neither a claim nor late news nor a repeated step moves it; a write that asks for no status makes it
overridden, until it is asked for or kept out again. The proof reduces every action to what it does
to one session (`Outcomes`): nothing, deletion with its topic, detachment, a claim or late news, a
request of the learner, a filing by a run, the observer's mark on a session that is nobody's or on
one it overrides, a filing on the spot; the properties are shown of these nine. The type of the
request counter is not inductive either: a request is counted against the learner's or against an
observer that can send one more (`Issues`, by cardinality).

**Model-checked only**: `AlwaysAnswered`, `RefundFollows`, `ProbeSettles` and `PendingEnds`, the four
liveness properties under fairness, which are out of the prover's reach. The two violated properties
of section 5 are, of course, not theorems.

## 5. Where code and documentation disagree

Two runs reproduce a disagreement each; `PROJECT.json` quotes the text.

- `deletion_grace`: the run of a schedule that was cancelled sleeps on. When the account is scheduled
  anew before it wakes, it finds a scheduled account and erases it, days before the new grace
  period ends: the event carries no time of its schedule, which the revocation's does
  (`inngest/functions/account-deletion.ts:151`).
- `filing_initial`: auto-file-session is idempotent by `event.data.dispatchId` alone, and the first
  request of every session has the dispatchId `initial`, so one session a day is filed on closing
  (`inngest/functions/auto-file-session.ts:236`).

Seen while modelling, and allowed for in the properties above instead of having runs of their own.
Where the code breaks what a property is about, the model does what the code does, and the property
names the one exception: `strayMonth`, `strayDay`, `TwiceDrawn` and `TwiceOf` (second refunds),
`Stranded` (a balance read), `wiped` (sign-out), `rolledBack` (a schedule), `stranded` (a receipt),
`overridden` and `claimant` (filing). The run then shows that nothing else breaks it.

Metering and the gate:
- A message whose exchange throws is refunded by the route and again by the middleware
  (`routes/sessions.ts:633`, `middleware/metering.ts:982`; a stream that fails to start likewise,
  `services/session/session-stream-response.ts:566`), although the flag in `middleware/metering.ts:116`
  "Prevents double-refund if both paths fire in the same request". Each second refund leaves the
  counter, or the top-up batch and the ledger, one unit off the charges (`RefundAgain`), so that one
  question more than the limit can be asked.
- The balance read after a top-up charge stands outside the try whose catch refunds
  (`middleware/metering.ts:906`): when it throws, the failed request stays charged and nobody is told
  (`AggregateFails`).
- A change of quota model re-attributes a credit that a running request drew; its refund then
  matches no row, is logged as a profile mismatch, and the failed request stays charged.
- After a top-up charge the cached count is lower than the pool's, by the credits left.
- A snapshot deleted before the refund can be replaced by one read before it.
- The re-read after a missed UPDATE is not the same snapshot as the UPDATE
  (`services/billing/metering.ts:328`); no checked property depends on it.
- A stream that fails after its 200 refunds without invalidating the cache
  (`services/session/session-stream-response.ts:334`).

Subscriptions:
- A cancellation that read the row before a billing issue committed restores `active`.
- A cancelled trial turns `active`, and nothing expires it afterwards.
- The exemption for late billing issues in the route is undone by the check under the lock.
- Of two events with the same millisecond the first is applied again when it is redelivered after
  the second, as only the last id is kept (`V2/revenuecat-v2.ts:75`); the histories contain such
  ties, and `AppliedOnce` exempts the tied events.
- A renewal that read the tier before an older product change committed leaves that change's tier
  (`V2/revenuecat-webhook-handler-v2.ts:209`); `NewestDecides` leaves the tier after a renewal open.
- The trial cron re-checks the status but not the end date when it expires a row it selected
  earlier (`V2/trial-v2.ts:160`), so a trial bought in between is expired at once.
- The soft landing writes its 450 questions to the pool row (`V2/trial-v2.ts:172`), which a free
  account, metered per person, never consults.
- A top-up is attributed by a tier read before its transaction (`V2/top-up-v2.ts:60`).

The router:
- "HALF_OPEN — allow only one probe at a time" (`services/llm/router.ts:1634`): a late success or
  failure of an older call clears probeInFlight under the probe and lets a second one in.
- "cannot switch providers after data flows" (`services/llm/router.ts:2116`): a fallback that
  streams inside the try, behind an empty primary, and breaks off is started again by the catch.
- An abandoned stream that was the probe keeps the slot for good (`services/llm/router.ts:2312`).

The outbox and the stream route:
- A message whose first try left an orphan row never gets its reply stored: `Persist` finds the row
  and stores nothing (`services/session/session-exchange.ts:4020`).
- The prompt to reconnect outlives an entry that the drain confirmed; answering it sends the
  message again under a new key.
- The drain has no branch for an error frame, so such an entry stays pending beyond its attempts;
  elsewhere an attempt is counted twice, by beginAttempt and recordFailure.
- A batch for support that is too large, or holds one invalid entry, is refused every time.
- Live stream and drain sending one entry at a time are both charged.
- A sign-out wipes the outbox (`src/apps/mobile/src/lib/sign-out-cleanup.ts:301`), pending and failed
  entries included, also when a 401 triggers it (`src/apps/mobile/src/lib/sse.ts:481`): what was
  neither stored nor with support is lost (`SignOut`).

Account deletion and consent:
- The rollback of a failed dispatch cancels a schedule that another request was told of
  (`routes/account.ts:232`); the owner believes in a deletion that will not happen (`rolledBack`).
- A run that ends with `already_deleted` records `account_deletion.completed`.
- When the receipt of the archive step is lost, the retry takes the archived child for restored and
  schedules no cleanup, so the child stays archived for ever, at Clerk too
  (`services/identity-v2/consent-v2.ts:2249`; `stranded`), where
  `inngest/functions/consent-revocation.ts:334` says archived for 30 days, then deleted.
- A second run of one withdrawal may publish the notice of deletion before the first has erased the
  Clerk user; `NoticeTrue` speaks of the database.
- A dispatch that safeSend swallowed is answered as scheduled; it is captured, which is what
  `reported` stands for.

Filing:
- The observer of late filings marks a session pending whatever its status is by then
  (`inngest/functions/filing-timed-out-observe.ts:156`), and recovered likewise. One kept out since
  is filed by the retry it sends; `KeepOutStands` and `FilingSticks` exempt the sessions it overrode
  (`overridden`). And because the
  claim wants a session that is not pending, the retry of a session nobody had claimed is always
  refused: the backfill, which `session-stale-cleanup.ts:71` calls the recovery of exactly that
  gap, ends in `filing_failed`.
- POST /filing marks the session filed whatever its status is (`services/session/session-book.ts:98`): a
  session that was kept out while the request ran is filed all the same, and the app, which posts once
  per topic (`src/apps/mobile/src/hooks/use-filing.ts:404`), moves one session from topic to topic.
- auto-file-session, which the observer sends a freeform session to, does not send
  `app/filing.retry_completed`, which the observer waits for; only freeform-filing-retry does.
- freeform-filing-retry writes no status and has no onFailure
  (`inngest/functions/freeform-filing.ts:86`, `:251`): a session that POST /filing/request-retry
  claimed stays pending when it ends without filing, and one whose filing it announces is marked
  recovered and dated, but has no topic.
- A session filed under a topic between the check and the deletion of `deleteTopicIfSafe`
  (`services/curriculum.ts:2489`) is deleted with it (`onDelete: 'cascade'`).
- A keep-out detaches the topic it finds when it writes but cleans up the one it read before
  (`services/session/session-crud.ts:1447`).
- A claim whose receipt is lost finds, executed again, the session claimed, and ends the run: the
  session stays pending unless an observer comes by (`PendingEnds` exempts it: `claimant` is `lost`).
- onFailure of one run fails the claim of another.

Elsewhere: the distance of two days is taken without its sign
(`src/packages/database/src/streaks-rules.ts`), so an activity recorded late for an earlier day
counts as the day after and moves the last day of activity back.

## 6. Not modelled

Within the modelled parts:
- Billing: SUBSCRIBER_ALIAS (merging accounts), sandbox verification and unknown products; the end
  of the soft landing; dates (a row is due or not by choice); database failures elsewhere in the
  middleware, which come before the charge; a first refund that is lost and a second that is made,
  which leaves what one refund leaves; lock order and deadlock inside Postgres.
- Router: which model is selected, the kill switch, the delays and tries inside an attempt.
- Outbox: profile switches, the mentor opener with its fixed key, images, the missing session;
  refusals by a closed or full session and by safety filters are plain failures.
- Account deletion: exports, records kept by law. The erasing transaction is one step, although it
  reads the memberships (`services/identity-v2/deletion-v2.ts:564`) before it deletes (`:732`) and
  `family-join-v2.ts:388` may move a member in between. Days stand for 24 hours, so an event dropped
  as a duplicate within the day may have been sent in the day before. Consent: requesting and
  granting, an adult's own consent, withdrawal by token, a child who owns its organization, pushes;
  Inngest's concurrency limit (the model allows more).
- Filing: homework; POST /filing without a session; the choice of a topic and the write of the
  session by POST /filing, and the steps of freeform-filing-retry, are taken together; the retry
  cap, which the learner's requests reset; failing steps of the observers; two observers of a
  session, which Inngest's idempotency excludes within a day.

The wording of answers, logging and metrics are left out throughout. The rest of the system is as
listed in section 1 and `PROJECT.json`; most of it generates content, renders or reads.

## 7. Plan

1. Proofs: an abstract specification of what the gate promises, implemented by MeteringGate as the
   erasures implement DurableErasure.
2. `SubscriptionEvents`: the Stripe handlers on the same row (unlocked transition checks, checkout
   claim).
3. `LibraryFiling` with two sessions at one topic, once its runs are cheaper.
4. `RetentionCards` and `Sm2`: guarded updates; the algorithm against a reference over small inputs.
5. Challenge rounds: claims of a question by concurrent turns, and their compensation.
