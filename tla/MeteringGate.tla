---------------------------- MODULE MeteringGate ----------------------------
(* The metering middleware of the LLM routes (middleware/metering.ts) over    *)
(* one shared pool and its snapshot in Workers KV (services/kv.ts): the fast  *)
(* check on cached counters, the charge, the handler, the refund of a failed  *)
(* handler and the cache write-back, with the writers that race them - other  *)
(* requests, the streamed body that outlives its response, the quota-reset    *)
(* cron and the webhooks' cache refresh.                                      *)
(*                                                                            *)
(* decrementQuota and safeRefundQuota are one step each here; QuotaMetering   *)
(* has their statements. Per-profile plans never use the cache (the           *)
(* middleware drops it), so only a shared pool is modelled. Workers KV is a   *)
(* register whose calls may fail and whose entry may expire.                  *)
EXTENDS Integers

CONSTANTS
  Requests,
  KindOf,       \* request -> the kind of its route
  Limits,       \* monthly limits the plan may have
  DailyLimit,   \* of the plan, or NoLimit
  InitialTopUps, \* top-up credits that may have been bought before
  NoEntry,      \* KV holds nothing for the account
  MaxResets,    \* bound: runs of the quota-reset cron
  MaxChanges    \* bound: plan changes by a webhook

NoLimit == -1

\* An ordinary LLM route; POST /sessions/:id/messages; POST /sessions/:id/stream;
\* POST /assessments/:id/answer; the quota-neutral retry-feedback route.
Kinds == {"route", "message", "stream", "assessment", "neutral"}

ASSUME KindAssumption == KindOf \in [Requests -> Kinds]
\* Every plan of TIER_CONFIGS has a monthly quota.
ASSUME LimitAssumption ==
  /\ Limits \subseteq Nat \ {0} /\ DailyLimit \in Nat \cup {NoLimit}
  /\ InitialTopUps \subseteq Nat /\ MaxResets \in Nat /\ MaxChanges \in Nat

VARIABLES
  pool,      \* the quota_pools row
  topUp,     \* SUM(remaining) of the unexpired top_up_credits
  kv,        \* CachedSubscriptionStatus, or NoEntry
  pc,        \* request -> where the middleware is
  seen,      \* request -> the counters it works with, from KV or the pool
  credits,   \* request -> topUpCreditsRemaining
  result,    \* request -> DecrementResult
  body,      \* request -> the streamed body behind a 200 response
  refunded,  \* request -> c.get('quotaRefunded')
  webhook,   \* the plan-change webhook: "idle", "changed" or "read"
  snapshot,  \* the row the webhook's cache refresh read
  net,       \* history: request -> charges minus refunds
  failed,    \* history: request -> the learner got no LLM answer
  escalated, \* history: request -> a refund was reported as failed
  full,      \* history: request -> the pool was exhausted while it ran
  resets, changes

store == <<pool, topUp>>
local == <<seen, credits, result, body, refunded>>
history == <<net, failed, escalated>>
env == <<webhook, snapshot, resets, changes>>
vars == <<pool, topUp, kv, pc, seen, credits, result, body, refunded, webhook,
          snapshot, net, failed, escalated, full, resets, changes>>

----------------------------------------------------------------------------
Counters == [limit : Nat, used : Int, dailyLimit : Nat \cup {NoLimit}, today : Int]

Floor(n) == IF n > 0 THEN n ELSE 0
DailyFull(x) == x.dailyLimit # NoLimit /\ x.today >= x.dailyLimit
MonthFull(x) == x.used >= x.limit
Room(x) == ~DailyFull(x) /\ ~MonthFull(x)

\* Mutant: the daily cron is remembered, the monthly reset is not (BUG-115).
TrustedOnMonth(x) == x # NoEntry /\ ~DailyFull(x)
\* A snapshot that reports exhaustion is never believed.
Trusted(x) == x # NoEntry /\ ~DailyFull(x) /\ ~(x.limit > 0 /\ MonthFull(x))

\* checkQuota over the counters a request works with.
Allowed(x, extra) == ~DailyFull(x) /\ Floor(x.limit - x.used) + extra > 0

At(r, label) == pc[r] = label
Goto(r, label) == pc' = [pc EXCEPT ![r] = label]

----------------------------------------------------------------------------
(* Before the charge *)

\* safeReadKV: a failed read is a miss.
ReadCache(r) ==
  /\ At(r, "idle")
  /\ \/ /\ Trusted(kv)
        /\ seen' = [seen EXCEPT ![r] = kv]
        /\ Goto(r, "topups")
     \/ UNCHANGED seen /\ Goto(r, "pool")
  /\ UNCHANGED <<store, kv, credits, result, body, refunded, history, env>>

ReadPool(r) ==
  /\ At(r, "pool")
  /\ seen' = [seen EXCEPT ![r] = pool]
  /\ Goto(r, "backfill")
  /\ UNCHANGED <<store, kv, credits, result, body, refunded, history, env>>

\* safeWriteKV: a failed write is logged.
Backfill(r) ==
  /\ At(r, "backfill")
  /\ kv' = seen[r] \/ UNCHANGED kv
  /\ Goto(r, "topups")
  /\ UNCHANGED <<store, local, history, env>>

\* getTopUpCreditsRemaining, then the quota-neutral branch or checkQuota.
ReadTopUps(r) ==
  /\ At(r, "topups")
  /\ credits' = [credits EXCEPT ![r] = topUp]
  /\ Goto(r, IF KindOf[r] = "neutral" THEN "done"
             ELSE IF Allowed(seen[r], topUp) THEN "charge" ELSE "refused")
  /\ UNCHANGED <<store, kv, seen, result, body, refunded, history, env>>

----------------------------------------------------------------------------
(* The charge *)

NoResult == [source |-> "none", monthly |-> 0, daily |-> NoLimit, topUp |-> 0]
Results == [source : {"none", "monthly", "top_up"}, monthly : Int,
            daily : Int, topUp : Nat]

RemainingDaily(x) == IF x.dailyLimit = NoLimit THEN NoLimit ELSE x.dailyLimit - x.today

ChargePool(r) ==
  /\ Room(pool)
  /\ pool' = [pool EXCEPT !.used = @ + 1, !.today = @ + 1]
  /\ result' = [result EXCEPT ![r] =
       [source |-> "monthly", monthly |-> pool'.limit - pool'.used,
        daily |-> RemainingDaily(pool'), topUp |-> 0]]
  /\ Goto(r, "handler")
  /\ UNCHANGED topUp

ChargeTopUp(r) ==
  /\ MonthFull(pool) /\ ~DailyFull(pool) /\ topUp > 0
  /\ topUp' = topUp - 1
  /\ pool' = [pool EXCEPT !.today = @ + 1]
  /\ result' = [result EXCEPT ![r] =
       [source |-> "top_up", monthly |-> 0, daily |-> RemainingDaily(pool'), topUp |-> 0]]
  /\ Goto(r, "aggregate")

Charge(r) ==
  /\ At(r, "charge")
  /\ ChargePool(r) \/ ChargeTopUp(r)
  /\ net' = [net EXCEPT ![r] = @ + 1]
  /\ UNCHANGED <<kv, seen, credits, body, refunded, failed, escalated, env>>

Refuse(r) ==
  /\ At(r, "charge")
  /\ ~Room(pool) /\ (DailyFull(pool) \/ topUp = 0)
  /\ Goto(r, "refused")
  /\ UNCHANGED <<store, kv, local, history, env>>

\* topUpRemainingAfterDecrement: all batches, read after the charge.
Aggregate(r) ==
  /\ At(r, "aggregate")
  /\ result' = [result EXCEPT ![r].topUp = topUp]
  /\ Goto(r, "handler")
  /\ UNCHANGED <<store, kv, seen, credits, body, refunded, history, env>>

\* The read throws: it comes after the charge and before the try block whose
\* catch refunds, so the request ends in an error, charged, and nobody is told.
AggregateFails(r) ==
  /\ At(r, "aggregate")
  /\ failed' = [failed EXCEPT ![r] = TRUE]
  /\ Goto(r, "stranded")
  /\ UNCHANGED <<store, kv, local, net, escalated, env>>

----------------------------------------------------------------------------
(* The handler and the refunds *)

\* Mutant: the refund is a plain subtraction.
GiveBackUnfloored(r) ==
  /\ net' = [net EXCEPT ![r] = @ - 1]
  /\ pool' = [pool EXCEPT !.today = @ - 1,
                          !.used = IF result[r].source = "monthly" THEN @ - 1 ELSE @]
  /\ topUp' = IF result[r].source = "top_up" THEN topUp + 1 ELSE topUp
  /\ UNCHANGED escalated
\* safeRefundQuota: to the source of the charge, or reported when it fails.
GiveBack(r) ==
  /\ net' = [net EXCEPT ![r] = @ - 1]
  /\ pool' = [pool EXCEPT !.today = Floor(@ - 1),
                          !.used = IF result[r].source = "monthly" THEN Floor(@ - 1) ELSE @]
  /\ topUp' = IF result[r].source = "top_up" THEN topUp + 1 ELSE topUp
  /\ UNCHANGED escalated
GiveBackFails(r) ==
  /\ escalated' = [escalated EXCEPT ![r] = TRUE]
  /\ UNCHANGED <<pool, topUp, net>>

HandlerAnswers(r) ==
  /\ At(r, "handler")
  /\ Goto(r, "settle")
  /\ body' = [body EXCEPT ![r] = IF KindOf[r] = "stream" THEN "running" ELSE @]
  /\ UNCHANGED <<store, kv, seen, credits, result, refunded, history, env>>

\* A status of 400 or more, or a throw, that the handler did not refund.
HandlerFails(r) ==
  /\ At(r, "handler")
  /\ failed' = [failed EXCEPT ![r] = TRUE]
  /\ Goto(r, "invalidate")
  /\ UNCHANGED <<store, kv, local, net, escalated, env>>

\* The session routes refund an LLM failure themselves, then throw; quotaRefunded
\* stays unset. The app-help branch of an assessment refunds and answers 200,
\* with quotaRefunded set when the refund went through.
HandlerRefunds(r) ==
  /\ At(r, "handler")
  /\ KindOf[r] \in {"message", "stream", "assessment"}
  /\ failed' = [failed EXCEPT ![r] = TRUE]
  /\ \/ /\ GiveBack(r)
        /\ refunded' = [refunded EXCEPT ![r] = KindOf[r] = "assessment"]
     \/ GiveBackFails(r) /\ UNCHANGED refunded
  /\ Goto(r, IF KindOf[r] = "assessment" THEN "settle" ELSE "invalidate")
  /\ UNCHANGED <<kv, seen, credits, result, body, env>>

\* Mutant: the body of a failed stream ends without refundQuota.
StreamEndsUnrefunded(r) ==
  /\ body[r] = "running"
  /\ body' = [body EXCEPT ![r] = "ended"]
  /\ failed' \in {failed, [failed EXCEPT ![r] = TRUE]}
  /\ UNCHANGED <<store, kv, pc, seen, credits, result, refunded, net, escalated, env>>

\* The body of a streamed answer: it ends well, or refunds and writes an error
\* frame, whenever that is; the middleware does not wait for it.
StreamEnds(r) ==
  /\ body[r] = "running"
  /\ body' = [body EXCEPT ![r] = "ended"]
  /\ \/ UNCHANGED <<store, history>>
     \/ /\ failed' = [failed EXCEPT ![r] = TRUE]
        /\ GiveBack(r) \/ GiveBackFails(r)
  /\ UNCHANGED <<kv, pc, seen, credits, result, refunded, env>>

----------------------------------------------------------------------------
(* After the handler *)

\* BUG-503: safeDeleteKV comes before the refund.
Invalidate(r) ==
  /\ At(r, "invalidate")
  /\ kv' = NoEntry \/ UNCHANGED kv
  /\ Goto(r, "refund")
  /\ UNCHANGED <<store, local, history, env>>

\* Mutant: the status branch takes quotaRefunded for granted.
RefundSkipped(r) ==
  /\ At(r, "refund")
  /\ Goto(r, "done")
  /\ UNCHANGED <<store, kv, local, history, env>>
RefundFailure(r) ==
  /\ At(r, "refund")
  /\ GiveBack(r) \/ GiveBackFails(r)
  /\ refunded' = [refunded EXCEPT ![r] = TRUE]
  /\ Goto(r, "done")
  /\ UNCHANGED <<kv, seen, credits, result, body, failed, env>>

\* The counters the next request finds, derived from the charge's result.
Settled(r) ==
  [seen[r] EXCEPT
     !.used = seen[r].limit - result[r].monthly - result[r].topUp,
     !.today = IF seen[r].dailyLimit # NoLimit /\ result[r].daily # NoLimit
               THEN seen[r].dailyLimit - result[r].daily ELSE @ + 1]

Settle(r) ==
  /\ At(r, "settle")
  /\ \/ kv' = IF refunded[r] THEN NoEntry ELSE Settled(r)
     \/ UNCHANGED kv
  /\ Goto(r, "done")
  /\ UNCHANGED <<store, local, history, env>>

Middleware(r) ==
  \/ ReadCache(r) \/ ReadPool(r) \/ Backfill(r) \/ ReadTopUps(r)
  \/ Charge(r) \/ Refuse(r) \/ Aggregate(r) \/ AggregateFails(r)
  \/ HandlerAnswers(r) \/ HandlerFails(r) \/ HandlerRefunds(r)
  \/ Invalidate(r) \/ RefundFailure(r) \/ Settle(r)

----------------------------------------------------------------------------
(* The other writers *)

\* The cron has no KV binding: the snapshot keeps the old counters.
QuotaReset(monthly) ==
  /\ resets < MaxResets
  /\ resets' = resets + 1
  /\ pool' = [pool EXCEPT !.today = 0, !.used = IF monthly THEN 0 ELSE @]
  /\ UNCHANGED <<topUp, kv, pc, local, history, webhook, snapshot, changes>>

\* A webhook commits a plan change and then refreshes the cache
\* (safeRefreshKvCacheV2): a read and, later, a write.
PlanChange(limit) ==
  /\ webhook = "idle" /\ changes < MaxChanges
  /\ changes' = changes + 1
  /\ pool' = [pool EXCEPT !.limit = limit]
  /\ webhook' = "changed"
  /\ UNCHANGED <<topUp, kv, pc, local, history, snapshot, resets>>
RefreshRead ==
  /\ webhook = "changed"
  /\ snapshot' = pool
  /\ webhook' = "read"
  /\ UNCHANGED <<store, kv, pc, local, history, resets, changes>>
RefreshWrite ==
  /\ webhook = "read"
  /\ kv' = snapshot \/ UNCHANGED kv
  /\ webhook' = "idle"
  /\ UNCHANGED <<store, pc, local, history, snapshot, resets, changes>>

\* The 24 hours of the entry are over.
Evict ==
  /\ kv # NoEntry
  /\ kv' = NoEntry
  /\ UNCHANGED <<store, pc, local, history, env>>

Init ==
  /\ \E limit \in Limits :
       pool = [limit |-> limit, used |-> 0, dailyLimit |-> DailyLimit, today |-> 0]
  /\ topUp \in InitialTopUps
  /\ kv = NoEntry
  /\ pc = [r \in Requests |-> "idle"]
  /\ seen = [r \in Requests |-> pool]
  /\ credits = [r \in Requests |-> 0]
  /\ result = [r \in Requests |-> NoResult]
  /\ body = [r \in Requests |-> "none"]
  /\ refunded = [r \in Requests |-> FALSE]
  /\ webhook = "idle" /\ snapshot = pool
  /\ net = [r \in Requests |-> 0]
  /\ failed = [r \in Requests |-> FALSE]
  /\ escalated = [r \in Requests |-> FALSE]
  /\ full = [r \in Requests |-> FALSE]
  /\ resets = 0 /\ changes = 0

\* Every step notes the requests it finds or leaves running on a full pool.
Watch ==
  full' = [r \in Requests |->
             full[r] \/ (pc'[r] # "idle" /\ (~Room(pool) \/ ~Room(pool')))]

Others ==
  \/ \E monthly \in BOOLEAN : QuotaReset(monthly)
  \/ \E limit \in Limits : PlanChange(limit)
  \/ RefreshRead \/ RefreshWrite
  \/ Evict

Next ==
  \/ \E r \in Requests : Middleware(r) /\ Watch
  \/ \E r \in Requests : StreamEnds(r) /\ Watch
  \/ Others /\ Watch

\* The Worker runs a request it accepted, and the body of a stream, to the end.
Fairness ==
  \A r \in Requests : WF_vars(Middleware(r) /\ Watch) /\ WF_vars(StreamEnds(r) /\ Watch)

Spec == Init /\ [][Next]_vars
FairSpec == Spec /\ Fairness

----------------------------------------------------------------------------
(* Properties *)

Labels == {"idle", "pool", "backfill", "topups", "charge", "aggregate", "handler",
           "settle", "invalidate", "refund", "done", "refused", "stranded"}

\* The row, the snapshot and the request's locals keep their types.
TypeOK ==
  /\ pool \in Counters /\ pool.used >= 0 /\ pool.today >= 0
  /\ topUp \in Nat
  /\ kv \in Counters \cup {NoEntry}
  /\ pc \in [Requests -> Labels]
  /\ seen \in [Requests -> Counters] /\ credits \in [Requests -> Nat]
  /\ result \in [Requests -> Results]
  /\ body \in [Requests -> {"none", "running", "ended"}]
  /\ refunded \in [Requests -> BOOLEAN]
  /\ webhook \in {"idle", "changed", "read"} /\ snapshot \in Counters
  /\ net \in [Requests -> Int]
  /\ failed \in [Requests -> BOOLEAN] /\ escalated \in [Requests -> BOOLEAN]
  /\ full \in [Requests -> BOOLEAN]
  /\ resets \in Nat /\ changes \in Nat

\* BUG-115: however stale the snapshot - a cron it never saw, a refresh or a
\* backfill that came late - a request is answered 402 only if the pool itself
\* was exhausted at some moment while it ran.
NoStaleRefusal == \A r \in Requests : pc[r] = "refused" => full[r]

\* A charge whose request ended when the balance read after it threw.
Stranded(r) == pc[r] = "stranded" /\ result[r].source = "top_up"

\* A request that brought the learner no answer - an error status, a throw, a
\* stream that broke off after its 200, a canned reply - does not stay charged
\* unless a failed refund was reported. One failure is neither refunded nor
\* reported (metering.ts:906): the balance read after a charge threw; then the
\* charge is a top-up credit, never the month's.
NotChargedForFailure == \A r \in Requests :
  pc[r] \in {"done", "stranded"} /\ body[r] # "running" /\ failed[r] =>
    net[r] <= 0 \/ escalated[r] \/ Stranded(r)

\* The refund of a failure, by the handler, the middleware or the streamed body,
\* is never left waiting for another request; but for the same one failure.
RefundFollows == \A r \in Requests :
  failed[r] ~> (net[r] <= 0 \/ escalated[r] \/ Stranded(r))

=============================================================================
