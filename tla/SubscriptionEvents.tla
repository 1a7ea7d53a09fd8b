------------------------- MODULE SubscriptionEvents -------------------------
(* One organization's subscription row under RevenueCat's webhook deliveries. *)
(* RevenueCat delivers an event at least once, in any order, several at a     *)
(* time, and again when a delivery was answered with an error or got no       *)
(* answer. A delivery is the route's idempotency read                         *)
(* (routes/revenuecat-webhook.ts), for some events a read of the row before   *)
(* the transaction (revenuecat-webhook-handler-v2.ts), and one transaction    *)
(* (revenuecat-v2.ts, trial-v2.ts, top-up-v2.ts). The trial-expiry cron       *)
(* writes the same row.                                                       *)
(*                                                                            *)
(* Left to other modules: the quota rows a transaction reconciles             *)
(* (QuotaMetering's ChangePlan) and the cache refresh after it (MeteringGate).*)
EXTENDS Naturals

CONSTANTS
  Events,        \* event ids
  Histories,     \* what the store may have sent: event -> its payload
  Starts,        \* rows the organization may start with
  Workers,       \* deliveries that run at a time
  Txns,          \* store transaction ids of top-ups
  NoEvent,
  MaxDeliveries  \* bound: deliveries of one event

Tiers == {"free", "plus", "family"}
Statuses == {"trial", "active", "past_due", "cancelled", "expired"}
Types == {"INITIAL_PURCHASE", "RENEWAL", "CANCELLATION", "EXPIRATION",
          "BILLING_ISSUE", "PRODUCT_CHANGE", "UNCANCELLATION",
          "NON_RENEWING_PURCHASE"}

\* The fields of RevenueCatEvent that decide anything: event_timestamp_ms, the
\* tier of the product, period_type, a refund-class cancel_reason, and the
\* transaction of a top-up. A field of no meaning to the type holds its default.
Payload == [type : Types, at : Nat \ {0}, tier : Tiers,
            period : {"TRIAL", "NORMAL", "absent"}, refund : BOOLEAN, txn : Txns]

\* The subscription columns: lastTs is 0 where the column is null, and
\* trialEnds says whether trial_ends_at is null, ahead or over.
Row == [status : Statuses, tier : Tiers, lastId : Events \cup {NoEvent},
        lastTs : Nat, trialEnds : {"none", "ahead", "over"}]

ASSUME HistoriesAssumption ==
  \A h \in Histories : DOMAIN h \subseteq Events /\ h \in [DOMAIN h -> Payload]
ASSUME StartsAssumption ==
  \A s \in Starts : s \in Row /\ s.lastId = NoEvent /\ s.lastTs = 0
ASSUME NoEventAssumption == NoEvent \notin Events
ASSUME MaxDeliveriesAssumption == MaxDeliveries \in Nat

VARIABLES
  event,       \* what the store sent
  row,         \* the subscription row
  credit,      \* txn -> the top_up_credits row: how often granted, and for which model
  selected,    \* the trial-expiry cron has selected the row
  pc,          \* worker -> where its delivery is
  job,         \* worker -> the event it handles
  before,      \* worker -> the row it read before its transaction
  deliveries,  \* event -> deliveries so far
  acked,       \* history: event -> some delivery was answered 200
  applied,     \* history: event -> transactions that applied it
  lapsed       \* history: the row has been on the free tier

vars == <<event, row, credit, selected, pc, job, before, deliveries, acked,
          applied, lapsed>>

----------------------------------------------------------------------------
Model(tier) == IF tier = "family" THEN "shared-pool" ELSE "per-profile"

ValidTransition(from, to) ==
  \/ from = "trial" /\ to \in {"active", "expired", "past_due"}
  \/ from = "active" /\ to \in {"past_due", "cancelled", "expired"}
  \/ from = "past_due" /\ to \in {"active", "cancelled", "expired"}
  \/ from = "cancelled" /\ to \in {"active", "expired"}
  \/ from = "expired" /\ to \in {"active", "past_due"}

Sent == DOMAIN event
Type(e) == event[e].type
TopUp(e) == Type(e) = "NON_RENEWING_PURCHASE"
Voluntary(e) == Type(e) = "CANCELLATION" /\ ~event[e].refund

\* Mutant: the watermark alone, which lets an event through a second time.
ProcessedByTime(r, e) == event[e].at < r.lastTs
\* isRevenuecatEventProcessedV2, and the same check inside the transactions.
Processed(r, e) == r.lastId = e \/ event[e].at < r.lastTs
\* Mutant: the SQL predicate knows the event id but not the timestamp.
FreshById(r, e) == r.lastId # e
\* The WHERE of the unlocked updates.
Fresh(r, e) == r.lastId # e /\ r.lastTs <= event[e].at

\* Mutant: a top-up has to respect the watermark as well.
ExemptBillingIssue(e) == Type(e) = "BILLING_ISSUE"
Exempt(e) == Type(e) \in {"BILLING_ISSUE", "NON_RENEWING_PURCHASE"}

\* Handlers that read the row before their transaction.
ReadsFirst(e) ==
  \/ Type(e) \in {"INITIAL_PURCHASE", "RENEWAL", "EXPIRATION", "NON_RENEWING_PURCHASE"}
  \/ Voluntary(e)

\* What a worker holds between deliveries.
Blank == [status |-> "active", tier |-> "free", lastId |-> NoEvent, lastTs |-> 0,
          trialEnds |-> "none"]
Ended(w) ==
  /\ pc' = [pc EXCEPT ![w] = "idle"]
  /\ job' = [job EXCEPT ![w] = NoEvent]
  /\ before' = [before EXCEPT ![w] = Blank]
Answered(w) == acked' = [acked EXCEPT ![job[w]] = TRUE] /\ Ended(w)

SetRow(r) ==
  /\ row' = r
  /\ lapsed' = (lapsed \/ r.tier = "free")

Stamped(r, e) == [r EXCEPT !.lastId = e, !.lastTs = event[e].at]

----------------------------------------------------------------------------
(* A delivery *)

Receive(w, e) ==
  /\ pc[w] = "idle" /\ deliveries[e] < MaxDeliveries
  /\ deliveries' = [deliveries EXCEPT ![e] = @ + 1]
  /\ IF Processed(row, e) /\ ~Exempt(e)
       THEN acked' = [acked EXCEPT ![e] = TRUE] /\ UNCHANGED <<pc, job>>
       ELSE /\ pc' = [pc EXCEPT ![w] = IF ReadsFirst(e) THEN "read" ELSE "write"]
            /\ job' = [job EXCEPT ![w] = e]
            /\ UNCHANGED acked
  /\ UNCHANGED <<event, row, credit, selected, before, applied, lapsed>>

\* getSubscriptionByAccountIdV2 outside the transaction. A top-up for a free
\* account is answered 200 and skipped.
ReadRow(w) ==
  /\ pc[w] = "read"
  /\ IF TopUp(job[w]) /\ row.tier = "free"
       THEN Answered(w)
       ELSE /\ before' = [before EXCEPT ![w] = row]
            /\ pc' = [pc EXCEPT ![w] = IF TopUp(job[w]) THEN "attribute" ELSE "write"]
            /\ UNCHANGED <<job, acked>>
  /\ UNCHANGED <<event, row, credit, selected, deliveries, applied, lapsed>>

\* The columns a handler asks applySubscriptionUpdateFromRevenuecatV2 to set,
\* over the row r that transaction finds and the row b read before it.
Revised(r, e, b) ==
  CASE Type(e) = "RENEWAL" ->
         [r EXCEPT !.status = "active",
                   !.trialEnds = IF event[e].period = "TRIAL" THEN @ ELSE "none",
                   !.tier = IF b.tier # event[e].tier THEN event[e].tier ELSE @]
    [] Type(e) = "PRODUCT_CHANGE" -> [r EXCEPT !.status = "active", !.tier = event[e].tier]
    [] Type(e) = "UNCANCELLATION" -> [r EXCEPT !.status = "active"]
    [] Type(e) = "BILLING_ISSUE" -> [r EXCEPT !.status = "past_due"]
    [] Voluntary(e) ->
         [r EXCEPT !.status = IF b.status = "past_due" THEN "past_due" ELSE "active"]
    [] OTHER -> [r EXCEPT !.status = "expired", !.tier = "free"]

\* reattributeTopUpCreditsOnModelChangeV2.
Reattributed(old, new) ==
  IF Model(old) = Model(new) THEN credit
  ELSE [t \in Txns |-> IF credit[t].granted > 0
                         THEN [credit[t] EXCEPT !.model = Model(new)] ELSE credit[t]]

TrialExpiration(e, b) ==
  Type(e) = "EXPIRATION"
  /\ (event[e].period = "TRIAL" \/ (event[e].period = "absent" /\ b.status = "trial"))

\* updateSubscription[AndQuota]FromRevenuecatWebhookV2, under the row's lock. An
\* invalid transition throws: the delivery is answered 500 and comes again.
Apply(w) ==
  LET e == job[w]
      new == Revised(row, e, before[w])
  IN /\ pc[w] = "write"
     /\ Type(e) \notin {"INITIAL_PURCHASE", "NON_RENEWING_PURCHASE"}
     /\ ~TrialExpiration(e, before[w])
     /\ \/ /\ Processed(row, e)
           /\ Answered(w)
           /\ UNCHANGED <<row, credit, applied, lapsed>>
        \/ /\ ~Processed(row, e)
           /\ new.status # row.status /\ ~ValidTransition(row.status, new.status)
           /\ Ended(w)
           /\ UNCHANGED <<row, credit, acked, applied, lapsed>>
        \/ /\ ~Processed(row, e)
           /\ new.status = row.status \/ ValidTransition(row.status, new.status)
           /\ SetRow(Stamped(new, e))
           /\ credit' = Reattributed(row.tier, new.tier)
           /\ applied' = [applied EXCEPT ![e] = @ + 1]
           /\ Answered(w)
     /\ UNCHANGED <<event, selected, deliveries>>

\* activateSubscriptionFromRevenuecatV2: no lock, no transition rule, no
\* re-attribution; the guards are its early returns and the UPDATE's WHERE.
Activate(w) ==
  LET e == job[w]
      trial == event[e].period = "TRIAL"
  IN /\ pc[w] = "write" /\ Type(e) = "INITIAL_PURCHASE"
     /\ IF ~Processed(before[w], e) /\ Fresh(row, e)
          THEN /\ SetRow(Stamped([row EXCEPT !.tier = event[e].tier,
                                    !.status = IF trial THEN "trial" ELSE "active",
                                    !.trialEnds = IF trial THEN "ahead" ELSE "none"], e))
               /\ applied' = [applied EXCEPT ![e] = @ + 1]
          ELSE UNCHANGED <<row, applied, lapsed>>
     /\ Answered(w)
     /\ UNCHANGED <<event, credit, selected, deliveries>>

\* Mutant: the event id is stored, its timestamp is not.
ExtendTrialUntimed(w) ==
  LET e == job[w]
  IN /\ pc[w] = "write" /\ TrialExpiration(e, before[w])
     /\ IF row.status = "trial" /\ Fresh(row, e)
          THEN /\ SetRow([row EXCEPT !.status = "expired", !.tier = "free", !.lastId = e])
               /\ applied' = [applied EXCEPT ![e] = @ + 1]
          ELSE UNCHANGED <<row, applied, lapsed>>
     /\ Answered(w)
     /\ UNCHANGED <<event, credit, selected, deliveries>>
\* transitionToExtendedTrialFromRevenuecatEventV2: only for a row in trial.
ExtendTrial(w) ==
  LET e == job[w]
  IN /\ pc[w] = "write" /\ TrialExpiration(e, before[w])
     /\ IF row.status = "trial" /\ Fresh(row, e)
          THEN /\ SetRow(Stamped([row EXCEPT !.status = "expired", !.tier = "free"], e))
               /\ applied' = [applied EXCEPT ![e] = @ + 1]
          ELSE UNCHANGED <<row, applied, lapsed>>
     /\ Answered(w)
     /\ UNCHANGED <<event, credit, selected, deliveries>>

\* purchaseTopUpCreditsV2 reads the plan again to decide whose credit it is.
Attribute(w) ==
  /\ pc[w] = "attribute"
  /\ IF row.tier = "free"
       THEN Answered(w)
       ELSE /\ before' = [before EXCEPT ![w] = row]
            /\ pc' = [pc EXCEPT ![w] = "write"]
            /\ UNCHANGED <<job, acked>>
  /\ UNCHANGED <<event, row, credit, selected, deliveries, applied, lapsed>>

\* Mutant: the insert has no conflict clause.
GrantAgain(w) ==
  LET t == event[job[w]].txn
  IN /\ pc[w] = "write" /\ TopUp(job[w])
     /\ credit' = [credit EXCEPT ![t] = [granted |-> @.granted + 1,
                                         model |-> Model(before[w].tier)]]
     /\ Answered(w)
     /\ UNCHANGED <<event, row, selected, deliveries, applied, lapsed>>
\* INSERT ... ON CONFLICT (revenuecat_transaction_id) DO NOTHING.
Grant(w) ==
  LET t == event[job[w]].txn
  IN /\ pc[w] = "write" /\ TopUp(job[w])
     /\ credit' = IF credit[t].granted > 0 THEN credit
                  ELSE [credit EXCEPT ![t] = [granted |-> 1, model |-> Model(before[w].tier)]]
     /\ Answered(w)
     /\ UNCHANGED <<event, row, selected, deliveries, applied, lapsed>>

\* The Worker dies or a statement fails: no answer, and nothing was written.
Fail(w) ==
  /\ pc[w] # "idle"
  /\ Ended(w)
  /\ UNCHANGED <<event, row, credit, selected, deliveries, acked, applied, lapsed>>

----------------------------------------------------------------------------
(* The trial-expiry cron *)

TrialRunsOut ==
  /\ row.trialEnds = "ahead"
  /\ row' = [row EXCEPT !.trialEnds = "over"]
  /\ UNCHANGED <<event, credit, selected, pc, job, before, deliveries, acked,
                 applied, lapsed>>

\* findExpiredTrialsV2.
SelectTrial ==
  /\ row.status = "trial" /\ row.trialEnds = "over" /\ ~selected
  /\ selected' = TRUE
  /\ UNCHANGED <<event, row, credit, pc, job, before, deliveries, acked, applied,
                 lapsed>>

\* Mutant: expireTrialSubscriptionV2's update, which has no status guard.
ExpireAnyway ==
  /\ selected
  /\ selected' = FALSE
  /\ SetRow([row EXCEPT !.status = "expired", !.tier = "free"])
  /\ UNCHANGED <<event, credit, pc, job, before, deliveries, acked, applied>>
\* transitionToExtendedTrialV2: a row no longer in trial is skipped.
ExpireTrial ==
  /\ selected
  /\ selected' = FALSE
  /\ SetRow(IF row.status = "trial"
              THEN [row EXCEPT !.status = "expired", !.tier = "free"] ELSE row)
  /\ UNCHANGED <<event, credit, pc, job, before, deliveries, acked, applied>>

----------------------------------------------------------------------------
Init ==
  /\ event \in Histories
  /\ row \in Starts
  /\ credit = [t \in Txns |-> [granted |-> 0, model |-> "none"]]
  /\ selected = FALSE
  /\ pc = [w \in Workers |-> "idle"]
  /\ job = [w \in Workers |-> NoEvent]
  /\ before = [w \in Workers |-> Blank]
  /\ deliveries = [e \in Events |-> 0]
  /\ acked = [e \in Events |-> FALSE]
  /\ applied = [e \in Events |-> 0]
  /\ lapsed = (row.tier = "free")

Next ==
  \/ \E w \in Workers, e \in Sent : Receive(w, e)
  \/ \E w \in Workers :
       ReadRow(w) \/ Apply(w) \/ Activate(w) \/ ExtendTrial(w)
       \/ Attribute(w) \/ Grant(w) \/ Fail(w)
  \/ TrialRunsOut \/ SelectTrial \/ ExpireTrial

Spec == Init /\ [][Next]_vars

----------------------------------------------------------------------------
(* Properties *)

\* The row carries an event id exactly when it carries that event's timestamp,
\* and everything else has its type.
TypeOK ==
  /\ event \in Histories
  /\ row \in Row
  /\ row.lastId # NoEvent => row.lastTs = event[row.lastId].at
  /\ row.lastId = NoEvent => row.lastTs = 0
  /\ credit \in [Txns -> [granted : Nat, model : {"none", "shared-pool", "per-profile"}]]
  /\ selected \in BOOLEAN /\ lapsed \in BOOLEAN
  /\ pc \in [Workers -> {"idle", "read", "attribute", "write"}]
  /\ job \in [Workers -> Sent \cup {NoEvent}]
  /\ before \in [Workers -> Row]
  /\ deliveries \in [Events -> 0..MaxDeliveries]
  /\ acked \in [Events -> BOOLEAN] /\ applied \in [Events -> Nat]

\* No other event that is stored in the row has the timestamp of e: of two such
\* events only the id of the one applied last is remembered.
Apart(e) == \A f \in Sent : f # e /\ ~TopUp(f) => event[f].at # event[e].at

\* Idempotency of the webhook ("skip already-processed events"): duplicates and
\* reordered deliveries, several at a time, apply an event at most once - unless
\* it shares its timestamp with another.
AppliedOnce == \A e \in Sent : Apart(e) => applied[e] <= 1

\* The expiration of a trial is the one event that may be answered unrecorded.
Recorded(e) == ~TopUp(e) /\ ~(Type(e) = "EXPIRATION" /\ event[e].period # "NORMAL")

\* BD-01: an event answered 200 took effect or gave way to a newer one, and the
\* row never goes back behind it, whichever path - locked update, activation or
\* trial extension - writes next.
NothingLost ==
  \A e \in Sent : acked[e] /\ Recorded(e) => event[e].at <= row.lastTs

Newest(e) ==
  /\ acked[e] /\ ~TopUp(e)
  /\ \A f \in Sent \ {e} : acked[f] /\ ~TopUp(f) => event[f].at < event[e].at

\* The status and tier the store's event stands for; a purchased trial may since
\* have run out. A renewal decides its tier from a row read before the lock, so
\* nothing is said of the tier after it. Nor is anything said after the
\* expiration of a trial, which may be answered unrecorded.
Decides(e, r) ==
  /\ Type(e) = "INITIAL_PURCHASE" /\ event[e].period = "TRIAL" =>
       \/ r.status = "trial" /\ r.tier = event[e].tier
       \/ r.status = "expired" /\ r.tier = "free"
  /\ \/ Type(e) = "INITIAL_PURCHASE" /\ event[e].period # "TRIAL"
     \/ Type(e) = "PRODUCT_CHANGE"
       => r.status = "active" /\ r.tier = event[e].tier
  /\ Type(e) \in {"RENEWAL", "UNCANCELLATION"} => r.status = "active"
  /\ Type(e) = "BILLING_ISSUE" => r.status = "past_due"
  /\ Voluntary(e) => r.status \in {"active", "past_due"}
  /\ \/ Type(e) = "CANCELLATION" /\ event[e].refund
     \/ Type(e) = "EXPIRATION" /\ event[e].period = "NORMAL"
       => r.status = "expired" /\ r.tier = "free"

\* Late, duplicated and concurrent deliveries and the trial cron leave the row
\* as the newest answered event of the store decides it.
NewestDecides == \A e \in Sent : Newest(e) => Decides(e, row)

\* BS-02: the store transaction of a top-up grants credits once, also when it
\* comes under two event ids or in two deliveries at a time.
GrantedOnce == \A t \in Txns : credit[t].granted <= 1

\* The ordering exemption: on an account that has always been on a paid tier, a
\* top-up answered 200 was granted, however late it came.
TopUpHonoured ==
  \A e \in Sent : acked[e] /\ TopUp(e) /\ ~lapsed => credit[event[e].txn].granted > 0

=============================================================================
