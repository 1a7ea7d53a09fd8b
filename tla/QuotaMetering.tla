--------------------------- MODULE QuotaMetering ---------------------------
(* The quota counters of one subscription and every transaction that writes *)
(* them: services/billing/metering.ts (decrementQuota, incrementQuota), the *)
(* quota-reset cron, the plan-change reconciliation of the billing webhooks *)
(* and the top-up purchase.                                                 *)
(*                                                                          *)
(* A subscription is metered by one shared pool row (quota_pools) or by one *)
(* row per person (profile_quota_usage); both are a Row of `row`. A request *)
(* is one call of an LLM route: it reads the tier, charges a counter or a   *)
(* top-up credit, runs its handler, and is refunded when the handler fails, *)
(* by some routes twice.                                                    *)
(* Postgres runs at READ COMMITTED: each statement sees the rows committed  *)
(* before it, so the statements of one transaction are separate steps here, *)
(* and the updates that a transaction ends with are one step.               *)
EXTENDS Integers, FiniteSets

CONSTANTS
  Requests,       \* LLM requests; each is charged at most once
  Profiles,       \* the persons of the organization
  Owner,          \* the person with the admin membership
  Pool,           \* the bucket standing for the quota_pools row
  Nobody,         \* profile_id NULL on a top-up credit, "no charge"
  Credits,        \* top-up purchases, numbered in purchase order
  Tiers, Free,    \* plan tiers
  Shared,         \* the tiers whose quotaModel is 'shared-pool'
  MonthlyQuota,   \* tier -> role -> monthly limit
  DailyQuota,     \* tier -> role -> daily limit, or NoLimit (NULL)
  TopUpAmount,    \* tier -> credits one top-up grants (0: none is sold)
  ProfileOf,      \* request -> the person who sent it
  Rethrowing,     \* requests of the session routes, whose catch refunds and throws on
  InitialPlans,   \* the plans an execution may start with
  MaxResets,      \* bound: runs of the quota-reset cron
  MaxChanges      \* bound: subscription changes (webhooks, lapses, removals)

Roles == {"pool", "owner", "child"}
Buckets == {Pool} \cup Profiles
NoLimit == -1
NoCredit == -1

ASSUME ProfilesAssumption ==
  /\ Owner \in Profiles
  /\ Pool \notin Profiles /\ Nobody \notin Profiles /\ Pool # Nobody
  /\ ProfileOf \in [Requests -> Profiles]
ASSUME RequestsAssumption == IsFiniteSet(Requests)
ASSUME CreditsAssumption == Credits \subseteq Nat
ASSUME TiersAssumption ==
  /\ Free \in Tiers /\ Shared \subseteq Tiers /\ Free \notin Shared
  /\ InitialPlans \subseteq Tiers
  /\ MonthlyQuota \in [Tiers -> [Roles -> Nat]]
  /\ DailyQuota \in [Tiers -> [Roles -> Nat \cup {NoLimit}]]
  /\ TopUpAmount \in [Tiers -> Nat]
ASSUME BoundsAssumption == MaxResets \in Nat /\ MaxChanges \in Nat

VARIABLES
  plan,      \* subscription.plan_tier
  lapsed,    \* past_due or cancelled with no paid period left: effectively free
  members,   \* persons under the subscription and not archived
  row,       \* bucket -> quota_pools / profile_quota_usage row
  credit,    \* credit -> top_up_credits row
  events,    \* person -> SUM(delta) of usage_events
  pc,        \* request -> where it is
  tierOf,    \* request -> the effective tier decrementQuota read
  tried,     \* request -> contendedTopUpIds
  pick,      \* request -> the credit findFirst returned
  retried,   \* request -> lazy provisioning already done (allowLazyProvision)
  charge,    \* request -> what it was charged, and how often it was refunded
  cycle,     \* bucket -> history: how often used_this_month was restarted
  day,       \* bucket -> history: how often used_today was restarted
  strayMonth, \* bucket -> history: units this cycle's counter gave back for
              \*   refunds of an earlier cycle, and for second refunds
  strayDay,  \* bucket -> history: the same for the day's counter
  resets, changes  \* the bounds' counters

sub == <<plan, lapsed, members>>
reqs == <<pc, tierOf, tried, pick, retried, charge>>
history == <<cycle, day, strayMonth, strayDay>>
bounds == <<resets, changes>>
vars == <<plan, lapsed, members, row, credit, events, pc, tierOf, tried, pick,
          retried, charge, cycle, day, strayMonth, strayDay, resets, changes>>

----------------------------------------------------------------------------
(* Rows *)

Row == [present : BOOLEAN, monthlyLimit : Nat, used : Nat,
        dailyLimit : Nat \cup {NoLimit}, today : Nat]
Absent == [present |-> FALSE, monthlyLimit |-> 0, used |-> 0,
           dailyLimit |-> 0, today |-> 0]

CreditRow == [amount : Nat, remaining : Nat, profile : Profiles \cup {Nobody},
              expired : BOOLEAN]

\* What a request keeps of its DecrementResult, with the epochs it was made in.
ChargeRecord == [source : {"none", "monthly", "top_up"},
                 bucket : Buckets \cup {Nobody}, credit : Credits \cup {NoCredit},
                 cycle : Nat, day : Nat, refunds : 0..2]

\* 'owner' or 'child' as provisioned from the membership role; the pool's own.
Role(b) == IF b = Pool THEN "pool" ELSE IF b = Owner THEN "owner" ELSE "child"

WithLimits(x, t, b) == [x EXCEPT !.monthlyLimit = MonthlyQuota[t][Role(b)],
                                 !.dailyLimit = DailyQuota[t][Role(b)]]
Cleared(x) == [x EXCEPT !.used = 0, !.today = 0]
Fresh(t, b) == WithLimits([Absent EXCEPT !.present = TRUE], t, b)

\* The SQL guards of the counting UPDATEs; no row matches an absent one.
DailyRoom(x) == x.present /\ (x.dailyLimit = NoLimit \/ x.today < x.dailyLimit)
\* Mutant: the last unit of the month is granted twice.
HasRoomInclusive(x) == DailyRoom(x) /\ x.used <= x.monthlyLimit
HasRoom(x) == DailyRoom(x) /\ x.used < x.monthlyLimit

\* Mutant: the refund without GREATEST.
DecUnclamped(n) == n - 1
Dec(n) == IF n > 0 THEN n - 1 ELSE 0       \* GREATEST(n - 1, 0)

EffectiveTier == IF lapsed THEN Free ELSE plan

Target(r) == IF tierOf[r] \in Shared THEN Pool ELSE ProfileOf[r]

NotCharged == [source |-> "none", bucket |-> Nobody, credit |-> NoCredit,
               cycle |-> 0, day |-> 0, refunds |-> 0]
ChargedTo(b, source, c) == [source |-> source, bucket |-> b, credit |-> c,
                            cycle |-> cycle[b], day |-> day[b], refunds |-> 0]

----------------------------------------------------------------------------
(* decrementQuota *)

At(r, label) == pc[r] = label
Goto(r, label) == pc' = [pc EXCEPT ![r] = label]

\* Mutant: the usage_events row is not written with the charge.
ChargeUnlogged(r, source, c) ==
  /\ Goto(r, "charged")
  /\ charge' = [charge EXCEPT ![r] = ChargedTo(Target(r), source, c)]
  /\ UNCHANGED events
\* A charge commits together with its usage_events row.
Charge(r, source, c) ==
  /\ Goto(r, "charged")
  /\ charge' = [charge EXCEPT ![r] = ChargedTo(Target(r), source, c)]
  /\ events' = [events EXCEPT ![ProfileOf[r]] = @ + 1]

\* getEffectiveAccessForSubscriptionV2, then the ownership cross-check.
Begin(r) ==
  /\ At(r, "idle")
  /\ tierOf' = [tierOf EXCEPT ![r] = EffectiveTier]
  /\ Goto(r, IF ProfileOf[r] \in members THEN "update" ELSE "profile_mismatch")
  /\ UNCHANGED <<sub, row, credit, events, tried, pick, retried, charge,
                 history, bounds>>

\* clampProfileQuotaLimits: a profile row follows the tier the request read.
Clamped(r) ==
  LET b == Target(r) IN
  IF b # Pool /\ row[b].present THEN WithLimits(row[b], tierOf[r], b) ELSE row[b]

\* The guarded UPDATE of used_this_month and used_today.
ChargeMonthly(r) ==
  LET b == Target(r) IN
  /\ At(r, "update")
  /\ HasRoom(Clamped(r))
  /\ row' = [row EXCEPT ![b] = [Clamped(r) EXCEPT !.used = @ + 1, !.today = @ + 1]]
  /\ Charge(r, "monthly", NoCredit)
  /\ UNCHANGED <<sub, credit, tierOf, tried, pick, retried, history, bounds>>

\* It matched no row; the reason is read by the next statement.
MissMonthly(r) ==
  /\ At(r, "update")
  /\ ~HasRoom(Clamped(r))
  /\ row' = [row EXCEPT ![Target(r)] = Clamped(r)]
  /\ Goto(r, "snapshot")
  /\ UNCHANGED <<sub, credit, events, tierOf, tried, pick, retried, charge,
                 history, bounds>>

\* Only the owner of a per-profile plan that sells top-ups may draw on them,
\* and only once the month is used up; anyone may in a shared pool.
MayUseTopUp(r, x) ==
  \/ Target(r) = Pool
  \/ /\ Target(r) = Owner
     /\ x.used >= x.monthlyLimit
     /\ TopUpAmount[tierOf[r]] > 0

\* What the second statement of the transaction concludes from the row it reads.
Verdict(r, x) ==
  IF ~x.present
  THEN IF Target(r) = Pool THEN "none"
       ELSE IF retried[r] THEN "row_missing"
       ELSE IF ProfileOf[r] \in members THEN "provision" ELSE "profile_mismatch"
  ELSE IF ~DailyRoom(x) THEN "daily_exceeded"
  ELSE IF MayUseTopUp(r, x) THEN "topup" ELSE "none"

Classify(r) ==
  /\ At(r, "snapshot")
  /\ Goto(r, Verdict(r, row[Target(r)]))
  /\ UNCHANGED <<sub, row, credit, events, tierOf, tried, pick, retried, charge,
                 history, bounds>>

\* provisionProfileQuotaUsageV2 (INSERT .. ON CONFLICT DO NOTHING), then the
\* whole attempt once more. The insert is visible here one step before commit.
Provision(r) ==
  LET b == Target(r) IN
  /\ At(r, "provision")
  /\ IF row[b].present
     THEN UNCHANGED row
     ELSE row' = [row EXCEPT ![b] = Fresh(tierOf[r], b)]
  /\ retried' = [retried EXCEPT ![r] = TRUE]
  /\ Goto(r, "update")
  /\ UNCHANGED <<sub, credit, events, tierOf, tried, pick, charge, history, bounds>>

\* Credits the SELECT may return. A profile draws on its own only.
Drawable(r, c) == Target(r) = Pool \/ credit[c].profile = ProfileOf[r]
Eligible(r) == {c \in Credits \ tried[r] :
                  /\ credit[c].remaining > 0
                  /\ ~credit[c].expired
                  /\ Drawable(r, c)}

\* Mutant: no answer when findFirst returns nothing.
SelectCreditOrWait(r) ==
  /\ At(r, "topup")
  /\ \E c \in Eligible(r) :
        /\ \A d \in Eligible(r) : c <= d
        /\ pick' = [pick EXCEPT ![r] = c]
        /\ Goto(r, "take")
  /\ UNCHANGED <<sub, row, credit, events, tierOf, tried, retried, charge,
                 history, bounds>>
SelectCredit(r) ==
  /\ At(r, "topup")
  /\ IF Eligible(r) = {}
     THEN /\ Goto(r, IF Target(r) = Pool THEN "reread" ELSE "none")
          /\ UNCHANGED pick
     ELSE \E c \in Eligible(r) :
            /\ \A d \in Eligible(r) : c <= d          \* FIFO by purchase
            /\ pick' = [pick EXCEPT ![r] = c]
            /\ Goto(r, "take")
  /\ UNCHANGED <<sub, row, credit, events, tierOf, tried, retried, charge,
                 history, bounds>>

\* The pool is read once more to tell a daily stop from plain exhaustion.
Reread(r) ==
  /\ At(r, "reread")
  /\ Goto(r, IF row[Pool].present /\ ~DailyRoom(row[Pool])
             THEN "daily_exceeded" ELSE "none")
  /\ UNCHANGED <<sub, row, credit, events, tierOf, tried, pick, retried, charge,
                 history, bounds>>

\* The guarded UPDATE of the credit lost a race: look for another.
LoseCredit(r) ==
  LET c == pick[r] IN
  /\ At(r, "take")
  /\ credit[c].remaining = 0 \/ ~Drawable(r, c)
  /\ tried' = [tried EXCEPT ![r] = @ \cup {c}]
  /\ Goto(r, "topup")
  /\ UNCHANGED <<sub, row, credit, events, tierOf, pick, retried, charge,
                 history, bounds>>

\* Mutant: the credit is not put back when the daily slot is refused.
TakeCreditUnrestored(r) ==
  LET b == Target(r)
      c == pick[r] IN
  /\ At(r, "take")
  /\ credit[c].remaining > 0 /\ Drawable(r, c)
  /\ credit' = [credit EXCEPT ![c].remaining = @ - 1]
  /\ IF DailyRoom(row[b])
     THEN row' = [row EXCEPT ![b].today = @ + 1] /\ Charge(r, "top_up", c)
     ELSE Goto(r, "daily_exceeded") /\ UNCHANGED <<row, charge, events>>
  /\ UNCHANGED <<sub, tierOf, tried, pick, retried, history, bounds>>

\* Mutant: a top-up charge takes no daily slot.
TakeCreditOffTheDay(r) ==
  LET c == pick[r] IN
  /\ At(r, "take")
  /\ credit[c].remaining > 0 /\ Drawable(r, c)
  /\ IF DailyRoom(row[Target(r)])
     THEN credit' = [credit EXCEPT ![c].remaining = @ - 1] /\ Charge(r, "top_up", c)
     ELSE Goto(r, "daily_exceeded") /\ UNCHANGED <<credit, charge, events>>
  /\ UNCHANGED <<sub, row, tierOf, tried, pick, retried, history, bounds>>

\* One credit and one daily slot, or neither: the credit goes back when the
\* guarded UPDATE of used_today matches no row.
TakeCredit(r) ==
  LET b == Target(r)
      c == pick[r] IN
  /\ At(r, "take")
  /\ credit[c].remaining > 0 /\ Drawable(r, c)
  /\ IF DailyRoom(row[b])
     THEN /\ credit' = [credit EXCEPT ![c].remaining = @ - 1]
          /\ row' = [row EXCEPT ![b].today = @ + 1]
          /\ Charge(r, "top_up", c)
     ELSE /\ Goto(r, "daily_exceeded")
          /\ UNCHANGED <<credit, row, charge, events>>
  /\ UNCHANGED <<sub, tierOf, tried, pick, retried, history, bounds>>

Decrement(r) ==
  \/ Begin(r) \/ ChargeMonthly(r) \/ MissMonthly(r) \/ Classify(r)
  \/ Provision(r) \/ SelectCredit(r) \/ Reread(r) \/ LoseCredit(r)
  \/ TakeCredit(r)

----------------------------------------------------------------------------
(* After the charge: the handler answers, or incrementQuota runs *)

Serve(r) ==
  /\ At(r, "charged")
  /\ Goto(r, "served")
  /\ UNCHANGED <<sub, row, credit, events, tierOf, tried, pick, retried, charge,
                 history, bounds>>

\* The counters step back whatever cycle or day they are in by now, and the
\* second time they are told to.
Stray(k, epoch, now) == k.refunds > 0 \/ epoch # now
GiveBackSlot(b, k, monthly) ==
  /\ row' = [row EXCEPT ![b].used = IF monthly THEN Dec(@) ELSE @,
                        ![b].today = Dec(@)]
  /\ strayMonth' = [strayMonth EXCEPT ![b] =
       IF monthly /\ Stray(k, k.cycle, cycle[b]) /\ row[b].used > 0 THEN @ + 1 ELSE @]
  /\ strayDay' = [strayDay EXCEPT ![b] =
       IF Stray(k, k.day, day[b]) /\ row[b].today > 0 THEN @ + 1 ELSE @]

\* incrementPoolQuota / incrementProfileQuota, routed by the quotaModel of the
\* decrement. A per-profile credit is found by its owner, a pool's by id alone.
CanRefund(r) ==
  LET k == charge[r] IN
  /\ ProfileOf[r] \in members
  /\ k.source = "top_up" /\ k.bucket # Pool =>
       credit[k.credit].profile = ProfileOf[r]

\* Mutant: a top-up refund is paid out of the month (metering.ts, C6).
GiveBackToMonth(r) ==
  /\ CanRefund(r)
  /\ GiveBackSlot(charge[r].bucket, charge[r], TRUE)
  /\ events' = [events EXCEPT ![ProfileOf[r]] = @ - 1]
  /\ charge' = [charge EXCEPT ![r].refunds = @ + 1]
  /\ UNCHANGED <<sub, credit, tierOf, tried, pick, retried, cycle, day, bounds>>

\* incrementQuota: nothing it reads tells that the charge was given back before.
GiveBack(r) ==
  LET k == charge[r] IN
  /\ CanRefund(r)
  /\ IF k.source = "top_up"
     THEN /\ credit' = [credit EXCEPT ![k.credit].remaining = @ + 1]
          /\ GiveBackSlot(k.bucket, k, FALSE)
     ELSE /\ GiveBackSlot(k.bucket, k, TRUE)
          /\ UNCHANGED credit
  /\ events' = [events EXCEPT ![ProfileOf[r]] = @ - 1]
  /\ charge' = [charge EXCEPT ![r].refunds = @ + 1]
  /\ UNCHANGED <<sub, tierOf, tried, pick, retried, cycle, day, bounds>>

Refund(r) == At(r, "charged") /\ GiveBack(r) /\ Goto(r, "refunded")

\* A session route leaves the context's quotaRefunded unset; the middleware then
\* refunds the same charge.
RefundAgain(r) ==
  r \in Rethrowing /\ At(r, "refunded") /\ GiveBack(r) /\ Goto(r, "refunded_twice")

\* profile_mismatch, topup_credit_not_found, or the refund's transaction threw:
\* safeRefundQuota reports it and nothing is written. (Of a first refund lost
\* and a second made, only the second shows: that is Refund.)
RefundLost(r) ==
  /\ At(r, "charged")
  /\ Goto(r, "overcharged")
  /\ UNCHANGED <<sub, row, credit, events, tierOf, tried, pick, retried, charge,
                 history, bounds>>

Request(r) ==
  Decrement(r) \/ Serve(r) \/ Refund(r) \/ RefundAgain(r) \/ RefundLost(r)

----------------------------------------------------------------------------
(* The quota-reset cron: one transaction, daily first, then the due cycles *)

QuotaReset(due) ==
  /\ resets < MaxResets
  /\ resets' = resets + 1
  /\ row' = [b \in Buckets |->
       IF b \notin due THEN [row[b] EXCEPT !.today = 0]
       ELSE IF b = Pool THEN Cleared(WithLimits(row[b], plan, Pool))
       ELSE Cleared(row[b])]
  /\ day' = [b \in Buckets |-> day[b] + 1]
  /\ strayDay' = [b \in Buckets |-> 0]
  /\ cycle' = [b \in Buckets |-> IF b \in due THEN cycle[b] + 1 ELSE cycle[b]]
  /\ strayMonth' = [b \in Buckets |-> IF b \in due THEN 0 ELSE strayMonth[b]]
  /\ UNCHANGED <<sub, credit, events, reqs, changes>>

----------------------------------------------------------------------------
(* Subscription changes *)

Changing == changes < MaxChanges /\ changes' = changes + 1

\* reconcileQuotaStateForEffectiveTierV2. To a shared pool: the profile rows
\* go and the pool takes the limits. To per-profile: the owner and the first
\* child (at most one person) are provisioned and every row takes the limits.
Reconciled(t, first) ==
  [b \in Buckets |->
     IF t \in Shared
     THEN IF b = Pool THEN WithLimits([row[Pool] EXCEPT !.present = TRUE], t, Pool)
          ELSE Absent
     ELSE IF b = Pool THEN row[Pool]
     ELSE IF row[b].present THEN WithLimits(row[b], t, b)
     ELSE IF b \in {Owner} \cup first THEN Fresh(t, b) ELSE Absent]

\* Mutant: a re-anchored pool keeps its counters.
ReanchoredOnly(rows, anchor) == rows

\* The pool's counters start again when the pool is re-anchored to a provider
\* period (reconcileRevenuecatQuotaCycleV2) or its own cycle is over.
Reanchored(rows, anchor) ==
  IF anchor THEN [rows EXCEPT ![Pool] = Cleared(@)] ELSE rows

\* A bucket whose row is deleted or cleared: its charges are of an earlier cycle.
Restart(t, anchor) ==
  LET Again(b) == IF b = Pool THEN anchor ELSE t \in Shared IN
  /\ cycle' = [b \in Buckets |-> IF Again(b) THEN cycle[b] + 1 ELSE cycle[b]]
  /\ day' = [b \in Buckets |-> IF Again(b) THEN day[b] + 1 ELSE day[b]]
  /\ strayMonth' = [b \in Buckets |-> IF Again(b) THEN 0 ELSE strayMonth[b]]
  /\ strayDay' = [b \in Buckets |-> IF Again(b) THEN 0 ELSE strayDay[b]]

\* reattributeTopUpCreditsOnModelChangeV2: only batches with credits left move.
Reattributed(t) ==
  [c \in Credits |->
     IF credit[c].remaining = 0 \/ (plan \in Shared <=> t \in Shared)
     THEN credit[c]
     ELSE [credit[c] EXCEPT !.profile =
             IF t \in Shared THEN Nobody ELSE IF @ = Nobody THEN Owner ELSE @]]

\* An active subscription on plan t. Via "update" (RevenueCat renewal, product
\* change, expiration), "stripe", or "activate" (a purchase or checkout), which
\* does not re-attribute; "update" leaves the pool's limits to Reconciled.
ChangePlan(t, via, anchor, first) ==
  /\ Changing
  /\ anchor => t \in Shared
  /\ plan' = t
  /\ lapsed' = FALSE
  /\ row' = LET rows == Reanchored(Reconciled(t, first), anchor) IN
            IF via = "update" THEN rows
            ELSE [rows EXCEPT ![Pool] = WithLimits(@, t, Pool)]
  /\ credit' = IF via = "activate" THEN credit ELSE Reattributed(t)
  /\ Restart(t, anchor)
  /\ UNCHANGED <<members, events, reqs, resets>>

\* BILLING_ISSUE without a grace period: past_due, reconciled as free.
BillingIssue(first) ==
  /\ Changing
  /\ plan # Free
  /\ lapsed' = TRUE
  /\ row' = Reconciled(Free, first)
  /\ UNCHANGED <<plan, members, credit, events, reqs, history, resets>>

\* The paid period of a past_due or cancelled plan ends: time alone moves the
\* effective tier to free, no row is written.
Lapse ==
  /\ Changing
  /\ plan # Free /\ ~lapsed
  /\ lapsed' = TRUE
  /\ UNCHANGED <<plan, members, row, credit, events, reqs, history, resets>>

\* removeProfileFromSubscriptionV2 archives a member of a family or pro plan.
RemoveProfile(p) ==
  /\ Changing
  /\ plan \in Shared /\ p \in members \ {Owner}
  /\ members' = members \ {p}
  /\ UNCHANGED <<plan, lapsed, row, credit, events, reqs, history, resets>>

\* Mutant: the insert without ON CONFLICT DO NOTHING on the transaction id.
PurchaseAgain(c) ==
  /\ plan # Free
  /\ TopUpAmount[plan] > 0
  /\ credit' = [credit EXCEPT ![c] =
       [amount |-> TopUpAmount[plan], remaining |-> TopUpAmount[plan],
        profile |-> IF plan \in Shared THEN Nobody ELSE Owner,
        expired |-> FALSE]]
  /\ UNCHANGED <<sub, row, events, reqs, history, bounds>>

\* purchaseTopUpCreditsV2. A credit is one transaction id: granted once.
Purchase(c) ==
  /\ plan # Free
  /\ credit[c].amount = 0 /\ \A d \in Credits : d < c => credit[d].amount > 0
  /\ TopUpAmount[plan] > 0
  /\ credit' = [credit EXCEPT ![c] =
       [amount |-> TopUpAmount[plan], remaining |-> TopUpAmount[plan],
        profile |-> IF plan \in Shared THEN Nobody ELSE Owner,
        expired |-> FALSE]]
  /\ UNCHANGED <<sub, row, events, reqs, history, bounds>>

\* Twelve months on, expires_at is past.
Expire(c) ==
  /\ credit[c].amount > 0 /\ ~credit[c].expired
  /\ credit' = [credit EXCEPT ![c].expired = TRUE]
  /\ UNCHANGED <<sub, row, events, reqs, history, bounds>>

----------------------------------------------------------------------------
NotBought == [amount |-> 0, remaining |-> 0, profile |-> Nobody, expired |-> FALSE]

\* createSubscriptionV2: the pool row always exists, a per-profile plan also
\* has the owner's row (other persons' rows are provisioned lazily).
Init ==
  /\ plan \in InitialPlans
  /\ lapsed = FALSE
  /\ members = Profiles
  /\ row = [b \in Buckets |->
       IF b = Pool \/ (b = Owner /\ plan \notin Shared) THEN Fresh(plan, b) ELSE Absent]
  /\ credit = [c \in Credits |-> NotBought]
  /\ events = [p \in Profiles |-> 0]
  /\ pc = [r \in Requests |-> "idle"]
  /\ tierOf = [r \in Requests |-> Free]
  /\ tried = [r \in Requests |-> {}]
  /\ pick = [r \in Requests |-> NoCredit]
  /\ retried = [r \in Requests |-> FALSE]
  /\ charge = [r \in Requests |-> NotCharged]
  /\ cycle = [b \in Buckets |-> 0]
  /\ day = [b \in Buckets |-> 0]
  /\ strayMonth = [b \in Buckets |-> 0]
  /\ strayDay = [b \in Buckets |-> 0]
  /\ resets = 0 /\ changes = 0

\* The oldest non-archived child, if there is one; ages are not modelled.
FirstChild == LET children == members \ {Owner} IN
              IF children = {} THEN {{}} ELSE {{p} : p \in children}

Next ==
  \/ \E r \in Requests : Request(r)
  \/ \E due \in SUBSET {b \in Buckets : row[b].present} : QuotaReset(due)
  \/ \E first \in FirstChild :
       \/ \E t \in Tiers, via \in {"update", "stripe", "activate"}, anchor \in BOOLEAN :
            ChangePlan(t, via, anchor, first)
       \/ BillingIssue(first)
  \/ Lapse
  \/ \E p \in Profiles : RemoveProfile(p)
  \/ \E c \in Credits : Purchase(c) \/ Expire(c)

\* A Worker keeps running the request it accepted, and Postgres answers it.
Fairness == \A r \in Requests : WF_vars(Decrement(r))

Spec == Init /\ [][Next]_vars
FairSpec == Spec /\ Fairness

----------------------------------------------------------------------------
(* Properties *)

Running == {"update", "snapshot", "provision", "topup", "take", "reread"}
Refused == {"none", "daily_exceeded", "profile_mismatch", "row_missing"}
Answered == Refused \cup {"charged", "served", "refunded", "refunded_twice",
                           "overcharged"}

\* Every variable keeps the type its column or its local has.
TypeOK ==
  /\ plan \in Tiers /\ lapsed \in BOOLEAN /\ members \subseteq Profiles
  /\ row \in [Buckets -> Row]
  /\ credit \in [Credits -> CreditRow]
  /\ events \in [Profiles -> Int]
  /\ pc \in [Requests -> {"idle"} \cup Running \cup Answered]
  /\ tierOf \in [Requests -> Tiers]
  /\ tried \in [Requests -> SUBSET Credits]
  /\ pick \in [Requests -> Credits \cup {NoCredit}]
  /\ retried \in [Requests -> BOOLEAN]
  /\ charge \in [Requests -> ChargeRecord]
  /\ cycle \in [Buckets -> Nat] /\ day \in [Buckets -> Nat]
  /\ strayMonth \in [Buckets -> Nat] /\ strayDay \in [Buckets -> Nat]
  /\ resets \in Nat /\ changes \in Nat

\* The requests now charged to a bucket's running cycle, day, or to a credit.
Outstanding(r) == charge[r].source # "none" /\ charge[r].refunds = 0
MonthCharges(b) == {r \in Requests : /\ Outstanding(r)
                                     /\ charge[r].source = "monthly"
                                     /\ charge[r].bucket = b
                                     /\ charge[r].cycle = cycle[b]}
DayCharges(b) == {r \in Requests : /\ Outstanding(r)
                                   /\ charge[r].bucket = b
                                   /\ charge[r].day = day[b]}
Draws(c) == {r \in Requests :
               Outstanding(r) /\ charge[r].source = "top_up" /\ charge[r].credit = c}
ChargesOf(p) == {r \in Requests : Outstanding(r) /\ ProfileOf[r] = p}
\* The requests that were refunded twice: of one credit, of one person.
TwiceDrawn(c) == {r \in Requests : /\ charge[r].refunds = 2
                                   /\ charge[r].source = "top_up"
                                   /\ charge[r].credit = c}
TwiceOf(p) == {r \in Requests : charge[r].refunds = 2 /\ ProfileOf[r] = p}

\* used_this_month never bills a request that was not charged in this cycle or
\* was refunded, and falls short of the charges by no more than the refunds
\* that were not its own: those of earlier cycles that came late, and the
\* second ones. Concurrent charges, refunds, plan changes and the cron lose no
\* update.
MonthConserved == \A b \in Buckets :
  /\ row[b].used <= Cardinality(MonthCharges(b))
  /\ Cardinality(MonthCharges(b)) <= row[b].used + strayMonth[b]

\* The same for used_today, which a monthly and a top-up charge both count in.
DayConserved == \A b \in Buckets :
  /\ row[b].today <= Cardinality(DayCharges(b))
  /\ Cardinality(DayCharges(b)) <= row[b].today + strayDay[b]

\* Every credit of a batch is left, or pays for exactly one request that was
\* not refunded: a lost race, a daily stop, a refund, a re-attribution or an
\* expiry neither loses a credit nor creates one. One thing does: a request
\* refunded twice leaves the batch one credit over, and never more than one.
CreditConserved == \A c \in Credits :
  credit[c].remaining + Cardinality(Draws(c)) =
    credit[c].amount + Cardinality(TwiceDrawn(c))

\* The usage_events ledger of a person sums to the requests he is charged for,
\* less one for each that was refunded twice: the audit row and the counter
\* commit or roll back together.
LedgerConserved == \A p \in Profiles :
  events[p] = Cardinality(ChargesOf(p)) - Cardinality(TwiceOf(p))

\* A charge never takes the requests charged in one cycle past the month's
\* limit, nor those of one day past the day's, but by the refunds that came late
\* or twice, however many requests race for the last unit.
WithinLimits == \A r \in Requests, b \in Buckets :
  charge[r].source = "none" /\ charge'[r].source # "none" /\ charge'[r].bucket = b =>
    /\ charge'[r].source = "monthly" =>
         Cardinality(MonthCharges(b))' <= row'[b].monthlyLimit + strayMonth'[b]
    /\ row'[b].dailyLimit # NoLimit =>
         Cardinality(DayCharges(b))' <= row'[b].dailyLimit + strayDay'[b]
NoOverdraw == [][WithinLimits]_vars

\* decrementQuota returns: the contended top-up loop, the lazy provisioning
\* retry and the re-reads always end in a charge or a refusal.
AlwaysAnswered == \A r \in Requests : pc[r] \in Running ~> pc[r] \in Answered

=============================================================================
