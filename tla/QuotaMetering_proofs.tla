----------------------- MODULE QuotaMetering_proofs -----------------------
(* Type correctness, the conservation laws and the absence of overdraws of  *)
(* QuotaMetering, for every set of requests, persons, credits and tiers and *)
(* every bound. The laws are not inductive alone: a charge must be counted  *)
(* as often as it was made and refunded (ChargeOK), a deleted row must have *)
(* forgotten its counters (RowsOK), and a batch that was not bought cannot  *)
(* have been drawn on (Sold).                                               *)
EXTENDS QuotaMetering, FiniteSetTheorems, TLAPS

USE ProfilesAssumption, RequestsAssumption, CreditsAssumption, TiersAssumption,
    BoundsAssumption

----------------------------------------------------------------------------
(* The inductive invariant *)

Paying == {"charged", "served", "overcharged", "refunded", "refunded_twice"}
Times(label) == IF label = "refunded" THEN 1
                ELSE IF label = "refunded_twice" THEN 2 ELSE 0

ChargeOK == \A r \in Requests :
  /\ charge[r].source # "none" <=> pc[r] \in Paying
  /\ charge[r].refunds = Times(pc[r])
  /\ charge[r].source # "none" =>
       /\ charge[r].bucket \in Buckets
       /\ charge[r].cycle <= cycle[charge[r].bucket]
       /\ charge[r].day <= day[charge[r].bucket]
  /\ charge[r].source = "top_up" => charge[r].credit \in Credits
  /\ pc[r] = "take" => pick[r] \in Credits

RowsOK == \A b \in Buckets :
  ~row[b].present => row[b].used = 0 /\ row[b].today = 0

Sold == \A r \in Requests :
  charge[r].source = "top_up" => credit[charge[r].credit].amount > 0

Shape == TypeOK /\ ChargeOK /\ RowsOK
IInv == Shape /\ Sold /\ MonthConserved /\ DayConserved /\ CreditConserved
        /\ LedgerConserved

----------------------------------------------------------------------------
(* Rows keep their type *)

LEMMA RowFields ==
  ASSUME NEW x \in Row
  PROVE  /\ x.present \in BOOLEAN /\ x.monthlyLimit \in Nat /\ x.used \in Nat
         /\ x.dailyLimit \in Nat \cup {NoLimit} /\ x.today \in Nat
  BY DEF Row

LEMMA CreditFields ==
  ASSUME NEW x \in CreditRow
  PROVE  x.amount \in Nat /\ x.remaining \in Nat /\ x.profile \in Profiles \cup {Nobody}
  BY DEF CreditRow

LEMMA LimitsType ==
  ASSUME NEW x \in Row, NEW t \in Tiers, NEW b \in Buckets
  PROVE  LET y == WithLimits(x, t, b) IN
         y \in Row /\ y.used = x.used /\ y.today = x.today /\ y.present = x.present
<1>1. Role(b) \in Roles
  BY DEF Role, Roles
<1>2. MonthlyQuota[t][Role(b)] \in Nat /\ DailyQuota[t][Role(b)] \in Nat \cup {NoLimit}
  BY <1>1
<1> QED
  BY <1>2 DEF WithLimits, Row

LEMMA ClearedType ==
  ASSUME NEW x \in Row
  PROVE  LET y == Cleared(x) IN
         y \in Row /\ y.used = 0 /\ y.today = 0 /\ y.present = x.present
  BY DEF Cleared, Row

LEMMA AbsentType ==
  Absent \in Row /\ Absent.used = 0 /\ Absent.today = 0 /\ ~Absent.present
  BY DEF Absent, Row

LEMMA FreshType ==
  ASSUME NEW t \in Tiers, NEW b \in Buckets
  PROVE  LET y == Fresh(t, b) IN
         y \in Row /\ y.used = 0 /\ y.today = 0 /\ y.present
<1> DEFINE x == [Absent EXCEPT !.present = TRUE]
<1>1. x \in Row /\ x.used = 0 /\ x.today = 0 /\ x.present
  BY DEF Absent, Row
<1> HIDE DEF x
<1>2. LET y == WithLimits(x, t, b) IN
      y \in Row /\ y.used = 0 /\ y.today = 0 /\ y.present
  BY <1>1, LimitsType
<1> QED
  BY <1>2 DEF Fresh, x

\* A row with other counts, as the counting UPDATEs and the refunds leave it.
LEMMA CountsType ==
  ASSUME NEW x \in Row, NEW n \in Nat, NEW m \in Nat
  PROVE  LET y == [x EXCEPT !.used = n, !.today = m] IN
         /\ y \in Row /\ y.used = n /\ y.today = m /\ y.present = x.present
         /\ y.monthlyLimit = x.monthlyLimit /\ y.dailyLimit = x.dailyLimit
  BY DEF Row

LEMMA TodayType ==
  ASSUME NEW x \in Row, NEW m \in Nat
  PROVE  LET y == [x EXCEPT !.today = m] IN
         /\ y \in Row /\ y.used = x.used /\ y.today = m /\ y.present = x.present
         /\ y.monthlyLimit = x.monthlyLimit /\ y.dailyLimit = x.dailyLimit
  BY DEF Row

\* A credit row with other counts, past its expiry or of another owner.
LEMMA RemainingType ==
  ASSUME NEW x \in CreditRow, NEW n \in Nat
  PROVE  LET y == [x EXCEPT !.remaining = n] IN
         y \in CreditRow /\ y.remaining = n /\ y.amount = x.amount
  BY DEF CreditRow

LEMMA ExpiredType ==
  ASSUME NEW x \in CreditRow
  PROVE  LET y == [x EXCEPT !.expired = TRUE] IN
         y \in CreditRow /\ y.remaining = x.remaining /\ y.amount = x.amount
  BY DEF CreditRow

LEMMA ProfileType ==
  ASSUME NEW x \in CreditRow, NEW p \in Profiles \cup {Nobody}
  PROVE  LET y == [x EXCEPT !.profile = p] IN
         y \in CreditRow /\ y.remaining = x.remaining /\ y.amount = x.amount
  BY DEF CreditRow

LEMMA DecType == ASSUME NEW n \in Nat PROVE Dec(n) \in Nat
  BY DEF Dec

LEMMA TargetType ==
  ASSUME TypeOK, NEW r \in Requests
  PROVE  Target(r) \in Buckets /\ tierOf[r] \in Tiers /\ EffectiveTier \in Tiers
  BY DEF TypeOK, Target, Buckets, EffectiveTier

LEMMA ClampedType ==
  ASSUME TypeOK, NEW r \in Requests
  PROVE  LET x == Clamped(r)
             y == row[Target(r)] IN
         x \in Row /\ x.used = y.used /\ x.today = y.today /\ x.present = y.present
<1>1. Target(r) \in Buckets /\ tierOf[r] \in Tiers /\ row[Target(r)] \in Row
  BY TargetType DEF TypeOK
<1>2. LET x == WithLimits(row[Target(r)], tierOf[r], Target(r))
          y == row[Target(r)] IN
      x \in Row /\ x.used = y.used /\ x.today = y.today /\ x.present = y.present
  BY <1>1, LimitsType
<1> QED
  BY <1>1, <1>2 DEF Clamped

----------------------------------------------------------------------------
(* TypeOK, action by action *)

LEMMA DecrementType ==
  ASSUME TypeOK, ChargeOK, NEW r \in Requests, Decrement(r)
  PROVE  TypeOK'
<1> DEFINE b == Target(r)
<1>0. /\ b \in Buckets /\ tierOf[r] \in Tiers /\ EffectiveTier \in Tiers
      /\ ProfileOf[r] \in Profiles /\ row[b] \in Row
  BY TargetType DEF TypeOK
<1>c. ASSUME NEW source \in {"monthly", "top_up"}, NEW c \in Credits \cup {NoCredit},
             Charge(r, source, c)
      PROVE  /\ pc' \in [Requests -> {"idle"} \cup Running \cup Answered]
             /\ charge' \in [Requests -> ChargeRecord]
             /\ events' \in [Profiles -> Int]
  BY <1>0, <1>c DEF Charge, Goto, ChargedTo, TypeOK, Answered, ChargeRecord
<1>1. CASE Begin(r)
  BY <1>0, <1>1 DEF Begin, TypeOK, Goto, sub, history, bounds, Running, Answered, Refused
<1>2. CASE ChargeMonthly(r)
  <2>1. /\ Clamped(r) \in Row
        /\ Clamped(r).used + 1 \in Nat /\ Clamped(r).today + 1 \in Nat
    BY ClampedType DEF Row
  <2>2. [Clamped(r) EXCEPT !.used = @ + 1, !.today = @ + 1] \in Row
    BY <2>1, CountsType
  <2>3. row' \in [Buckets -> Row]
    BY <1>0, <1>2, <2>2 DEF ChargeMonthly, TypeOK
  <2> QED
    BY <1>c, <1>2, <2>3 DEF ChargeMonthly, TypeOK, sub, history, bounds
<1>3. CASE MissMonthly(r)
  <2>1. row' \in [Buckets -> Row]
    BY <1>0, <1>3, ClampedType DEF MissMonthly, TypeOK
  <2> QED
    BY <1>3, <2>1 DEF MissMonthly, TypeOK, Goto, sub, history, bounds, Running
<1>4. CASE Classify(r)
  <2>1. Verdict(r, row[b]) \in Running \cup Answered
    BY DEF Verdict, Running, Answered, Refused
  <2> QED
    BY <1>4, <2>1 DEF Classify, TypeOK, Goto, sub, history, bounds
<1>5. CASE Provision(r)
  <2>1. Fresh(tierOf[r], b) \in Row
    BY <1>0, FreshType
  <2>2. row' \in [Buckets -> Row]
    BY <1>0, <1>5, <2>1 DEF Provision, TypeOK
  <2> QED
    BY <1>5, <2>2 DEF Provision, TypeOK, Goto, sub, history, bounds, Running
<1>6. CASE SelectCredit(r)
  <2>1. Eligible(r) \subseteq Credits
    BY DEF Eligible
  <2>2. pc' \in [Requests -> {"idle"} \cup Running \cup Answered]
    <3>1. CASE Eligible(r) = {}
      BY <1>6, <3>1 DEF SelectCredit, Goto, TypeOK, Running, Answered, Refused
    <3>2. CASE Eligible(r) # {}
      BY <1>6, <3>2 DEF SelectCredit, Goto, TypeOK, Running
    <3> QED
      BY <3>1, <3>2
  <2>3. pick' \in [Requests -> Credits \cup {NoCredit}]
    BY <1>6, <2>1 DEF SelectCredit, TypeOK
  <2> QED
    BY <1>6, <2>2, <2>3 DEF SelectCredit, TypeOK, sub, history, bounds
<1>7. CASE Reread(r)
  BY <1>7 DEF Reread, TypeOK, Goto, sub, history, bounds, Answered, Refused
<1>8. CASE LoseCredit(r)
  <2>1. pick[r] \in Credits
    BY <1>8 DEF LoseCredit, At, ChargeOK
  <2> QED
    BY <1>8, <2>1 DEF LoseCredit, TypeOK, Goto, sub, history, bounds, Running
<1>9. CASE TakeCredit(r)
  <2>1. pick[r] \in Credits /\ credit[pick[r]].remaining > 0
    BY <1>9 DEF TakeCredit, At, ChargeOK
  <2>2. CASE DailyRoom(row[b])
    <3>1. [row[b] EXCEPT !.today = @ + 1] \in Row
      <4>1. row[b].today + 1 \in Nat
        BY <1>0, RowFields
      <4> QED
        BY <1>0, <4>1, TodayType
    <3>2. row' \in [Buckets -> Row]
      BY <1>0, <1>9, <2>2, <3>1 DEF TakeCredit, TypeOK
    <3>3. credit' \in [Credits -> CreditRow]
      <4> DEFINE c == pick[r]
      <4>1. credit[c] \in CreditRow
        BY <2>1 DEF TypeOK
      <4>2. credit[c].remaining - 1 \in Nat
        BY <2>1, <4>1, CreditFields
      <4>3. [credit[c] EXCEPT !.remaining = @ - 1] \in CreditRow
        BY <4>1, <4>2, RemainingType
      <4> QED
        BY <1>9, <2>1, <2>2, <4>3 DEF TakeCredit, TypeOK
    <3>4. Charge(r, "top_up", pick[r])
      BY <1>9, <2>2 DEF TakeCredit
    <3> QED
      BY <1>9, <1>c, <2>1, <3>2, <3>3, <3>4 DEF TakeCredit, TypeOK, sub, history, bounds
  <2>3. CASE ~DailyRoom(row[b])
    BY <1>9, <2>3 DEF TakeCredit, TypeOK, Goto, sub, history, bounds, Answered, Refused
  <2> QED
    BY <2>2, <2>3
<1> QED
  BY <1>1, <1>2, <1>3, <1>4, <1>5, <1>6, <1>7, <1>8, <1>9 DEF Decrement

----------------------------------------------------------------------------
(* What the refunds, the cron and the plan changes leave in the rows *)

LEMMA GiveBackType ==
  ASSUME TypeOK, NEW b \in Buckets, NEW k \in ChargeRecord, NEW monthly \in BOOLEAN,
         GiveBackSlot(b, k, monthly)
  PROVE  /\ row' \in [Buckets -> Row]
         /\ strayMonth' \in [Buckets -> Nat] /\ strayDay' \in [Buckets -> Nat]
         /\ row'[b].used = IF monthly THEN Dec(row[b].used) ELSE row[b].used
         /\ row'[b].today = Dec(row[b].today)
         /\ row'[b].present = row[b].present
         /\ \A x \in Buckets \ {b} : /\ row'[x] = row[x]
                                     /\ strayMonth'[x] = strayMonth[x]
                                     /\ strayDay'[x] = strayDay[x]
<1> DEFINE n == IF monthly THEN Dec(row[b].used) ELSE row[b].used
           m == Dec(row[b].today)
           x == row[b]
           y == [x EXCEPT !.used = n, !.today = m]
<1>1. x \in Row
  BY DEF TypeOK
<1>2. row[b].used \in Nat /\ row[b].today \in Nat
  BY <1>1, RowFields
<1>3. n \in Nat /\ m \in Nat
  BY <1>2, DecType
<1> HIDE DEF n, m, x
<1>4. /\ y \in Row /\ y.used = n /\ y.today = m /\ y.present = x.present
  BY <1>1, <1>3 DEF Row
<1>5. row' = [row EXCEPT ![b] = y]
  BY DEF GiveBackSlot, n, m, x, TypeOK
<1>6. row' \in [Buckets -> Row] /\ row'[b] = y
  BY <1>4, <1>5 DEF TypeOK
<1>7. strayMonth' \in [Buckets -> Nat] /\ strayDay' \in [Buckets -> Nat]
  BY DEF GiveBackSlot, TypeOK
<1>8. \A z \in Buckets \ {b} : /\ row'[z] = row[z]
                               /\ strayMonth'[z] = strayMonth[z]
                               /\ strayDay'[z] = strayDay[z]
  BY DEF GiveBackSlot, TypeOK
<1> QED
  BY <1>4, <1>6, <1>7, <1>8 DEF n, m, x

\* A shared tier deletes the profile rows; every other counter is kept.
LEMMA ReconciledRows ==
  ASSUME TypeOK, RowsOK, NEW t \in Tiers, NEW first
  PROVE  /\ Reconciled(t, first) \in [Buckets -> Row]
         /\ \A b \in Buckets : LET y == Reconciled(t, first)[b] IN
              /\ y.used = IF b # Pool /\ t \in Shared THEN 0 ELSE row[b].used
              /\ y.today = IF b # Pool /\ t \in Shared THEN 0 ELSE row[b].today
              /\ ~y.present => y.used = 0 /\ y.today = 0
<1> DEFINE R == Reconciled(t, first)
<1>1. ASSUME NEW b \in Buckets
      PROVE  /\ R[b] \in Row
             /\ R[b].used = IF b # Pool /\ t \in Shared THEN 0 ELSE row[b].used
             /\ R[b].today = IF b # Pool /\ t \in Shared THEN 0 ELSE row[b].today
             /\ ~R[b].present => R[b].used = 0 /\ R[b].today = 0
  <2>1. /\ row[b] \in Row
        /\ ~row[b].present => row[b].used = 0 /\ row[b].today = 0
    BY DEF TypeOK, RowsOK
  <2>2. CASE t \in Shared /\ b = Pool
    <3> DEFINE x == [row[b] EXCEPT !.present = TRUE]
    <3>1. x \in Row /\ x.used = row[b].used /\ x.today = row[b].today /\ x.present
      BY <2>1 DEF Row
    <3> HIDE DEF x
    <3>2. LET y == WithLimits(x, t, b) IN
          y \in Row /\ y.used = x.used /\ y.today = x.today /\ y.present = x.present
      BY <3>1, LimitsType
    <3>3. R[b] = WithLimits(x, t, b)
      BY <2>2 DEF Reconciled, x
    <3> QED
      BY <2>2, <3>1, <3>2, <3>3
  <2>3. CASE t \in Shared /\ b # Pool
    <3>1. R[b] = Absent
      BY <2>3 DEF Reconciled
    <3> QED
      BY <2>3, <3>1, AbsentType
  <2>4. CASE t \notin Shared /\ b = Pool
    <3>1. R[b] = row[b]
      BY <2>4 DEF Reconciled
    <3> QED
      BY <2>1, <2>4, <3>1
  <2>5. CASE t \notin Shared /\ b # Pool /\ row[b].present
    <3>1. R[b] = WithLimits(row[b], t, b)
      BY <2>5 DEF Reconciled
    <3>2. LET y == WithLimits(row[b], t, b) IN
          /\ y \in Row /\ y.used = row[b].used /\ y.today = row[b].today
          /\ y.present = row[b].present
      BY <2>1, LimitsType
    <3> QED
      BY <2>5, <3>1, <3>2
  <2>6. CASE t \notin Shared /\ b # Pool /\ ~row[b].present
    <3>1. R[b] = Fresh(t, b) \/ R[b] = Absent
      BY <2>6 DEF Reconciled
    <3> QED
      BY <2>1, <2>6, <3>1, AbsentType, FreshType
  <2> QED
    BY <2>2, <2>3, <2>4, <2>5, <2>6
<1>2. R = [b \in Buckets |-> R[b]]
  BY DEF Reconciled
<1> HIDE DEF R
<1>3. R \in [Buckets -> Row]
  BY <1>1, <1>2
<1> QED
  BY <1>1, <1>3 DEF R

\* Whether ChangePlan restarts the counters of a bucket.
Again(t, anchor, b) == IF b = Pool THEN anchor ELSE t \in Shared

LEMMA PlanRows ==
  ASSUME TypeOK, RowsOK, NEW t \in Tiers, NEW anchor \in BOOLEAN, NEW via, NEW first,
         ChangePlan(t, via, anchor, first)
  PROVE  /\ row' \in [Buckets -> Row]
         /\ \A b \in Buckets :
              /\ row'[b].used = IF Again(t, anchor, b) THEN 0 ELSE row[b].used
              /\ row'[b].today = IF Again(t, anchor, b) THEN 0 ELSE row[b].today
              /\ ~row'[b].present => row'[b].used = 0 /\ row'[b].today = 0
<1> DEFINE R == Reconciled(t, first)
           A == Reanchored(R, anchor)
<1>0. Pool \in Buckets
  BY DEF Buckets
<1>1. /\ R \in [Buckets -> Row]
      /\ \A b \in Buckets :
           /\ R[b].used = IF b # Pool /\ t \in Shared THEN 0 ELSE row[b].used
           /\ R[b].today = IF b # Pool /\ t \in Shared THEN 0 ELSE row[b].today
           /\ ~R[b].present => R[b].used = 0 /\ R[b].today = 0
  BY ReconciledRows
<1>2. LET y == Cleared(R[Pool]) IN
      y \in Row /\ y.used = 0 /\ y.today = 0 /\ y.present = R[Pool].present
  BY <1>0, <1>1, ClearedType
<1> HIDE DEF R
<1>3. /\ A \in [Buckets -> Row]
      /\ \A b \in Buckets :
           /\ A[b].used = IF Again(t, anchor, b) THEN 0 ELSE row[b].used
           /\ A[b].today = IF Again(t, anchor, b) THEN 0 ELSE row[b].today
           /\ ~A[b].present => A[b].used = 0 /\ A[b].today = 0
  <2>1. CASE anchor
    <3>1. A = [R EXCEPT ![Pool] = Cleared(R[Pool])]
      BY <1>1, <2>1 DEF Reanchored
    <3>2. A \in [Buckets -> Row] /\ A[Pool] = Cleared(R[Pool])
      BY <1>0, <1>1, <1>2, <3>1
    <3>3. \A b \in Buckets \ {Pool} : A[b] = R[b]
      BY <1>1, <3>1
    <3> HIDE DEF A
    <3> QED
      BY <1>1, <1>2, <2>1, <3>2, <3>3 DEF Again
  <2>2. CASE ~anchor
    BY <1>1, <2>2 DEF Reanchored, Again
  <2> QED
    BY <2>1, <2>2
<1> HIDE DEF A
<1>4. LET y == WithLimits(A[Pool], t, Pool) IN
      /\ y \in Row /\ y.used = A[Pool].used /\ y.today = A[Pool].today
      /\ y.present = A[Pool].present
  BY <1>0, <1>3, LimitsType
<1>5. row' = A \/ row' = [A EXCEPT ![Pool] = WithLimits(A[Pool], t, Pool)]
  BY <1>3 DEF ChangePlan, A, R
<1>6. CASE row' = [A EXCEPT ![Pool] = WithLimits(A[Pool], t, Pool)]
  <2>1. row' \in [Buckets -> Row] /\ row'[Pool] = WithLimits(A[Pool], t, Pool)
    BY <1>0, <1>3, <1>4, <1>6
  <2>2. \A b \in Buckets \ {Pool} : row'[b] = A[b]
    BY <1>3, <1>6
  <2> QED
    BY <1>3, <1>4, <2>1, <2>2
<1> QED
  BY <1>3, <1>5, <1>6

LEMMA ResetRows ==
  ASSUME TypeOK, RowsOK, NEW due \in SUBSET Buckets, QuotaReset(due)
  PROVE  /\ row' \in [Buckets -> Row]
         /\ \A b \in Buckets :
              /\ row'[b].used = IF b \in due THEN 0 ELSE row[b].used
              /\ row'[b].today = 0
              /\ ~row'[b].present => row'[b].used = 0 /\ row'[b].today = 0
<1>1. ASSUME NEW b \in Buckets
      PROVE  /\ row'[b] \in Row
             /\ row'[b].used = IF b \in due THEN 0 ELSE row[b].used
             /\ row'[b].today = 0
             /\ ~row'[b].present => row'[b].used = 0
  <2>1. /\ row[b] \in Row /\ plan \in Tiers
        /\ ~row[b].present => row[b].used = 0
    BY DEF TypeOK, RowsOK
  <2>2. CASE b \notin due
    <3> DEFINE x == row[b]
    <3>1. row'[b] = [x EXCEPT !.today = 0]
      BY <2>2 DEF QuotaReset
    <3>2. x \in Row
      BY <2>1
    <3>3. ~x.present => x.used = 0
      BY <2>1
    <3> HIDE DEF x
    <3>4. LET y == [x EXCEPT !.today = 0] IN
          y \in Row /\ y.used = x.used /\ y.today = 0 /\ y.present = x.present
      BY <3>2, TodayType
    <3> QED
      BY <2>2, <3>1, <3>3, <3>4 DEF x
  <2>3. CASE b \in due /\ b = Pool
    <3> DEFINE x == WithLimits(row[b], plan, b)
    <3>1. x \in Row
      BY <2>1, <2>3, LimitsType
    <3>2. row'[b] = Cleared(x)
      BY <2>3 DEF QuotaReset
    <3> HIDE DEF x
    <3> QED
      BY <2>3, <3>1, <3>2, ClearedType
  <2>4. CASE b \in due /\ b # Pool
    <3>1. row'[b] = Cleared(row[b])
      BY <2>4 DEF QuotaReset
    <3> QED
      BY <2>1, <2>4, <3>1, ClearedType
  <2> QED
    BY <2>2, <2>3, <2>4
<1>2. row' = [b \in Buckets |-> row'[b]]
  BY DEF QuotaReset
<1> QED
  BY <1>1, <1>2

\* Re-attribution moves credits between owners, never counts.
LEMMA ReattributedRows ==
  ASSUME TypeOK, NEW t \in Tiers
  PROVE  /\ Reattributed(t) \in [Credits -> CreditRow]
         /\ \A c \in Credits : /\ Reattributed(t)[c].remaining = credit[c].remaining
                               /\ Reattributed(t)[c].amount = credit[c].amount
<1> DEFINE R == Reattributed(t)
<1>1. ASSUME NEW c \in Credits
      PROVE  /\ R[c] \in CreditRow
             /\ R[c].remaining = credit[c].remaining /\ R[c].amount = credit[c].amount
  <2> DEFINE p == IF t \in Shared THEN Nobody
                  ELSE IF credit[c].profile = Nobody THEN Owner ELSE credit[c].profile
  <2>1. credit[c] \in CreditRow
    BY DEF TypeOK
  <2>2. p \in Profiles \cup {Nobody}
    BY <2>1, CreditFields
  <2> HIDE DEF p
  <2>3. LET y == [credit[c] EXCEPT !.profile = p] IN
        y \in CreditRow /\ y.remaining = credit[c].remaining /\ y.amount = credit[c].amount
    BY <2>1, <2>2, ProfileType
  <2>4. R[c] = credit[c] \/ R[c] = [credit[c] EXCEPT !.profile = p]
    BY DEF Reattributed, p
  <2> HIDE DEF R
  <2> QED
    BY <2>1, <2>3, <2>4
<1>2. R = [c \in Credits |-> R[c]]
  BY DEF Reattributed
<1> QED
  BY <1>1, <1>2

----------------------------------------------------------------------------
(* What a charge and a refund do to the sets of charges *)

LEMMA CountOf ==
  ASSUME NEW S \in SUBSET Requests, NEW r \in Requests
  PROVE  /\ Cardinality(S) \in Nat
         /\ r \notin S => Cardinality(S \cup {r}) = Cardinality(S) + 1
         /\ r \in S => Cardinality(S \ {r}) = Cardinality(S) - 1 /\ Cardinality(S) > 0
         /\ r \notin S => S \ {r} = S
<1>1. IsFiniteSet(S)
  BY FS_Subset DEF RequestsAssumption
<1>2. Cardinality(S) \in Nat
  BY <1>1, FS_CardinalityType
<1>3. r \notin S => Cardinality(S \cup {r}) = Cardinality(S) + 1
  BY <1>1, FS_AddElement
<1>4. ASSUME r \in S
      PROVE  Cardinality(S \ {r}) = Cardinality(S) - 1 /\ Cardinality(S) > 0
  <2>1. Cardinality(S \ {r}) = Cardinality(S) - 1
    BY <1>1, <1>4, FS_RemoveElement
  <2>2. Cardinality(S) # 0
    BY <1>1, <1>4, FS_EmptySet
  <2> QED
    BY <1>2, <2>1, <2>2
<1> QED
  BY <1>2, <1>3, <1>4

LEMMA SizeOf ==
  ASSUME NEW S \in SUBSET Requests
  PROVE  Cardinality(S) \in Nat
  BY FS_Subset, FS_CardinalityType DEF RequestsAssumption

LEMMA ChargeSets ==
  ASSUME TypeOK, NEW r \in Requests, charge[r].source = "none",
         NEW k \in ChargeRecord, charge' = [charge EXCEPT ![r] = k],
         cycle' = cycle, day' = day,
         k.cycle = cycle[k.bucket], k.day = day[k.bucket], k.source # "none",
         k.refunds = 0, charge[r].refunds = 0
  PROVE  /\ \A b \in Buckets :
              /\ r \notin MonthCharges(b) /\ r \notin DayCharges(b)
              /\ MonthCharges(b)' = IF k.source = "monthly" /\ k.bucket = b
                                    THEN MonthCharges(b) \cup {r} ELSE MonthCharges(b)
              /\ DayCharges(b)' = IF k.bucket = b
                                  THEN DayCharges(b) \cup {r} ELSE DayCharges(b)
         /\ \A c \in Credits :
              /\ r \notin Draws(c)
              /\ Draws(c)' = IF k.source = "top_up" /\ k.credit = c
                             THEN Draws(c) \cup {r} ELSE Draws(c)
              /\ TwiceDrawn(c)' = TwiceDrawn(c)
         /\ \A p \in Profiles :
              /\ TwiceOf(p)' = TwiceOf(p)
              /\ r \notin ChargesOf(p)
              /\ ChargesOf(p)' = IF ProfileOf[r] = p
                                 THEN ChargesOf(p) \cup {r} ELSE ChargesOf(p)
<1>1. charge'[r] = k /\ \A q \in Requests \ {r} : charge'[q] = charge[q]
  BY DEF TypeOK
<1>2. \A b \in Buckets : MonthCharges(b)' =
        IF k.source = "monthly" /\ k.bucket = b
        THEN MonthCharges(b) \cup {r} ELSE MonthCharges(b)
  BY <1>1 DEF MonthCharges, Outstanding
<1>3. \A b \in Buckets : DayCharges(b)' =
        IF k.bucket = b THEN DayCharges(b) \cup {r} ELSE DayCharges(b)
  BY <1>1 DEF DayCharges, Outstanding
<1>4. \A c \in Credits : Draws(c)' =
        IF k.source = "top_up" /\ k.credit = c THEN Draws(c) \cup {r} ELSE Draws(c)
  BY <1>1 DEF Draws, Outstanding
<1>5. \A p \in Profiles : ChargesOf(p)' =
        IF ProfileOf[r] = p THEN ChargesOf(p) \cup {r} ELSE ChargesOf(p)
  BY <1>1 DEF ChargesOf, Outstanding
<1>6. \A b \in Buckets : r \notin MonthCharges(b) /\ r \notin DayCharges(b)
  BY DEF MonthCharges, DayCharges, Outstanding
<1>7. (\A c \in Credits : r \notin Draws(c)) /\ (\A p \in Profiles : r \notin ChargesOf(p))
  BY DEF Draws, ChargesOf, Outstanding
<1>8. /\ \A c \in Credits : TwiceDrawn(c)' = TwiceDrawn(c)
      /\ \A p \in Profiles : TwiceOf(p)' = TwiceOf(p)
  BY <1>1 DEF TwiceDrawn, TwiceOf
<1> QED
  BY <1>2, <1>3, <1>4, <1>5, <1>6, <1>7, <1>8

LEMMA RefundSets ==
  ASSUME TypeOK, NEW r \in Requests, charge[r].refunds \in {0, 1},
         charge' = [charge EXCEPT ![r].refunds = @ + 1],
         cycle' = cycle, day' = day
  PROVE  /\ \A b \in Buckets : /\ MonthCharges(b)' = MonthCharges(b) \ {r}
                               /\ DayCharges(b)' = DayCharges(b) \ {r}
         /\ \A c \in Credits :
              /\ Draws(c)' = Draws(c) \ {r}
              /\ TwiceDrawn(c)' = IF /\ charge[r].refunds = 1
                                     /\ charge[r].source = "top_up"
                                     /\ charge[r].credit = c
                                  THEN TwiceDrawn(c) \cup {r} ELSE TwiceDrawn(c)
         /\ \A p \in Profiles :
              /\ ChargesOf(p)' = ChargesOf(p) \ {r}
              /\ TwiceOf(p)' = IF charge[r].refunds = 1 /\ ProfileOf[r] = p
                               THEN TwiceOf(p) \cup {r} ELSE TwiceOf(p)
<1>1. /\ charge'[r].refunds = charge[r].refunds + 1
      /\ charge'[r].source = charge[r].source /\ charge'[r].credit = charge[r].credit
      /\ \A q \in Requests \ {r} : charge'[q] = charge[q]
  BY DEF TypeOK, ChargeRecord
<1>2. \A b \in Buckets : MonthCharges(b)' = MonthCharges(b) \ {r}
  BY <1>1 DEF MonthCharges, Outstanding
<1>3. \A b \in Buckets : DayCharges(b)' = DayCharges(b) \ {r}
  BY <1>1 DEF DayCharges, Outstanding
<1>4. \A c \in Credits : Draws(c)' = Draws(c) \ {r}
  BY <1>1 DEF Draws, Outstanding
<1>5. \A p \in Profiles : ChargesOf(p)' = ChargesOf(p) \ {r}
  BY <1>1 DEF ChargesOf, Outstanding
<1>6. \A c \in Credits : TwiceDrawn(c)' =
        IF charge[r].refunds = 1 /\ charge[r].source = "top_up" /\ charge[r].credit = c
        THEN TwiceDrawn(c) \cup {r} ELSE TwiceDrawn(c)
  BY <1>1 DEF TwiceDrawn
<1>7. \A p \in Profiles : TwiceOf(p)' =
        IF charge[r].refunds = 1 /\ ProfileOf[r] = p
        THEN TwiceOf(p) \cup {r} ELSE TwiceOf(p)
  BY <1>1 DEF TwiceOf
<1> QED
  BY <1>2, <1>3, <1>4, <1>5, <1>6, <1>7

\* The sets hold requests only; a restarted bucket has no charge in its epoch.
LEMMA SetsOfRequests ==
  /\ \A b : MonthCharges(b) \subseteq Requests /\ DayCharges(b) \subseteq Requests
  /\ \A c : Draws(c) \subseteq Requests /\ TwiceDrawn(c) \subseteq Requests
  /\ \A p : ChargesOf(p) \subseteq Requests /\ TwiceOf(p) \subseteq Requests
  BY DEF MonthCharges, DayCharges, Draws, ChargesOf, TwiceDrawn, TwiceOf

LEMMA RestartSets ==
  ASSUME Shape, UNCHANGED charge, NEW b \in Buckets
  PROVE  /\ cycle'[b] = cycle[b] + 1 => MonthCharges(b)' = {}
         /\ day'[b] = day[b] + 1 => DayCharges(b)' = {}
         /\ cycle'[b] = cycle[b] => MonthCharges(b)' = MonthCharges(b)
         /\ day'[b] = day[b] => DayCharges(b)' = DayCharges(b)
<1>0. cycle[b] \in Nat /\ day[b] \in Nat
  BY DEF Shape, TypeOK
<1>1. \A q \in Requests : charge[q].cycle \in Nat /\ charge[q].day \in Nat
  BY DEF Shape, TypeOK, ChargeRecord
<1>2. ASSUME cycle'[b] = cycle[b] + 1, NEW q \in Requests, q \in MonthCharges(b)'
      PROVE  FALSE
  <2>1. charge[q].source # "none" /\ charge[q].bucket = b /\ charge[q].cycle = cycle[b] + 1
    BY <1>2 DEF MonthCharges, Outstanding
  <2>2. charge[q].cycle <= cycle[b]
    BY <2>1 DEF Shape, ChargeOK
  <2> QED
    BY <1>0, <2>1, <2>2
<1>3. ASSUME day'[b] = day[b] + 1, NEW q \in Requests, q \in DayCharges(b)'
      PROVE  FALSE
  <2>1. charge[q].source # "none" /\ charge[q].bucket = b /\ charge[q].day = day[b] + 1
    BY <1>3 DEF DayCharges, Outstanding
  <2>2. charge[q].day <= day[b]
    BY <2>1 DEF Shape, ChargeOK
  <2> QED
    BY <1>0, <2>1, <2>2
<1>4. cycle'[b] = cycle[b] => MonthCharges(b)' = MonthCharges(b)
  BY DEF MonthCharges, Outstanding
<1>5. day'[b] = day[b] => DayCharges(b)' = DayCharges(b)
  BY DEF DayCharges, Outstanding
<1> QED
  BY <1>2, <1>3, <1>4, <1>5 DEF MonthCharges, DayCharges

----------------------------------------------------------------------------
(* The conservation laws, by what a step does to the counters *)

Conserved == Sold /\ MonthConserved /\ DayConserved /\ CreditConserved
             /\ LedgerConserved

\* Steps that touch no count: routing, limits, tiers, members, expiry.
LEMMA QuietStep ==
  ASSUME Shape, Conserved, UNCHANGED <<charge, events, history>>,
         \A b \in Buckets : row'[b].used = row[b].used /\ row'[b].today = row[b].today,
         \A c \in Credits : /\ credit'[c].remaining = credit[c].remaining
                            /\ credit'[c].amount = credit[c].amount
  PROVE  Conserved'
<1>0. \A r \in Requests : charge[r].source = "top_up" => charge[r].credit \in Credits
  BY DEF Shape, ChargeOK
<1>1. \A b : MonthCharges(b)' = MonthCharges(b) /\ DayCharges(b)' = DayCharges(b)
  BY DEF MonthCharges, DayCharges, Outstanding, history
<1>2. \A c : Draws(c)' = Draws(c) /\ TwiceDrawn(c)' = TwiceDrawn(c)
  BY DEF Draws, TwiceDrawn, Outstanding
<1>3. \A p : ChargesOf(p)' = ChargesOf(p) /\ TwiceOf(p)' = TwiceOf(p)
  BY DEF ChargesOf, TwiceOf, Outstanding
<1>4. MonthConserved' /\ DayConserved'
  BY <1>1 DEF Conserved, MonthConserved, DayConserved, history
<1>5. CreditConserved'
  BY <1>2 DEF Conserved, CreditConserved
<1>6. LedgerConserved'
  BY <1>3 DEF Conserved, LedgerConserved
<1>7. Sold'
  BY <1>0 DEF Conserved, Sold
<1> QED
  BY <1>4, <1>5, <1>6, <1>7 DEF Conserved

LEMMA TransferSum ==
  ASSUME NEW m \in Nat, NEW n \in Nat
  PROVE  (m - 1) + (n + 1) = m + n /\ (n + 1) + (m - 1) = n + m
  OBVIOUS

\* What is left of a batch was bought: nothing was drawn on one that was not.
LEMMA BoughtFirst ==
  ASSUME Shape, Conserved, NEW c \in Credits
  PROVE  /\ credit[c].amount = 0 =>
              Draws(c) = {} /\ TwiceDrawn(c) = {} /\ credit[c].remaining = 0
         /\ credit[c].remaining > 0 => credit[c].amount > 0
<1>1. credit[c].amount \in Nat /\ credit[c].remaining \in Nat
  BY CreditFields DEF Shape, TypeOK
<1>2. ASSUME credit[c].amount = 0
      PROVE  Draws(c) = {} /\ TwiceDrawn(c) = {} /\ credit[c].remaining = 0
  <2>1. \A q \in Requests : ~(charge[q].source = "top_up" /\ charge[q].credit = c)
    BY <1>2 DEF Conserved, Sold
  <2>2. Draws(c) = {} /\ TwiceDrawn(c) = {}
    BY <2>1 DEF Draws, TwiceDrawn
  <2>3. Cardinality(Draws(c)) = 0 /\ Cardinality(TwiceDrawn(c)) = 0
    BY <2>2, FS_EmptySet
  <2>4. credit[c].remaining + Cardinality(Draws(c)) =
          credit[c].amount + Cardinality(TwiceDrawn(c))
    BY DEF Conserved, CreditConserved
  <2> QED
    BY <1>1, <1>2, <2>2, <2>3, <2>4
<1> QED
  BY <1>1, <1>2

\* A charge adds its request to the sets and one unit to each counter.
LEMMA ChargeStep ==
  ASSUME Shape, Conserved, NEW r \in Requests, charge[r].source = "none",
         NEW source \in {"monthly", "top_up"}, NEW c \in Credits \cup {NoCredit},
         source = "top_up" => c \in Credits /\ credit[c].remaining > 0,
         Charge(r, source, c), UNCHANGED history,
         \A b \in Buckets :
           /\ row'[b].used = row[b].used +
                (IF source = "monthly" /\ b = Target(r) THEN 1 ELSE 0)
           /\ row'[b].today = row[b].today + (IF b = Target(r) THEN 1 ELSE 0),
         \A d \in Credits :
           /\ credit'[d].amount = credit[d].amount
           /\ credit'[d].remaining = credit[d].remaining -
                (IF source = "top_up" /\ d = c THEN 1 ELSE 0)
  PROVE  Conserved'
<1> DEFINE k == ChargedTo(Target(r), source, c)
<1>1. /\ k \in ChargeRecord /\ k.source = source /\ k.bucket = Target(r)
      /\ k.credit = c /\ k.cycle = cycle[Target(r)] /\ k.day = day[Target(r)]
      /\ k.refunds = 0
  BY TargetType DEF Shape, TypeOK, ChargedTo, ChargeRecord
<1>2. charge' = [charge EXCEPT ![r] = k]
  BY DEF Charge
<1> HIDE DEF k
<1>3. /\ \A b \in Buckets :
           /\ r \notin MonthCharges(b) /\ r \notin DayCharges(b)
           /\ MonthCharges(b)' = IF source = "monthly" /\ Target(r) = b
                                 THEN MonthCharges(b) \cup {r} ELSE MonthCharges(b)
           /\ DayCharges(b)' = IF Target(r) = b
                               THEN DayCharges(b) \cup {r} ELSE DayCharges(b)
      /\ \A d \in Credits :
           /\ r \notin Draws(d)
           /\ Draws(d)' = IF source = "top_up" /\ c = d
                          THEN Draws(d) \cup {r} ELSE Draws(d)
           /\ TwiceDrawn(d)' = TwiceDrawn(d)
      /\ \A p \in Profiles :
           /\ TwiceOf(p)' = TwiceOf(p)
           /\ r \notin ChargesOf(p)
           /\ ChargesOf(p)' = IF ProfileOf[r] = p
                              THEN ChargesOf(p) \cup {r} ELSE ChargesOf(p)
  <2>0. charge[r].refunds = 0
    <3>1. pc[r] \notin Paying
      BY DEF Shape, ChargeOK
    <3> QED
      BY <3>1 DEF Shape, ChargeOK, Times, Paying
  <2>1. /\ TypeOK /\ cycle' = cycle /\ day' = day /\ k.source # "none"
        /\ k \in ChargeRecord /\ k.cycle = cycle[k.bucket] /\ k.day = day[k.bucket]
        /\ k.refunds = 0
    BY <1>1 DEF Shape, history
  <2>2. /\ \A b \in Buckets :
             /\ r \notin MonthCharges(b) /\ r \notin DayCharges(b)
             /\ MonthCharges(b)' = IF k.source = "monthly" /\ k.bucket = b
                                   THEN MonthCharges(b) \cup {r} ELSE MonthCharges(b)
             /\ DayCharges(b)' = IF k.bucket = b
                                 THEN DayCharges(b) \cup {r} ELSE DayCharges(b)
        /\ \A d \in Credits :
             /\ r \notin Draws(d)
             /\ Draws(d)' = IF k.source = "top_up" /\ k.credit = d
                            THEN Draws(d) \cup {r} ELSE Draws(d)
             /\ TwiceDrawn(d)' = TwiceDrawn(d)
        /\ \A p \in Profiles :
             /\ TwiceOf(p)' = TwiceOf(p)
             /\ r \notin ChargesOf(p)
             /\ ChargesOf(p)' = IF ProfileOf[r] = p
                                THEN ChargesOf(p) \cup {r} ELSE ChargesOf(p)
    BY <1>2, <2>0, <2>1, ChargeSets
  <2>3. k.source = source /\ k.bucket = Target(r) /\ k.credit = c
    BY <1>1
  <2> QED
    BY <2>2, <2>3
<1>4. MonthConserved'
  <2> SUFFICES ASSUME NEW b \in Buckets
               PROVE  /\ row'[b].used <= Cardinality(MonthCharges(b)')
                      /\ Cardinality(MonthCharges(b)') <= row'[b].used + strayMonth'[b]
    BY DEF MonthConserved
  <2>1. /\ Cardinality(MonthCharges(b)) \in Nat
        /\ Cardinality(MonthCharges(b) \cup {r}) = Cardinality(MonthCharges(b)) + 1
    BY <1>3, SetsOfRequests, CountOf
  <2>2. /\ row[b].used <= Cardinality(MonthCharges(b))
        /\ Cardinality(MonthCharges(b)) <= row[b].used + strayMonth[b]
    BY DEF Conserved, MonthConserved
  <2>3. row[b].used \in Nat /\ strayMonth[b] \in Nat /\ strayMonth'[b] = strayMonth[b]
    BY RowFields DEF Shape, TypeOK, history
  <2>4. CASE source = "monthly" /\ b = Target(r)
    <3>1. /\ Cardinality(MonthCharges(b)') = Cardinality(MonthCharges(b)) + 1
          /\ row'[b].used = row[b].used + 1
      BY <1>3, <2>1, <2>4
    <3> QED
      BY <2>1, <2>2, <2>3, <3>1
  <2>5. CASE ~(source = "monthly" /\ b = Target(r))
    <3>1. MonthCharges(b)' = MonthCharges(b) /\ row'[b].used = row[b].used
      BY <1>3, <2>3, <2>5
    <3> QED
      BY <2>2, <2>3, <3>1
  <2> QED
    BY <2>4, <2>5
<1>5. DayConserved'
  <2> SUFFICES ASSUME NEW b \in Buckets
               PROVE  /\ row'[b].today <= Cardinality(DayCharges(b)')
                      /\ Cardinality(DayCharges(b)') <= row'[b].today + strayDay'[b]
    BY DEF DayConserved
  <2>1. /\ Cardinality(DayCharges(b)) \in Nat
        /\ Cardinality(DayCharges(b) \cup {r}) = Cardinality(DayCharges(b)) + 1
    BY <1>3, SetsOfRequests, CountOf
  <2>2. /\ row[b].today <= Cardinality(DayCharges(b))
        /\ Cardinality(DayCharges(b)) <= row[b].today + strayDay[b]
    BY DEF Conserved, DayConserved
  <2>3. row[b].today \in Nat /\ strayDay[b] \in Nat /\ strayDay'[b] = strayDay[b]
    BY RowFields DEF Shape, TypeOK, history
  <2>4. CASE b = Target(r)
    <3>1. /\ Cardinality(DayCharges(b)') = Cardinality(DayCharges(b)) + 1
          /\ row'[b].today = row[b].today + 1
      BY <1>3, <2>1, <2>4
    <3> QED
      BY <2>1, <2>2, <2>3, <3>1
  <2>5. CASE b # Target(r)
    <3>1. DayCharges(b)' = DayCharges(b) /\ row'[b].today = row[b].today
      BY <1>3, <2>3, <2>5
    <3> QED
      BY <2>2, <2>3, <3>1
  <2> QED
    BY <2>4, <2>5
<1>6. CreditConserved'
  <2> SUFFICES ASSUME NEW d \in Credits
               PROVE  credit'[d].remaining + Cardinality(Draws(d)') =
                        credit'[d].amount + Cardinality(TwiceDrawn(d)')
    BY DEF CreditConserved
  <2>1. /\ Cardinality(Draws(d)) \in Nat
        /\ Cardinality(Draws(d) \cup {r}) = Cardinality(Draws(d)) + 1
    BY <1>3, SetsOfRequests, CountOf
  <2>2. credit[d].remaining + Cardinality(Draws(d)) =
          credit[d].amount + Cardinality(TwiceDrawn(d))
    BY DEF Conserved, CreditConserved
  <2>6. /\ Cardinality(TwiceDrawn(d)) \in Nat
        /\ Cardinality(TwiceDrawn(d)') = Cardinality(TwiceDrawn(d))
    BY <1>3, SetsOfRequests, SizeOf
  <2>3. credit[d].remaining \in Nat /\ credit[d].amount \in Nat
    BY CreditFields DEF Shape, TypeOK
  <2>4. CASE source = "top_up" /\ d = c
    <3>1. /\ Cardinality(Draws(d)') = Cardinality(Draws(d)) + 1
          /\ credit'[d].remaining = credit[d].remaining - 1
          /\ credit'[d].amount = credit[d].amount
      BY <1>3, <2>1, <2>4
    <3>2. (credit[d].remaining - 1) + (Cardinality(Draws(d)) + 1) =
            credit[d].remaining + Cardinality(Draws(d))
      BY <2>1, <2>3, TransferSum
    <3> QED
      BY <2>2, <2>6, <3>1, <3>2, Zenon
  <2>5. CASE ~(source = "top_up" /\ d = c)
    <3>1. /\ Draws(d)' = Draws(d) /\ credit'[d].remaining = credit[d].remaining
          /\ credit'[d].amount = credit[d].amount
      BY <1>3, <2>3, <2>5
    <3>2. Cardinality(Draws(d)') = Cardinality(Draws(d))
      BY <3>1
    <3> QED
      BY <2>1, <2>2, <2>3, <2>6, <3>1, <3>2
  <2> QED
    BY <2>4, <2>5
<1>7. LedgerConserved'
  <2> SUFFICES ASSUME NEW p \in Profiles
               PROVE  events'[p] = Cardinality(ChargesOf(p)') - Cardinality(TwiceOf(p)')
    BY DEF LedgerConserved
  <2>1. /\ Cardinality(ChargesOf(p)) \in Nat
        /\ Cardinality(ChargesOf(p) \cup {r}) = Cardinality(ChargesOf(p)) + 1
    BY <1>3, SetsOfRequests, CountOf
  <2>2. events[p] = Cardinality(ChargesOf(p)) - Cardinality(TwiceOf(p))
    BY DEF Conserved, LedgerConserved
  <2>4. /\ Cardinality(TwiceOf(p)) \in Nat
        /\ Cardinality(TwiceOf(p)') = Cardinality(TwiceOf(p))
    BY <1>3, SetsOfRequests, SizeOf
  <2>3. events'[p] = IF ProfileOf[r] = p THEN events[p] + 1 ELSE events[p]
    BY DEF Charge, Shape, TypeOK
  <2>5. CASE ProfileOf[r] = p
    <3>1. Cardinality(ChargesOf(p)') = Cardinality(ChargesOf(p)) + 1
      BY <1>3, <2>1, <2>5
    <3> QED
      BY <2>1, <2>2, <2>3, <2>4, <2>5, <3>1
  <2>6. CASE ProfileOf[r] # p
    <3>1. ChargesOf(p)' = ChargesOf(p)
      BY <1>3, <2>6
    <3>2. Cardinality(ChargesOf(p)') = Cardinality(ChargesOf(p))
      BY <3>1
    <3> QED
      BY <2>1, <2>2, <2>3, <2>4, <2>6, <3>2
  <2> QED
    BY <2>5, <2>6
<1>8. Sold'
  <2>1. \A d \in Credits : credit'[d].amount = credit[d].amount
    OBVIOUS
  <2>2. charge'[r] = k /\ \A q \in Requests \ {r} : charge'[q] = charge[q]
    BY <1>2 DEF Shape, TypeOK
  <2>3. \A q \in Requests : charge[q].source = "top_up" =>
           charge[q].credit \in Credits /\ credit[charge[q].credit].amount > 0
    BY DEF Shape, ChargeOK, Conserved, Sold
  <2>4. source = "top_up" => c \in Credits /\ credit[c].amount > 0
    BY BoughtFirst
  <2> SUFFICES ASSUME NEW q \in Requests, charge'[q].source = "top_up"
               PROVE  credit'[charge'[q].credit].amount > 0
    BY DEF Sold
  <2>5. CASE q = r
    <3>1. source = "top_up" /\ charge'[q].credit = c
      BY <1>1, <2>2, <2>5
    <3> QED
      BY <2>1, <2>4, <3>1
  <2>6. CASE q # r
    <3>1. charge'[q] = charge[q]
      BY <2>2, <2>6
    <3> QED
      BY <2>1, <2>3, <3>1
  <2> QED
    BY <2>5, <2>6
<1> QED
  BY <1>4, <1>5, <1>6, <1>7, <1>8 DEF Conserved

\* A refund takes its request out of the sets and a unit off each counter that
\* is not yet zero; what an earlier epoch was owed, or was given back before,
\* is counted as stray.
LEMMA GiveBackStep ==
  ASSUME Shape, Conserved, NEW r \in Requests, charge[r].source # "none",
         charge[r].refunds \in {0, 1}, GiveBack(r)
  PROVE  Conserved'
<1> DEFINE k == charge[r]
           B == k.bucket
           monthly == k.source = "monthly"
<1>1. /\ k \in ChargeRecord /\ k.source \in {"monthly", "top_up"} /\ B \in Buckets
      /\ k.source = "top_up" => k.credit \in Credits
  <2>1. k \in ChargeRecord
    BY DEF Shape, TypeOK
  <2> QED
    BY <2>1 DEF Shape, ChargeOK, ChargeRecord
<1>2. GiveBackSlot(B, k, monthly)
  BY <1>1 DEF GiveBack
<1>3. /\ row'[B].used = IF monthly THEN Dec(row[B].used) ELSE row[B].used
      /\ row'[B].today = Dec(row[B].today)
      /\ \A x \in Buckets \ {B} : /\ row'[x] = row[x]
                                  /\ strayMonth'[x] = strayMonth[x]
                                  /\ strayDay'[x] = strayDay[x]
  BY <1>1, <1>2, GiveBackType DEF Shape
<1>4. /\ strayMonth'[B] = IF monthly /\ Stray(k, k.cycle, cycle[B]) /\ row[B].used > 0
                         THEN strayMonth[B] + 1 ELSE strayMonth[B]
      /\ strayDay'[B] = IF Stray(k, k.day, day[B]) /\ row[B].today > 0
                       THEN strayDay[B] + 1 ELSE strayDay[B]
  BY <1>1, <1>2 DEF GiveBackSlot, Shape, TypeOK
<1>5. /\ \A b \in Buckets : /\ MonthCharges(b)' = MonthCharges(b) \ {r}
                            /\ DayCharges(b)' = DayCharges(b) \ {r}
      /\ \A c \in Credits :
           /\ Draws(c)' = Draws(c) \ {r}
           /\ TwiceDrawn(c)' = IF k.refunds = 1 /\ k.source = "top_up" /\ k.credit = c
                               THEN TwiceDrawn(c) \cup {r} ELSE TwiceDrawn(c)
      /\ \A p \in Profiles :
           /\ ChargesOf(p)' = ChargesOf(p) \ {r}
           /\ TwiceOf(p)' = IF k.refunds = 1 /\ ProfileOf[r] = p
                            THEN TwiceOf(p) \cup {r} ELSE TwiceOf(p)
  BY RefundSets DEF GiveBack, Shape
<1>6. MonthConserved'
  <2> SUFFICES ASSUME NEW b \in Buckets
               PROVE  /\ row'[b].used <= Cardinality(MonthCharges(b)')
                      /\ Cardinality(MonthCharges(b)') <= row'[b].used + strayMonth'[b]
    BY DEF MonthConserved
  <2>1. LET S == MonthCharges(b) IN
        /\ Cardinality(S) \in Nat
        /\ r \in S => Cardinality(S \ {r}) = Cardinality(S) - 1 /\ Cardinality(S) > 0
        /\ r \notin S => S \ {r} = S
    BY SetsOfRequests, CountOf
  <2>2. /\ row[b].used <= Cardinality(MonthCharges(b))
        /\ Cardinality(MonthCharges(b)) <= row[b].used + strayMonth[b]
    BY DEF Conserved, MonthConserved
  <2>3. row[b].used \in Nat /\ strayMonth[b] \in Nat
    BY RowFields DEF Shape, TypeOK
  <2>4. r \in MonthCharges(b) <=> /\ k.refunds = 0 /\ monthly
                                 /\ b = B /\ k.cycle = cycle[b]
    BY DEF MonthCharges, Outstanding
  <2>5. CASE b # B
    BY <1>3, <1>5, <2>1, <2>2, <2>4, <2>5
  <2>6. CASE b = B /\ ~monthly
    BY <1>3, <1>4, <1>5, <2>1, <2>2, <2>4, <2>6
  <2>7. CASE b = B /\ monthly
    <3>1. /\ row'[b].used = Dec(row[b].used)
          /\ strayMonth'[b] = IF r \notin MonthCharges(b) /\ row[b].used > 0
                             THEN strayMonth[b] + 1 ELSE strayMonth[b]
      BY <1>3, <1>4, <2>4, <2>7 DEF Stray
    <3>2. Cardinality(MonthCharges(b)') = Cardinality(MonthCharges(b)) -
            (IF r \in MonthCharges(b) THEN 1 ELSE 0)
      <4>1. MonthCharges(b)' = MonthCharges(b) \ {r} /\ Cardinality(MonthCharges(b)) \in Nat
        BY <1>5, <2>1
      <4>2. CASE r \in MonthCharges(b)
        BY <2>1, <4>1, <4>2
      <4>3. CASE r \notin MonthCharges(b)
        <5>1. MonthCharges(b)' = MonthCharges(b)
          BY <2>1, <4>1, <4>3
        <5>2. Cardinality(MonthCharges(b)') = Cardinality(MonthCharges(b))
          BY <5>1
        <5> QED
          BY <4>1, <4>3, <5>2
      <4> QED
        BY <4>2, <4>3
    <3>3. r \in MonthCharges(b) => Cardinality(MonthCharges(b)) > 0
      BY <2>1
    <3> QED
      BY <2>1, <2>2, <2>3, <3>1, <3>2, <3>3 DEF Dec
  <2> QED
    BY <2>5, <2>6, <2>7
<1>7. DayConserved'
  <2> SUFFICES ASSUME NEW b \in Buckets
               PROVE  /\ row'[b].today <= Cardinality(DayCharges(b)')
                      /\ Cardinality(DayCharges(b)') <= row'[b].today + strayDay'[b]
    BY DEF DayConserved
  <2>1. LET S == DayCharges(b) IN
        /\ Cardinality(S) \in Nat
        /\ r \in S => Cardinality(S \ {r}) = Cardinality(S) - 1 /\ Cardinality(S) > 0
        /\ r \notin S => S \ {r} = S
    BY SetsOfRequests, CountOf
  <2>2. /\ row[b].today <= Cardinality(DayCharges(b))
        /\ Cardinality(DayCharges(b)) <= row[b].today + strayDay[b]
    BY DEF Conserved, DayConserved
  <2>3. row[b].today \in Nat /\ strayDay[b] \in Nat
    BY RowFields DEF Shape, TypeOK
  <2>4. r \in DayCharges(b) <=> k.refunds = 0 /\ b = B /\ k.day = day[b]
    BY <1>1 DEF DayCharges, Outstanding
  <2>5. CASE b # B
    BY <1>3, <1>5, <2>1, <2>2, <2>4, <2>5
  <2>6. CASE b = B
    <3>1. /\ row'[b].today = Dec(row[b].today)
          /\ strayDay'[b] = IF r \notin DayCharges(b) /\ row[b].today > 0
                           THEN strayDay[b] + 1 ELSE strayDay[b]
      BY <1>3, <1>4, <2>4, <2>6 DEF Stray
    <3>2. Cardinality(DayCharges(b)') = Cardinality(DayCharges(b)) -
            (IF r \in DayCharges(b) THEN 1 ELSE 0)
      <4>1. DayCharges(b)' = DayCharges(b) \ {r} /\ Cardinality(DayCharges(b)) \in Nat
        BY <1>5, <2>1
      <4>2. CASE r \in DayCharges(b)
        BY <2>1, <4>1, <4>2
      <4>3. CASE r \notin DayCharges(b)
        <5>1. DayCharges(b)' = DayCharges(b)
          BY <2>1, <4>1, <4>3
        <5>2. Cardinality(DayCharges(b)') = Cardinality(DayCharges(b))
          BY <5>1
        <5> QED
          BY <4>1, <4>3, <5>2
      <4> QED
        BY <4>2, <4>3
    <3>3. r \in DayCharges(b) => Cardinality(DayCharges(b)) > 0
      BY <2>1
    <3> QED
      BY <2>1, <2>2, <2>3, <3>1, <3>2, <3>3 DEF Dec
  <2> QED
    BY <2>5, <2>6
<1>8. CreditConserved'
  <2> SUFFICES ASSUME NEW d \in Credits
               PROVE  credit'[d].remaining + Cardinality(Draws(d)') =
                        credit'[d].amount + Cardinality(TwiceDrawn(d)')
    BY DEF CreditConserved
  <2> DEFINE D == Cardinality(Draws(d))
             T == Cardinality(TwiceDrawn(d))
             mine == k.source = "top_up" /\ k.credit = d
  <2>1. /\ D \in Nat /\ T \in Nat
        /\ r \in Draws(d) => Cardinality(Draws(d) \ {r}) = D - 1
        /\ r \notin Draws(d) => Draws(d) \ {r} = Draws(d)
        /\ r \notin TwiceDrawn(d) => Cardinality(TwiceDrawn(d) \cup {r}) = T + 1
    BY SetsOfRequests, CountOf
  <2>2. /\ credit[d].remaining + D = credit[d].amount + T
        /\ credit[d].remaining \in Nat /\ credit[d].amount \in Nat
    BY CreditFields DEF Conserved, CreditConserved, Shape, TypeOK
  <2>3. /\ r \in Draws(d) <=> k.refunds = 0 /\ mine
        /\ r \notin TwiceDrawn(d)
    BY DEF Draws, TwiceDrawn, Outstanding
  <2>4. /\ credit'[d].amount = credit[d].amount
        /\ credit'[d].remaining = IF mine THEN credit[d].remaining + 1
                                  ELSE credit[d].remaining
    <3>1. CASE k.source = "top_up"
      <4>1. credit' = [credit EXCEPT ![k.credit].remaining = @ + 1]
        BY <3>1 DEF GiveBack
      <4>2. credit[d] \in CreditRow /\ credit \in [Credits -> CreditRow]
        BY DEF Shape, TypeOK
      <4> HIDE DEF k
      <4> QED
        BY <3>1, <4>1, <4>2 DEF CreditRow
    <3>2. CASE k.source # "top_up"
      BY <3>2 DEF GiveBack
    <3> QED
      BY <3>1, <3>2
  <2>5. Cardinality(Draws(d)') = IF mine /\ k.refunds = 0 THEN D - 1 ELSE D
    <3>1. Draws(d)' = Draws(d) \ {r}
      BY <1>5
    <3>2. CASE r \in Draws(d)
      BY <2>1, <2>3, <3>1, <3>2
    <3>3. CASE r \notin Draws(d)
      <4>1. Draws(d)' = Draws(d)
        BY <2>1, <3>1, <3>3
      <4>2. Cardinality(Draws(d)') = Cardinality(Draws(d))
        BY <4>1
      <4> QED
        BY <2>3, <3>3, <4>2
    <3> QED
      BY <3>2, <3>3
  <2>6. Cardinality(TwiceDrawn(d)') = IF mine /\ k.refunds = 1 THEN T + 1 ELSE T
    <3>1. CASE mine /\ k.refunds = 1
      <4>1. TwiceDrawn(d)' = TwiceDrawn(d) \cup {r}
        BY <1>5, <3>1
      <4> QED
        BY <2>1, <2>3, <3>1, <4>1
    <3>2. CASE ~(mine /\ k.refunds = 1)
      <4>1. TwiceDrawn(d)' = TwiceDrawn(d)
        BY <1>5, <3>2
      <4>2. Cardinality(TwiceDrawn(d)') = Cardinality(TwiceDrawn(d))
        BY <4>1
      <4> QED
        BY <3>2, <4>2
    <3> QED
      BY <3>1, <3>2
  <2>7. k.refunds \in {0, 1}
    OBVIOUS
  <2>8. D \in Nat /\ T \in Nat
    BY <2>1
  <2> HIDE DEF D, T, mine, k
  <2>9. CASE ~mine
    <3>1. /\ credit'[d].remaining = credit[d].remaining
          /\ Cardinality(Draws(d)') = D /\ Cardinality(TwiceDrawn(d)') = T
      BY <2>4, <2>5, <2>6, <2>9
    <3> QED
      BY <2>2, <2>4, <3>1
  <2>10. CASE mine /\ k.refunds = 0
    <3>1. /\ credit'[d].remaining = credit[d].remaining + 1
          /\ Cardinality(Draws(d)') = D - 1 /\ Cardinality(TwiceDrawn(d)') = T
      BY <2>4, <2>5, <2>6, <2>10
    <3>2. (credit[d].remaining + 1) + (D - 1) = credit[d].remaining + D
      BY <2>2, <2>8, TransferSum
    <3> QED
      BY <2>2, <2>4, <3>1, <3>2, Zenon
  <2>11. CASE mine /\ k.refunds = 1
    <3>1. /\ credit'[d].remaining = credit[d].remaining + 1
          /\ Cardinality(Draws(d)') = D /\ Cardinality(TwiceDrawn(d)') = T + 1
      BY <2>4, <2>5, <2>6, <2>11
    <3> DEFINE left == credit[d].remaining
               all == credit[d].amount
    <3>2. left \in Nat /\ all \in Nat /\ left + D = all + T
      BY <2>2
    <3> HIDE DEF left, all
    <3>3. (left + 1) + D = all + (T + 1)
      BY <2>8, <3>2
    <3> QED
      BY <2>4, <3>1, <3>3, Zenon DEF left, all
  <2> QED
    BY <2>7, <2>9, <2>10, <2>11
<1>9. LedgerConserved'
  <2> SUFFICES ASSUME NEW p \in Profiles
               PROVE  events'[p] = Cardinality(ChargesOf(p)') - Cardinality(TwiceOf(p)')
    BY DEF LedgerConserved
  <2> DEFINE C == Cardinality(ChargesOf(p))
             T == Cardinality(TwiceOf(p))
             mine == ProfileOf[r] = p
  <2>1. /\ C \in Nat /\ T \in Nat
        /\ r \in ChargesOf(p) => Cardinality(ChargesOf(p) \ {r}) = C - 1
        /\ r \notin ChargesOf(p) => ChargesOf(p) \ {r} = ChargesOf(p)
        /\ r \notin TwiceOf(p) => Cardinality(TwiceOf(p) \cup {r}) = T + 1
    BY SetsOfRequests, CountOf
  <2>2. events[p] = C - T
    BY DEF Conserved, LedgerConserved
  <2>3. /\ r \in ChargesOf(p) <=> k.refunds = 0 /\ mine
        /\ r \notin TwiceOf(p)
    BY <1>1 DEF ChargesOf, TwiceOf, Outstanding
  <2>4. events'[p] = IF mine THEN events[p] - 1 ELSE events[p]
    BY DEF GiveBack, Shape, TypeOK
  <2>5. Cardinality(ChargesOf(p)') = IF mine /\ k.refunds = 0 THEN C - 1 ELSE C
    <3>1. ChargesOf(p)' = ChargesOf(p) \ {r}
      BY <1>5
    <3>2. CASE r \in ChargesOf(p)
      BY <2>1, <2>3, <3>1, <3>2
    <3>3. CASE r \notin ChargesOf(p)
      <4>1. ChargesOf(p)' = ChargesOf(p)
        BY <2>1, <3>1, <3>3
      <4>2. Cardinality(ChargesOf(p)') = Cardinality(ChargesOf(p))
        BY <4>1
      <4> QED
        BY <2>3, <3>3, <4>2
    <3> QED
      BY <3>2, <3>3
  <2>6. Cardinality(TwiceOf(p)') = IF mine /\ k.refunds = 1 THEN T + 1 ELSE T
    <3>1. CASE mine /\ k.refunds = 1
      <4>1. TwiceOf(p)' = TwiceOf(p) \cup {r}
        BY <1>5, <3>1
      <4> QED
        BY <2>1, <2>3, <3>1, <4>1
    <3>2. CASE ~(mine /\ k.refunds = 1)
      <4>1. TwiceOf(p)' = TwiceOf(p)
        BY <1>5, <3>2
      <4>2. Cardinality(TwiceOf(p)') = Cardinality(TwiceOf(p))
        BY <4>1
      <4> QED
        BY <3>2, <4>2
    <3> QED
      BY <3>1, <3>2
  <2>7. k.refunds \in {0, 1}
    OBVIOUS
  <2> HIDE DEF C, T, mine, k
  <2> QED
    BY <2>1, <2>2, <2>4, <2>5, <2>6, <2>7
<1>10. Sold'
  <2>1. \A d \in Credits : credit'[d].amount = credit[d].amount
    <3>1. CASE k.source = "top_up"
      <4>1. credit' = [credit EXCEPT ![k.credit].remaining = @ + 1]
        BY <3>1 DEF GiveBack
      <4>2. \A d \in Credits : credit[d] \in CreditRow
        BY DEF Shape, TypeOK
      <4>3. credit \in [Credits -> CreditRow]
        BY DEF Shape, TypeOK
      <4> HIDE DEF k
      <4> QED
        BY <4>1, <4>2, <4>3 DEF CreditRow
    <3>2. CASE k.source # "top_up"
      BY <3>2 DEF GiveBack
    <3> QED
      BY <3>1, <3>2
  <2>2. \A q \in Requests : /\ charge'[q].source = charge[q].source
                            /\ charge'[q].credit = charge[q].credit
    BY DEF GiveBack, Shape, TypeOK, ChargeRecord
  <2>3. \A q \in Requests : charge[q].source = "top_up" =>
           charge[q].credit \in Credits /\ credit[charge[q].credit].amount > 0
    BY DEF Shape, ChargeOK, Conserved, Sold
  <2> QED
    BY <2>1, <2>2, <2>3 DEF Sold
<1> QED
  BY <1>6, <1>7, <1>8, <1>9, <1>10 DEF Conserved

\* A bucket whose counters restart forgets its charges with them.
LEMMA RestartStep ==
  ASSUME Shape, Conserved, UNCHANGED <<charge, events>>,
         \A b \in Buckets :
           /\ \/ cycle'[b] = cycle[b] /\ row'[b].used = row[b].used
                 /\ strayMonth'[b] = strayMonth[b]
              \/ cycle'[b] = cycle[b] + 1 /\ row'[b].used = 0 /\ strayMonth'[b] = 0
           /\ \/ day'[b] = day[b] /\ row'[b].today = row[b].today
                 /\ strayDay'[b] = strayDay[b]
              \/ day'[b] = day[b] + 1 /\ row'[b].today = 0 /\ strayDay'[b] = 0,
         \A d \in Credits : /\ credit'[d].remaining = credit[d].remaining
                            /\ credit'[d].amount = credit[d].amount
  PROVE  Conserved'
<1>1. Cardinality({}) = 0
  BY FS_EmptySet
<1>2. MonthConserved'
  <2> SUFFICES ASSUME NEW b \in Buckets
               PROVE  /\ row'[b].used <= Cardinality(MonthCharges(b)')
                      /\ Cardinality(MonthCharges(b)') <= row'[b].used + strayMonth'[b]
    BY DEF MonthConserved
  <2>1. /\ row[b].used <= Cardinality(MonthCharges(b))
        /\ Cardinality(MonthCharges(b)) <= row[b].used + strayMonth[b]
    BY DEF Conserved, MonthConserved
  <2>2. CASE cycle'[b] = cycle[b] + 1 /\ row'[b].used = 0 /\ strayMonth'[b] = 0
    <3>1. MonthCharges(b)' = {}
      BY <2>2, RestartSets
    <3>2. Cardinality(MonthCharges(b)') = 0
      BY <1>1, <3>1
    <3> QED
      BY <2>2, <3>2
  <2>3. CASE /\ cycle'[b] = cycle[b] /\ row'[b].used = row[b].used
             /\ strayMonth'[b] = strayMonth[b]
    <3>1. MonthCharges(b)' = MonthCharges(b)
      BY <2>3, RestartSets
    <3> QED
      BY <2>1, <2>3, <3>1
  <2> QED
    BY <2>2, <2>3
<1>3. DayConserved'
  <2> SUFFICES ASSUME NEW b \in Buckets
               PROVE  /\ row'[b].today <= Cardinality(DayCharges(b)')
                      /\ Cardinality(DayCharges(b)') <= row'[b].today + strayDay'[b]
    BY DEF DayConserved
  <2>1. /\ row[b].today <= Cardinality(DayCharges(b))
        /\ Cardinality(DayCharges(b)) <= row[b].today + strayDay[b]
    BY DEF Conserved, DayConserved
  <2>2. CASE day'[b] = day[b] + 1 /\ row'[b].today = 0 /\ strayDay'[b] = 0
    <3>1. DayCharges(b)' = {}
      BY <2>2, RestartSets
    <3>2. Cardinality(DayCharges(b)') = 0
      BY <1>1, <3>1
    <3> QED
      BY <2>2, <3>2
  <2>3. CASE /\ day'[b] = day[b] /\ row'[b].today = row[b].today
             /\ strayDay'[b] = strayDay[b]
    <3>1. DayCharges(b)' = DayCharges(b)
      BY <2>3, RestartSets
    <3> QED
      BY <2>1, <2>3, <3>1
  <2> QED
    BY <2>2, <2>3
<1>4. CreditConserved'
  <2> SUFFICES ASSUME NEW d \in Credits
               PROVE  credit'[d].remaining + Cardinality(Draws(d)')
                        = credit'[d].amount + Cardinality(TwiceDrawn(d)')
    BY DEF CreditConserved
  <2>1. Draws(d)' = Draws(d) /\ TwiceDrawn(d)' = TwiceDrawn(d)
    BY DEF Draws, TwiceDrawn, Outstanding
  <2>2. credit[d].remaining + Cardinality(Draws(d))
          = credit[d].amount + Cardinality(TwiceDrawn(d))
    BY DEF Conserved, CreditConserved
  <2>3. credit'[d].remaining = credit[d].remaining /\ credit'[d].amount = credit[d].amount
    OBVIOUS
  <2> QED
    BY <2>1, <2>2, <2>3
<1>5. LedgerConserved'
  BY DEF Conserved, LedgerConserved, ChargesOf, TwiceOf, Outstanding
<1>6. Sold'
  BY DEF Shape, ChargeOK, Conserved, Sold
<1> QED
  BY <1>2, <1>3, <1>4, <1>5, <1>6 DEF Conserved

----------------------------------------------------------------------------
(* The steps of decrementQuota *)

\* A request that moves on without being charged or refunded.
LEMMA MovesOn ==
  ASSUME Shape, TypeOK', UNCHANGED <<charge, history>>,
         NEW r \in Requests, NEW label, Goto(r, label),
         label \in Paying <=> pc[r] \in Paying, Times(label) = Times(pc[r]),
         label = "take" => pick'[r] \in Credits,
         \A q \in Requests \ {r} : pick'[q] = pick[q]
  PROVE  ChargeOK'
<1>1. pc'[r] = label /\ \A q \in Requests \ {r} : pc'[q] = pc[q]
  BY DEF Goto, Shape, TypeOK
<1>2. ChargeOK
  BY DEF Shape
<1> QED
  BY <1>1, <1>2 DEF ChargeOK, history

\* A request that is charged for the first time.
LEMMA GetsCharged ==
  ASSUME Shape, TypeOK', UNCHANGED <<history, pick>>, NEW r \in Requests,
         NEW source \in {"monthly", "top_up"}, NEW c \in Credits \cup {NoCredit},
         source = "top_up" => c \in Credits,
         Charge(r, source, c)
  PROVE  ChargeOK'
<1> DEFINE k == ChargedTo(Target(r), source, c)
<1>1. /\ k.source = source /\ k.bucket = Target(r) /\ k.credit = c
      /\ k.cycle = cycle[Target(r)] /\ k.day = day[Target(r)]
      /\ k.refunds = 0
  BY DEF ChargedTo
<1>2. /\ Target(r) \in Buckets
      /\ cycle[Target(r)] \in Nat /\ day[Target(r)] \in Nat
  BY TargetType DEF Shape, TypeOK
<1>3. /\ charge'[r] = k /\ pc'[r] = "charged"
      /\ \A q \in Requests \ {r} : charge'[q] = charge[q] /\ pc'[q] = pc[q]
  BY DEF Charge, Goto, Shape, TypeOK
<1> HIDE DEF k
<1>4. ASSUME NEW q \in Requests
      PROVE  /\ charge'[q].source # "none" <=> pc'[q] \in Paying
             /\ charge'[q].refunds = Times(pc'[q])
             /\ charge'[q].source # "none" =>
                  /\ charge'[q].bucket \in Buckets
                  /\ charge'[q].cycle <= cycle[charge'[q].bucket]
                  /\ charge'[q].day <= day[charge'[q].bucket]
             /\ charge'[q].source = "top_up" => charge'[q].credit \in Credits
             /\ pc'[q] = "take" => pick[q] \in Credits
  <2>1. CASE q = r
    <3>1. /\ k.source # "none" /\ k.bucket \in Buckets
          /\ k.cycle <= cycle[k.bucket] /\ k.day <= day[k.bucket]
          /\ k.source = "top_up" => k.credit \in Credits
      BY <1>1, <1>2
    <3> QED
      BY <1>1, <1>3, <2>1, <3>1 DEF Paying, Times
  <2>2. CASE q # r
    BY <1>3, <2>2 DEF Shape, ChargeOK
  <2> QED
    BY <2>1, <2>2
<1> QED
  BY <1>4 DEF ChargeOK, history

LEMMA DecrementInv ==
  ASSUME IInv, NEW r \in Requests, Decrement(r)
  PROVE  IInv'
<1> DEFINE b == Target(r)
<1>0. /\ Shape /\ Conserved /\ TypeOK /\ ChargeOK /\ RowsOK
      /\ b \in Buckets /\ row[b] \in Row /\ row \in [Buckets -> Row]
      /\ credit \in [Credits -> CreditRow]
      /\ pc[r] \notin Paying => charge[r].source = "none"
  BY TargetType DEF IInv, Shape, Conserved, TypeOK, ChargeOK
<1>t. TypeOK'
  BY <1>0, DecrementType
<1>s. SUFFICES ChargeOK' /\ RowsOK' /\ Conserved'
  BY <1>t DEF IInv, Shape, Conserved
<1>q. ASSUME UNCHANGED <<row, credit, charge, events, history>>
      PROVE  RowsOK' /\ Conserved'
  BY <1>0, <1>q, QuietStep DEF RowsOK
<1>1. CASE Begin(r)
  <2>1. ChargeOK'
    BY <1>0, <1>1, <1>t, MovesOn DEF Begin, At, Paying, Times
  <2> QED
    BY <1>1, <1>q, <2>1 DEF Begin
<1>2. CASE ChargeMonthly(r)
  <2> DEFINE x == Clamped(r)
             y == [x EXCEPT !.used = @ + 1, !.today = @ + 1]
  <2>1. /\ x \in Row /\ x.used = row[b].used /\ x.today = row[b].today
        /\ x.present
    BY <1>0, <1>2, ClampedType DEF ChargeMonthly, HasRoom, DailyRoom
  <2>2. x.used \in Nat /\ x.today \in Nat
    BY <2>1, RowFields
  <2>3. row' = [row EXCEPT ![b] = y]
    BY <1>2 DEF ChargeMonthly
  <2> HIDE DEF x
  <2>4. y.used = x.used + 1 /\ y.today = x.today + 1 /\ y.present
    BY <2>1, <2>2 DEF Row
  <2> HIDE DEF y
  <2>5. row'[b] = y /\ \A z \in Buckets \ {b} : row'[z] = row[z]
    BY <1>0, <2>3
  <2>6. charge[r].source = "none"
    BY <1>0, <1>2 DEF ChargeMonthly, At, Paying, Times
  <2>7. RowsOK'
    BY <1>0, <2>4, <2>5 DEF RowsOK
  <2>8. ChargeOK'
    BY <1>0, <1>2, <1>t, GetsCharged DEF ChargeMonthly
  <2>9. \A z \in Buckets :
           /\ row'[z].used = row[z].used + (IF z = b THEN 1 ELSE 0)
           /\ row'[z].today = row[z].today + (IF z = b THEN 1 ELSE 0)
    BY <1>0, <2>1, <2>4, <2>5, RowFields
  <2>10. \A d \in Credits : credit'[d].amount = credit[d].amount
                            /\ credit'[d].remaining = credit[d].remaining - 0
    BY <1>0, <1>2, CreditFields DEF ChargeMonthly
  <2>11. Charge(r, "monthly", NoCredit) /\ UNCHANGED history
    BY <1>2 DEF ChargeMonthly
  <2>12. Conserved'
    BY <1>0, <2>6, <2>9, <2>10, <2>11, ChargeStep
  <2> QED
    BY <2>7, <2>8, <2>12
<1>3. CASE MissMonthly(r)
  <2>1. row' = [row EXCEPT ![b] = Clamped(r)]
    BY <1>3 DEF MissMonthly
  <2>2. /\ Clamped(r).used = row[b].used /\ Clamped(r).today = row[b].today
        /\ Clamped(r).present = row[b].present
    BY <1>0, ClampedType
  <2>3. row'[b] = Clamped(r) /\ \A z \in Buckets \ {b} : row'[z] = row[z]
    BY <1>0, <2>1
  <2>4. \A z \in Buckets : /\ row'[z].used = row[z].used /\ row'[z].today = row[z].today
                           /\ row'[z].present = row[z].present
    BY <2>2, <2>3
  <2>5. RowsOK'
    BY <1>0, <2>4 DEF RowsOK
  <2>6. ChargeOK'
    BY <1>0, <1>3, <1>t, MovesOn DEF MissMonthly, At, Paying, Times
  <2>7. Conserved'
    BY <1>0, <1>3, <2>4, QuietStep DEF MissMonthly
  <2> QED
    BY <2>5, <2>6, <2>7
<1>4. CASE Classify(r)
  <2>1. Verdict(r, row[b]) \notin Paying \cup {"take"} /\ Times(Verdict(r, row[b])) = 0
    BY DEF Verdict, Paying, Times
  <2>2. ChargeOK'
    BY <1>0, <1>4, <1>t, <2>1, MovesOn DEF Classify, At, Paying, Times
  <2> QED
    BY <1>4, <1>q, <2>2 DEF Classify
<1>5. CASE Provision(r)
  <2>1. /\ Fresh(tierOf[r], b).used = 0 /\ Fresh(tierOf[r], b).today = 0
        /\ Fresh(tierOf[r], b).present
    BY <1>0, TargetType, FreshType
  <2>2. /\ row'[b] = IF row[b].present THEN row[b] ELSE Fresh(tierOf[r], b)
        /\ \A z \in Buckets \ {b} : row'[z] = row[z]
    BY <1>0, <1>5 DEF Provision
  <2>3. \A z \in Buckets : row'[z].used = row[z].used /\ row'[z].today = row[z].today
    BY <1>0, <2>1, <2>2 DEF RowsOK
  <2>4. RowsOK'
    BY <1>0, <2>1, <2>2 DEF RowsOK
  <2>5. ChargeOK'
    BY <1>0, <1>5, <1>t, MovesOn DEF Provision, At, Paying, Times
  <2>6. Conserved'
    BY <1>0, <1>5, <2>3, QuietStep DEF Provision
  <2> QED
    BY <2>4, <2>5, <2>6
<1>6. CASE SelectCredit(r)
  <2>1. CASE Eligible(r) = {}
    <3>1. ChargeOK'
      BY <1>0, <1>6, <1>t, <2>1, MovesOn DEF SelectCredit, At, Paying, Times
    <3> QED
      BY <1>6, <1>q, <3>1 DEF SelectCredit
  <2>2. CASE Eligible(r) # {}
    <3>1. PICK c \in Eligible(r) : pick' = [pick EXCEPT ![r] = c] /\ Goto(r, "take")
      BY <1>6, <2>2 DEF SelectCredit
    <3>2. c \in Credits
      BY DEF Eligible
    <3>3. pick'[r] = c /\ \A q \in Requests \ {r} : pick'[q] = pick[q]
      BY <1>0, <3>1 DEF TypeOK
    <3>4. ChargeOK'
      BY <1>0, <1>6, <1>t, <3>1, <3>2, <3>3, MovesOn DEF SelectCredit, At, Paying, Times
    <3> QED
      BY <1>6, <1>q, <3>4 DEF SelectCredit
  <2> QED
    BY <2>1, <2>2
<1>7. CASE Reread(r)
  <2>1. ChargeOK'
    BY <1>0, <1>7, <1>t, MovesOn DEF Reread, At, Paying, Times
  <2> QED
    BY <1>7, <1>q, <2>1 DEF Reread
<1>8. CASE LoseCredit(r)
  <2>1. ChargeOK'
    BY <1>0, <1>8, <1>t, MovesOn DEF LoseCredit, At, Paying, Times
  <2> QED
    BY <1>8, <1>q, <2>1 DEF LoseCredit
<1>9. CASE TakeCredit(r)
  <2> DEFINE c == pick[r]
  <2>1. c \in Credits /\ charge[r].source = "none" /\ credit[c].remaining > 0
    BY <1>0, <1>9 DEF TakeCredit, At, ChargeOK, Paying
  <2>2. CASE ~DailyRoom(row[b])
    <3>1. ChargeOK'
      BY <1>0, <1>9, <1>t, <2>2, MovesOn DEF TakeCredit, At, Paying, Times
    <3> QED
      BY <1>9, <1>q, <2>2, <3>1 DEF TakeCredit
  <2>3. CASE DailyRoom(row[b])
    <3>1. /\ credit' = [credit EXCEPT ![c].remaining = @ - 1]
          /\ row' = [row EXCEPT ![b].today = @ + 1]
          /\ Charge(r, "top_up", c) /\ UNCHANGED <<history, pick>>
      BY <1>9, <2>3 DEF TakeCredit
    <3>2. \A z \in Buckets : row[z].used \in Nat /\ row[z].today \in Nat
      BY <1>0, RowFields
    <3>3. \A z \in Buckets :
            /\ row'[z].used = row[z].used
            /\ row'[z].today = IF z = b THEN row[z].today + 1 ELSE row[z].today
            /\ row'[z].present = row[z].present
      BY <1>0, <3>1 DEF Row
    <3>4. \A d \in Credits :
            /\ credit'[d].amount = credit[d].amount
            /\ credit'[d].remaining = IF d = c THEN credit[d].remaining - 1
                                      ELSE credit[d].remaining
      BY <1>0, <3>1 DEF CreditRow
    <3>5. \A d \in Credits : credit[d].remaining \in Nat
      BY <1>0, CreditFields
    <3>6. RowsOK'
      BY <1>0, <2>3, <3>3 DEF RowsOK, DailyRoom
    <3>7. ChargeOK'
      BY <1>0, <1>t, <2>1, <3>1, GetsCharged
    <3> HIDE DEF c
    <3>8. \A z \in Buckets :
            /\ row'[z].used = row[z].used + 0
            /\ row'[z].today = row[z].today + (IF z = b THEN 1 ELSE 0)
      BY <3>2, <3>3
    <3>9. \A d \in Credits :
            /\ credit'[d].amount = credit[d].amount
            /\ credit'[d].remaining = credit[d].remaining - (IF d = c THEN 1 ELSE 0)
      BY <3>4, <3>5
    <3>10. Conserved'
      <4>1. \A z \in Buckets :
              /\ row'[z].used = row[z].used +
                   (IF "top_up" = "monthly" /\ z = Target(r) THEN 1 ELSE 0)
              /\ row'[z].today = row[z].today + (IF z = Target(r) THEN 1 ELSE 0)
        BY <3>8
      <4>2. \A d \in Credits :
              /\ credit'[d].amount = credit[d].amount
              /\ credit'[d].remaining = credit[d].remaining -
                   (IF "top_up" = "top_up" /\ d = c THEN 1 ELSE 0)
        BY <3>9
      <4> QED
        BY <1>0, <2>1, <3>1, <4>1, <4>2, ChargeStep
    <3> QED
      BY <3>6, <3>7, <3>10
  <2> QED
    BY <2>2, <2>3
<1> QED
  BY <1>1, <1>2, <1>3, <1>4, <1>5, <1>6, <1>7, <1>8, <1>9 DEF Decrement

----------------------------------------------------------------------------
(* The steps after the charge *)

\* incrementQuota, after the charge or after a first refund.
LEMMA RefundInv ==
  ASSUME IInv, NEW r \in Requests, Refund(r) \/ RefundAgain(r)
  PROVE  IInv'
<1> DEFINE k == charge[r]
<1>0. PICK label \in {"refunded", "refunded_twice"} :
        /\ Goto(r, label) /\ GiveBack(r) /\ pc[r] \in Paying
        /\ Times(pc[r]) \in {0, 1} /\ Times(label) = Times(pc[r]) + 1
  BY DEF Refund, RefundAgain, At, Paying, Times
<1>1. /\ Shape /\ TypeOK /\ ChargeOK /\ RowsOK /\ Conserved
      /\ k \in ChargeRecord /\ k.source # "none"
      /\ k.refunds = Times(pc[r]) /\ k.refunds \in {0, 1}
  BY <1>0 DEF IInv, Shape, Conserved, TypeOK, ChargeOK
<1>2. /\ k.bucket \in Buckets /\ k.source = "top_up" => k.credit \in Credits
      /\ ProfileOf[r] \in Profiles
  BY <1>1 DEF ChargeOK, Paying
<1>3. \E monthly \in BOOLEAN : GiveBackSlot(k.bucket, k, monthly)
  BY <1>0 DEF GiveBack
<1>4. /\ row' \in [Buckets -> Row]
      /\ strayMonth' \in [Buckets -> Nat] /\ strayDay' \in [Buckets -> Nat]
      /\ \A b \in Buckets :
           /\ row'[b].present = row[b].present
           /\ row[b].used = 0 /\ row[b].today = 0 =>
                row'[b].used = 0 /\ row'[b].today = 0
  <2>1. PICK monthly \in BOOLEAN : GiveBackSlot(k.bucket, k, monthly)
    BY <1>3
  <2>2. k.bucket \in Buckets
    BY <1>1 DEF ChargeOK, Paying
  <2> HIDE DEF k
  <2>3. /\ row' \in [Buckets -> Row]
        /\ strayMonth' \in [Buckets -> Nat] /\ strayDay' \in [Buckets -> Nat]
        /\ row'[k.bucket].used = IF monthly THEN Dec(row[k.bucket].used)
                                 ELSE row[k.bucket].used
        /\ row'[k.bucket].today = Dec(row[k.bucket].today)
        /\ row'[k.bucket].present = row[k.bucket].present
        /\ \A x \in Buckets \ {k.bucket} : row'[x] = row[x]
    BY <1>1, <2>1, <2>2, GiveBackType
  <2>4. Dec(0) = 0
    BY DEF Dec
  <2> QED
    BY <2>3, <2>4
<1>5. credit' \in [Credits -> CreditRow]
  <2>1. CASE k.source = "top_up"
    <3> DEFINE c == k.credit
    <3>1. c \in Credits /\ credit[c] \in CreditRow /\ credit \in [Credits -> CreditRow]
      BY <1>1, <2>1 DEF ChargeOK, TypeOK
    <3>2. credit[c].remaining + 1 \in Nat
      BY <3>1, CreditFields
    <3>3. [credit[c] EXCEPT !.remaining = @ + 1] \in CreditRow
      BY <3>1, <3>2, RemainingType
    <3> QED
      BY <1>0, <2>1, <3>1, <3>3 DEF GiveBack
  <2>2. CASE k.source # "top_up"
    BY <1>0, <1>1, <2>2 DEF GiveBack, TypeOK
  <2> QED
    BY <2>1, <2>2
<1>6. /\ charge' = [charge EXCEPT ![r].refunds = @ + 1]
      /\ pc' = [pc EXCEPT ![r] = label]
      /\ UNCHANGED <<sub, tierOf, tried, pick, retried, cycle, day, bounds>>
  BY <1>0 DEF GiveBack, Goto
<1>c. /\ charge' \in [Requests -> ChargeRecord]
      /\ charge'[r] = [k EXCEPT !.refunds = k.refunds + 1]
      /\ \A q \in Requests \ {r} : charge'[q] = charge[q]
  <2>1. k.refunds + 1 \in 0..2 /\ k \in ChargeRecord
    BY <1>1
  <2>2. charge' = [charge EXCEPT ![r] = [k EXCEPT !.refunds = k.refunds + 1]]
    BY <1>6
  <2> HIDE DEF k
  <2>3. [k EXCEPT !.refunds = k.refunds + 1] \in ChargeRecord
    BY <2>1 DEF ChargeRecord
  <2> QED
    BY <1>1, <2>2, <2>3 DEF TypeOK
<1>7. events' \in [Profiles -> Int]
  BY <1>0, <1>1, <1>2 DEF GiveBack, TypeOK
<1>8. TypeOK'
  BY <1>1, <1>4, <1>5, <1>6, <1>c, <1>7 DEF TypeOK, sub, bounds, Answered
<1>9. ChargeOK'
  <2>1. /\ charge'[r].source = k.source /\ charge'[r].refunds = k.refunds + 1
        /\ charge'[r].bucket = k.bucket /\ charge'[r].credit = k.credit
        /\ charge'[r].cycle = k.cycle /\ charge'[r].day = k.day
    BY <1>1, <1>c DEF ChargeRecord
  <2>2. /\ pc'[r] = label /\ label \in Paying /\ label # "take"
        /\ \A q \in Requests \ {r} : pc'[q] = pc[q]
    BY <1>1, <1>6 DEF TypeOK, Paying
  <2>3. k.refunds + 1 = Times(label)
    BY <1>0, <1>1
  <2>4. cycle' = cycle /\ day' = day /\ pick' = pick
    BY <1>6
  <2>5. ASSUME NEW q \in Requests
        PROVE  /\ charge'[q].source # "none" <=> pc'[q] \in Paying
               /\ charge'[q].refunds = Times(pc'[q])
               /\ charge'[q].source # "none" =>
                    /\ charge'[q].bucket \in Buckets
                    /\ charge'[q].cycle <= cycle[charge'[q].bucket]
                    /\ charge'[q].day <= day[charge'[q].bucket]
               /\ charge'[q].source = "top_up" => charge'[q].credit \in Credits
               /\ pc'[q] = "take" => pick[q] \in Credits
    <3>1. CASE q = r
      BY <1>1, <2>1, <2>2, <2>3, <3>1 DEF ChargeOK
    <3>2. CASE q # r
      BY <1>1, <1>c, <2>2, <3>2 DEF ChargeOK
    <3> QED
      BY <3>1, <3>2
  <2> QED
    BY <2>4, <2>5 DEF ChargeOK
<1>10. RowsOK'
  BY <1>1, <1>4 DEF RowsOK
<1>11. Conserved'
  BY <1>0, <1>1, GiveBackStep
<1> QED
  BY <1>8, <1>9, <1>10, <1>11 DEF IInv, Shape, Conserved

LEMMA SettleInv ==
  ASSUME IInv, NEW r \in Requests, Serve(r) \/ RefundLost(r)
  PROVE  IInv'
<1>1. PICK label \in {"served", "overcharged"} : Goto(r, label)
  BY DEF Serve, RefundLost
<1>2. /\ UNCHANGED <<sub, row, credit, events, tierOf, tried, pick, retried, charge,
                     history, bounds>>
      /\ pc[r] = "charged" /\ Shape /\ TypeOK /\ RowsOK /\ Conserved
  BY DEF Serve, RefundLost, At, IInv, Shape, Conserved
<1>3. TypeOK'
  BY <1>1, <1>2 DEF TypeOK, Goto, sub, history, bounds, Answered
<1>4. ChargeOK'
  BY <1>1, <1>2, <1>3, MovesOn DEF Paying, Times
<1>5. RowsOK' /\ Conserved'
  BY <1>2, QuietStep DEF RowsOK
<1> QED
  BY <1>3, <1>4, <1>5 DEF IInv, Shape, Conserved

----------------------------------------------------------------------------
(* The steps of the cron, the webhooks and the purchases *)

\* A step that moves no request: ChargeOK survives a later epoch.
LEMMA EpochsGrow ==
  ASSUME Shape, UNCHANGED reqs,
         \A b \in Buckets : /\ cycle'[b] \in {cycle[b], cycle[b] + 1}
                            /\ day'[b] \in {day[b], day[b] + 1}
  PROVE  ChargeOK'
<1>1. /\ \A b \in Buckets : cycle[b] \in Nat /\ day[b] \in Nat
      /\ \A r \in Requests : charge[r].cycle \in Nat /\ charge[r].day \in Nat
  BY DEF Shape, TypeOK, ChargeRecord
<1>2. /\ \A b \in Buckets, n \in Nat :
           /\ n <= cycle[b] => n <= cycle'[b]
           /\ n <= day[b] => n <= day'[b]
  BY <1>1
<1>3. charge' = charge /\ pc' = pc /\ pick' = pick
  BY DEF reqs
<1> QED
  BY <1>1, <1>2, <1>3 DEF Shape, ChargeOK

LEMMA QuotaResetInv ==
  ASSUME IInv, NEW due \in SUBSET Buckets, QuotaReset(due)
  PROVE  IInv'
<1>1. Shape /\ TypeOK /\ RowsOK /\ Conserved
  BY DEF IInv, Shape, Conserved
<1>2. /\ row' \in [Buckets -> Row]
      /\ \A b \in Buckets :
           /\ row'[b].used = IF b \in due THEN 0 ELSE row[b].used
           /\ row'[b].today = 0
           /\ ~row'[b].present => row'[b].used = 0 /\ row'[b].today = 0
  BY <1>1, ResetRows
<1>3. \A b \in Buckets :
        /\ cycle'[b] = IF b \in due THEN cycle[b] + 1 ELSE cycle[b]
        /\ strayMonth'[b] = IF b \in due THEN 0 ELSE strayMonth[b]
        /\ day'[b] = day[b] + 1 /\ strayDay'[b] = 0
  BY DEF QuotaReset
<1>4. UNCHANGED <<sub, credit, events, reqs, changes>> /\ resets' = resets + 1
  BY DEF QuotaReset
<1>5. TypeOK'
  <2>1. /\ cycle' \in [Buckets -> Nat] /\ day' \in [Buckets -> Nat]
        /\ strayMonth' \in [Buckets -> Nat] /\ strayDay' \in [Buckets -> Nat]
    BY <1>1 DEF QuotaReset, TypeOK
  <2> QED
    BY <1>1, <1>2, <1>4, <2>1 DEF TypeOK, sub, reqs
<1>6. ChargeOK'
  BY <1>1, <1>3, <1>4, EpochsGrow
<1>7. RowsOK'
  BY <1>2 DEF RowsOK
<1>8. Conserved'
  <2>1. charge' = charge /\ events' = events
    BY <1>4 DEF reqs
  <2> QED
    BY <1>1, <1>2, <1>3, <1>4, <2>1, RestartStep
<1> QED
  BY <1>5, <1>6, <1>7, <1>8 DEF IInv, Shape, Conserved

LEMMA ChangePlanInv ==
  ASSUME IInv, NEW t \in Tiers, NEW via, NEW anchor \in BOOLEAN, NEW first,
         ChangePlan(t, via, anchor, first)
  PROVE  IInv'
<1>1. Shape /\ TypeOK /\ RowsOK /\ Conserved
  BY DEF IInv, Shape, Conserved
<1>2. /\ row' \in [Buckets -> Row]
      /\ \A b \in Buckets :
           /\ row'[b].used = IF Again(t, anchor, b) THEN 0 ELSE row[b].used
           /\ row'[b].today = IF Again(t, anchor, b) THEN 0 ELSE row[b].today
           /\ ~row'[b].present => row'[b].used = 0 /\ row'[b].today = 0
  BY <1>1, PlanRows
<1>3. \A b \in Buckets :
        /\ cycle'[b] = IF Again(t, anchor, b) THEN cycle[b] + 1 ELSE cycle[b]
        /\ day'[b] = IF Again(t, anchor, b) THEN day[b] + 1 ELSE day[b]
        /\ strayMonth'[b] = IF Again(t, anchor, b) THEN 0 ELSE strayMonth[b]
        /\ strayDay'[b] = IF Again(t, anchor, b) THEN 0 ELSE strayDay[b]
  BY DEF ChangePlan, Restart, Again
<1>4. /\ UNCHANGED <<members, events, reqs, resets>> /\ changes' = changes + 1
      /\ plan' = t /\ lapsed' = FALSE
  BY DEF ChangePlan, Changing
<1>5. /\ credit' \in [Credits -> CreditRow]
      /\ \A c \in Credits : /\ credit'[c].remaining = credit[c].remaining
                            /\ credit'[c].amount = credit[c].amount
  <2>1. CASE via = "activate"
    BY <1>1, <2>1 DEF ChangePlan, TypeOK
  <2>2. CASE via # "activate"
    <3>1. credit' = Reattributed(t)
      BY <2>2 DEF ChangePlan
    <3> QED
      BY <1>1, <3>1, ReattributedRows
  <2> QED
    BY <2>1, <2>2
<1>6. TypeOK'
  <2>1. /\ cycle' \in [Buckets -> Nat] /\ day' \in [Buckets -> Nat]
        /\ strayMonth' \in [Buckets -> Nat] /\ strayDay' \in [Buckets -> Nat]
    BY <1>1 DEF ChangePlan, Restart, TypeOK
  <2>2. /\ events' \in [Profiles -> Int]
        /\ pc' \in [Requests -> {"idle"} \cup Running \cup Answered]
        /\ tierOf' \in [Requests -> Tiers] /\ tried' \in [Requests -> SUBSET Credits]
        /\ pick' \in [Requests -> Credits \cup {NoCredit}]
        /\ retried' \in [Requests -> BOOLEAN] /\ charge' \in [Requests -> ChargeRecord]
    BY <1>1, <1>4 DEF TypeOK, reqs
  <2>3. plan' \in Tiers /\ lapsed' \in BOOLEAN
    BY <1>4
  <2>4. members' \subseteq Profiles
    BY <1>1, <1>4 DEF TypeOK
  <2>5. resets' \in Nat /\ changes' \in Nat
    BY <1>1, <1>4 DEF TypeOK
  <2> QED
    BY <1>2, <1>5, <2>1, <2>2, <2>3, <2>4, <2>5 DEF TypeOK
<1>7. ChargeOK'
  BY <1>1, <1>3, <1>4, EpochsGrow
<1>8. RowsOK'
  BY <1>2 DEF RowsOK
<1>9. Conserved'
  <2>1. charge' = charge /\ events' = events
    BY <1>4 DEF reqs
  <2> QED
    BY <1>1, <1>2, <1>3, <1>5, <2>1, RestartStep
<1> QED
  BY <1>6, <1>7, <1>8, <1>9 DEF IInv, Shape, Conserved

\* BILLING_ISSUE takes the limits of free; free is never a shared tier, so no
\* profile row goes.
LEMMA BillingIssueInv ==
  ASSUME IInv, NEW first, BillingIssue(first)
  PROVE  IInv'
<1>1. Shape /\ TypeOK /\ ChargeOK /\ RowsOK /\ Conserved /\ Free \in Tiers /\ Free \notin Shared
  BY DEF IInv, Shape, Conserved
<1>2. /\ row' = Reconciled(Free, first) /\ lapsed' = TRUE /\ changes' = changes + 1
      /\ UNCHANGED <<plan, members, credit, events, reqs, history, resets>>
  BY DEF BillingIssue, Changing
<1>3. /\ row' \in [Buckets -> Row]
      /\ \A b \in Buckets : /\ row'[b].used = row[b].used /\ row'[b].today = row[b].today
                            /\ ~row'[b].present => row'[b].used = 0 /\ row'[b].today = 0
  BY <1>1, <1>2, ReconciledRows
<1>4. TypeOK'
  BY <1>1, <1>2, <1>3 DEF TypeOK, reqs, history
<1>5. ChargeOK'
  BY <1>1, <1>2 DEF ChargeOK, reqs, history
<1>6. RowsOK'
  BY <1>3 DEF RowsOK
<1>7. Conserved'
  <2>1. charge' = charge
    BY <1>2 DEF reqs
  <2> QED
    BY <1>1, <1>2, <1>3, <2>1, QuietStep
<1> QED
  BY <1>4, <1>5, <1>6, <1>7 DEF IInv, Shape, Conserved

LEMMA SubscriptionInv ==
  ASSUME IInv, Lapse \/ \E p \in Profiles : RemoveProfile(p)
  PROVE  IInv'
<1>1. Shape /\ TypeOK /\ ChargeOK /\ RowsOK /\ Conserved
  BY DEF IInv, Shape, Conserved
<1>2. /\ lapsed' \in BOOLEAN /\ members' \subseteq Profiles /\ changes' = changes + 1
      /\ UNCHANGED <<plan, row, credit, events, reqs, history, resets>>
  BY <1>1 DEF Lapse, RemoveProfile, Changing, TypeOK
<1>3. TypeOK'
  BY <1>1, <1>2 DEF TypeOK, reqs, history
<1>4. ChargeOK' /\ RowsOK'
  BY <1>1, <1>2 DEF ChargeOK, RowsOK, reqs, history
<1>5. Conserved'
  <2>1. charge' = charge
    BY <1>2 DEF reqs
  <2> QED
    BY <1>1, <1>2, <2>1, QuietStep
<1> QED
  BY <1>3, <1>4, <1>5 DEF IInv, Shape, Conserved

\* Nothing was ever drawn on a batch of amount 0.
LEMMA PurchaseInv ==
  ASSUME IInv, NEW c \in Credits, Purchase(c)
  PROVE  IInv'
<1> DEFINE new == [amount |-> TopUpAmount[plan], remaining |-> TopUpAmount[plan],
                   profile |-> IF plan \in Shared THEN Nobody ELSE Owner,
                   expired |-> FALSE]
<1>1. /\ Shape /\ TypeOK /\ ChargeOK /\ RowsOK /\ Conserved
      /\ credit \in [Credits -> CreditRow] /\ plan \in Tiers
  BY DEF IInv, Shape, Conserved, TypeOK
<1>2. /\ credit' = [credit EXCEPT ![c] = new]
      /\ UNCHANGED <<sub, row, events, reqs, history, bounds>> /\ credit[c].amount = 0
  BY DEF Purchase
<1>3. new \in CreditRow /\ new.amount = new.remaining
  BY <1>1 DEF CreditRow
<1> HIDE DEF new
<1>4. credit'[c] = new /\ \A d \in Credits \ {c} : credit'[d] = credit[d]
  BY <1>1, <1>2
<1>5. credit' \in [Credits -> CreditRow]
  BY <1>1, <1>2, <1>3
<1>6. TypeOK'
  BY <1>1, <1>2, <1>5 DEF TypeOK, sub, reqs, history, bounds
<1>7. ChargeOK' /\ RowsOK'
  BY <1>1, <1>2 DEF ChargeOK, RowsOK, reqs, history
<1>8. MonthConserved' /\ DayConserved' /\ LedgerConserved'
  BY <1>1, <1>2 DEF Conserved, MonthConserved, DayConserved, LedgerConserved,
                    MonthCharges, DayCharges, ChargesOf, TwiceOf, Outstanding,
                    reqs, history
<1>9. CreditConserved'
  <2> SUFFICES ASSUME NEW d \in Credits
               PROVE  credit'[d].remaining + Cardinality(Draws(d)') =
                        credit'[d].amount + Cardinality(TwiceDrawn(d)')
    BY DEF CreditConserved
  <2>1. Draws(d)' = Draws(d) /\ TwiceDrawn(d)' = TwiceDrawn(d)
    BY <1>2 DEF Draws, TwiceDrawn, Outstanding, reqs
  <2>2. credit[d].remaining + Cardinality(Draws(d)) =
          credit[d].amount + Cardinality(TwiceDrawn(d))
    BY <1>1 DEF Conserved, CreditConserved
  <2>4. CASE d # c
    BY <1>4, <2>1, <2>2, <2>4
  <2>5. CASE d = c
    <3>1. Draws(d) = {} /\ TwiceDrawn(d) = {}
      BY <1>1, <1>2, <2>5, BoughtFirst
    <3>2. new.remaining \in Nat
      BY <1>3, CreditFields
    <3>3. Cardinality(Draws(d)') = 0 /\ Cardinality(TwiceDrawn(d)') = 0
      BY <2>1, <3>1, FS_EmptySet
    <3> QED
      BY <1>3, <1>4, <2>5, <3>2, <3>3
  <2> QED
    BY <2>4, <2>5
<1>10. Sold'
  <2>1. new.amount > 0
    BY DEF Purchase, new
  <2>2. \A q \in Requests : charge[q].source = "top_up" =>
           charge[q].credit \in Credits /\ credit[charge[q].credit].amount > 0
    BY <1>1 DEF ChargeOK, Conserved, Sold
  <2>3. charge' = charge
    BY <1>2 DEF reqs
  <2> QED
    BY <1>4, <2>1, <2>2, <2>3 DEF Sold
<1> QED
  BY <1>6, <1>7, <1>8, <1>9, <1>10 DEF IInv, Shape

LEMMA ExpireInv ==
  ASSUME IInv, NEW c \in Credits, Expire(c)
  PROVE  IInv'
<1>1. /\ Shape /\ TypeOK /\ ChargeOK /\ RowsOK /\ Conserved
      /\ credit \in [Credits -> CreditRow]
  BY DEF IInv, Shape, Conserved, TypeOK
<1>2. /\ credit' = [credit EXCEPT ![c].expired = TRUE]
      /\ UNCHANGED <<sub, row, events, reqs, history, bounds>>
  BY DEF Expire
<1>3. /\ credit' \in [Credits -> CreditRow]
      /\ \A d \in Credits : /\ credit'[d].remaining = credit[d].remaining
                            /\ credit'[d].amount = credit[d].amount
  BY <1>1, <1>2 DEF CreditRow
<1>4. TypeOK'
  BY <1>1, <1>2, <1>3 DEF TypeOK, sub, reqs, history, bounds
<1>5. ChargeOK' /\ RowsOK'
  BY <1>1, <1>2 DEF ChargeOK, RowsOK, reqs, history
<1>6. Conserved'
  <2>1. charge' = charge
    BY <1>2 DEF reqs
  <2> QED
    BY <1>1, <1>2, <1>3, <2>1, QuietStep
<1> QED
  BY <1>4, <1>5, <1>6 DEF IInv, Shape, Conserved

----------------------------------------------------------------------------
(* The theorems *)

LEMMA InitInv == Init => IInv
<1> SUFFICES ASSUME Init PROVE IInv
  OBVIOUS
<1>1. plan \in Tiers
  BY DEF Init
<1>2. /\ \A b \in Buckets : Fresh(plan, b) \in Row /\ Fresh(plan, b).used = 0
                            /\ Fresh(plan, b).today = 0 /\ Fresh(plan, b).present
      /\ Absent \in Row /\ Absent.used = 0 /\ Absent.today = 0
  BY <1>1, FreshType, AbsentType
<1>3. \A b \in Buckets : row[b] = Fresh(plan, b) \/ row[b] = Absent
  BY DEF Init
<1>4. row \in [Buckets -> Row]
  BY <1>2 DEF Init
<1>5. \A b \in Buckets : row[b].used = 0 /\ row[b].today = 0
  BY <1>2, <1>3
<1>6. NotBought \in CreditRow /\ NotCharged \in ChargeRecord
  BY DEF NotBought, NotCharged, CreditRow, ChargeRecord
<1>7. TypeOK
  <2>1. plan \in Tiers /\ lapsed \in BOOLEAN /\ members \subseteq Profiles
    BY <1>1 DEF Init
  <2>2. credit \in [Credits -> CreditRow] /\ charge \in [Requests -> ChargeRecord]
    BY <1>6 DEF Init
  <2>3. /\ events \in [Profiles -> Int]
        /\ pc \in [Requests -> {"idle"} \cup Running \cup Answered]
        /\ tierOf \in [Requests -> Tiers] /\ tried \in [Requests -> SUBSET Credits]
        /\ pick \in [Requests -> Credits \cup {NoCredit}]
        /\ retried \in [Requests -> BOOLEAN]
    BY DEF Init
  <2>4. /\ cycle \in [Buckets -> Nat] /\ day \in [Buckets -> Nat]
        /\ strayMonth \in [Buckets -> Nat] /\ strayDay \in [Buckets -> Nat]
        /\ resets \in Nat /\ changes \in Nat
    BY DEF Init
  <2> QED
    BY <1>4, <2>1, <2>2, <2>3, <2>4 DEF TypeOK
<1>8. \A r \in Requests : /\ charge[r].source = "none" /\ charge[r].refunds = 0
                           /\ pc[r] = "idle"
  BY DEF Init, NotCharged
<1>9. ChargeOK /\ RowsOK
  BY <1>5, <1>8 DEF ChargeOK, RowsOK, Paying, Times
<1>10. /\ \A b \in Buckets : MonthCharges(b) = {} /\ DayCharges(b) = {}
       /\ \A c \in Credits : Draws(c) = {} /\ TwiceDrawn(c) = {}
       /\ \A p \in Profiles : ChargesOf(p) = {} /\ TwiceOf(p) = {}
  BY <1>8 DEF MonthCharges, DayCharges, Draws, ChargesOf, TwiceDrawn, TwiceOf, Outstanding
<1>11. Cardinality({}) = 0
  BY FS_EmptySet
<1>12. \A c \in Credits : credit[c].remaining = 0 /\ credit[c].amount = 0
  BY DEF Init, NotBought
<1>13. \A b \in Buckets : strayMonth[b] = 0 /\ strayDay[b] = 0
  BY DEF Init
<1>14. MonthConserved /\ DayConserved
  <2> SUFFICES ASSUME NEW b \in Buckets
               PROVE  /\ row[b].used <= Cardinality(MonthCharges(b))
                      /\ Cardinality(MonthCharges(b)) <= row[b].used + strayMonth[b]
                      /\ row[b].today <= Cardinality(DayCharges(b))
                      /\ Cardinality(DayCharges(b)) <= row[b].today + strayDay[b]
    BY DEF MonthConserved, DayConserved
  <2>1. Cardinality(MonthCharges(b)) = 0 /\ Cardinality(DayCharges(b)) = 0
    BY <1>10, <1>11
  <2> QED
    BY <1>5, <1>13, <2>1
<1>15. CreditConserved
  <2> SUFFICES ASSUME NEW c \in Credits
               PROVE  credit[c].remaining + Cardinality(Draws(c)) =
                        credit[c].amount + Cardinality(TwiceDrawn(c))
    BY DEF CreditConserved
  <2>1. Cardinality(Draws(c)) = 0 /\ Cardinality(TwiceDrawn(c)) = 0
    BY <1>10, <1>11
  <2> QED
    BY <1>12, <2>1
<1>16. LedgerConserved
  <2> SUFFICES ASSUME NEW p \in Profiles
               PROVE  events[p] = Cardinality(ChargesOf(p)) - Cardinality(TwiceOf(p))
    BY DEF LedgerConserved
  <2>1. Cardinality(ChargesOf(p)) = 0 /\ Cardinality(TwiceOf(p)) = 0
    BY <1>10, <1>11
  <2> QED
    BY <2>1 DEF Init
<1>17. Sold
  BY <1>8 DEF Sold
<1> QED
  BY <1>7, <1>9, <1>14, <1>15, <1>16, <1>17 DEF IInv, Shape

LEMMA NextInv == IInv /\ [Next]_vars => IInv'
<1> SUFFICES ASSUME IInv, [Next]_vars PROVE IInv'
  OBVIOUS
<1>1. CASE \E r \in Requests : Request(r)
  <2>1. PICK r \in Requests : Request(r)
    BY <1>1
  <2> QED
    BY <2>1, DecrementInv, SettleInv, RefundInv DEF Request
<1>2. CASE \E due \in SUBSET {b \in Buckets : row[b].present} : QuotaReset(due)
  BY <1>2, QuotaResetInv
<1>3. CASE \E first \in FirstChild :
             \/ \E t \in Tiers, via \in {"update", "stripe", "activate"},
                   anchor \in BOOLEAN : ChangePlan(t, via, anchor, first)
             \/ BillingIssue(first)
  BY <1>3, ChangePlanInv, BillingIssueInv
<1>4. CASE Lapse \/ \E p \in Profiles : RemoveProfile(p)
  BY <1>4, SubscriptionInv
<1>5. CASE \E c \in Credits : Purchase(c) \/ Expire(c)
  BY <1>5, PurchaseInv, ExpireInv
<1>6. CASE UNCHANGED vars
  <2>1. /\ Shape /\ Conserved
    BY DEF IInv, Shape, Conserved
  <2>2. TypeOK' /\ ChargeOK' /\ RowsOK'
    BY <1>6, <2>1 DEF Shape, TypeOK, ChargeOK, RowsOK, vars
  <2>3. Conserved'
    BY <1>6, <2>1, QuietStep DEF vars, history
  <2> QED
    BY <2>2, <2>3 DEF IInv, Shape, Conserved
<1> QED
  BY <1>1, <1>2, <1>3, <1>4, <1>5, <1>6 DEF Next

\* Every reachable state satisfies the inductive invariant.
THEOREM Invariance == Spec => []IInv
<1>1. Init => IInv
  BY InitInv
<1>2. IInv /\ [Next]_vars => IInv'
  BY NextInv
<1> QED
  BY <1>1, <1>2, PTL DEF Spec

\* The columns keep their types: no counter is ever driven below zero.
THEOREM TypeCorrect == Spec => []TypeOK
<1>1. IInv => TypeOK
  BY DEF IInv, Shape
<1> QED
  BY <1>1, Invariance, PTL

\* used_this_month (metering.ts) loses no concurrent update: it bills the charges
\* of the running cycle, short of the refunds made late or twice only.
THEOREM CountersConserved == Spec => []MonthConserved
<1>1. IInv => MonthConserved
  BY DEF IInv
<1> QED
  BY <1>1, Invariance, PTL

\* So does used_today (metering.ts) with the charges of the running day.
THEOREM DaysConserved == Spec => []DayConserved
<1>1. IInv => DayConserved
  BY DEF IInv
<1> QED
  BY <1>1, Invariance, PTL

\* A top-up credit is left or pays for exactly one request not refunded; only a
\* request refunded twice leaves one over.
THEOREM CreditsConserved == Spec => []CreditConserved
<1>1. IInv => CreditConserved
  BY DEF IInv
<1> QED
  BY <1>1, Invariance, PTL

\* The usage_events ledger agrees with the charges, person by person, less one
\* for each request refunded twice.
THEOREM LedgerAgrees == Spec => []LedgerConserved
<1>1. IInv => LedgerConserved
  BY DEF IInv
<1> QED
  BY <1>1, Invariance, PTL

----------------------------------------------------------------------------
(* No overdraw: the guard of the UPDATE bounds the counter, and the counter *)
(* is, by conservation, the number of charges short of the stray refunds.    *)

\* Only the two counting UPDATEs put a charge on a request.
LEMMA ChargingSteps ==
  ASSUME Shape, [Next]_vars, NEW r \in Requests,
         charge[r].source = "none", charge'[r].source # "none"
  PROVE  \/ ChargeMonthly(r)
         \/ TakeCredit(r) /\ DailyRoom(row[Target(r)])
<1>1. charge \in [Requests -> ChargeRecord]
  BY DEF Shape, TypeOK
<1>2. charge' # charge
  OBVIOUS
<1>3. PICK q \in Requests : Request(q)
  BY <1>2 DEF Next, vars, QuotaReset, ChangePlan, BillingIssue, Lapse, RemoveProfile,
     Purchase, Expire, reqs
<1>4. ~Serve(q) /\ ~RefundLost(q)
  BY <1>2 DEF Serve, RefundLost
<1>5. ~Refund(q) /\ ~RefundAgain(q)
  BY <1>1 DEF Refund, RefundAgain, GiveBack, ChargeRecord
<1>6. ChargeMonthly(q) \/ (TakeCredit(q) /\ DailyRoom(row[Target(q)]))
  BY <1>2, <1>3, <1>4, <1>5 DEF Request, Decrement, Begin, MissMonthly, Classify,
     Provision, SelectCredit, Reread, LoseCredit, TakeCredit
<1>7. q = r
  BY <1>1, <1>6 DEF ChargeMonthly, TakeCredit, Charge
<1> QED
  BY <1>6, <1>7

LEMMA ChargeFits ==
  ASSUME Shape, [Next]_vars, NEW r \in Requests, NEW b \in Buckets,
         charge[r].source = "none", charge'[r].source # "none", charge'[r].bucket = b
  PROVE  /\ charge'[r].source = "monthly" => row'[b].used <= row'[b].monthlyLimit
         /\ row'[b].dailyLimit # NoLimit => row'[b].today <= row'[b].dailyLimit
<1>1. /\ TypeOK /\ Target(r) \in Buckets /\ row[Target(r)] \in Row
      /\ charge \in [Requests -> ChargeRecord]
  BY TargetType DEF Shape, TypeOK
<1>2. CASE ChargeMonthly(r)
  <2> DEFINE x == Clamped(r)
             y == [x EXCEPT !.used = x.used + 1, !.today = x.today + 1]
  <2>1. b = Target(r)
    BY <1>1, <1>2 DEF ChargeMonthly, Charge, ChargedTo
  <2>2. row'[b] = y /\ HasRoom(x)
    BY <1>1, <1>2, <2>1 DEF ChargeMonthly, TypeOK
  <2>3. x \in Row
    BY <1>1, ClampedType
  <2> HIDE DEF x
  <2>4. /\ x.used \in Nat /\ x.today \in Nat /\ x.monthlyLimit \in Nat
        /\ x.dailyLimit \in Nat \cup {NoLimit}
    BY <2>3, RowFields
  <2>5. /\ y.used = x.used + 1 /\ y.today = x.today + 1
        /\ y.monthlyLimit = x.monthlyLimit /\ y.dailyLimit = x.dailyLimit
    BY <2>3 DEF Row
  <2>6. /\ x.used < x.monthlyLimit
        /\ x.dailyLimit = NoLimit \/ x.today < x.dailyLimit
    BY <2>2 DEF HasRoom, DailyRoom
  <2> HIDE DEF y
  <2> QED
    BY <2>2, <2>4, <2>5, <2>6 DEF NoLimit
<1>3. CASE TakeCredit(r) /\ DailyRoom(row[Target(r)])
  <2> DEFINE x == row[Target(r)]
             y == [x EXCEPT !.today = x.today + 1]
  <2>1. b = Target(r) /\ charge'[r].source = "top_up"
    BY <1>1, <1>3 DEF TakeCredit, Charge, ChargedTo
  <2>2. row'[b] = y /\ DailyRoom(x) /\ x \in Row
    BY <1>1, <1>3, <2>1 DEF TakeCredit, TypeOK
  <2> HIDE DEF x
  <2>3. x.today \in Nat /\ x.dailyLimit \in Nat \cup {NoLimit}
    BY <2>2, RowFields
  <2>4. y.today = x.today + 1 /\ y.dailyLimit = x.dailyLimit
    BY <2>2 DEF Row
  <2>5. x.dailyLimit = NoLimit \/ x.today < x.dailyLimit
    BY <2>2 DEF DailyRoom
  <2> HIDE DEF y
  <2> QED
    BY <2>1, <2>2, <2>3, <2>4, <2>5 DEF NoLimit
<1> QED
  BY <1>2, <1>3, ChargingSteps

LEMMA StepWithinLimits ==
  ASSUME IInv, IInv', [Next]_vars
  PROVE  WithinLimits
<1> SUFFICES ASSUME NEW r \in Requests, NEW b \in Buckets,
                    charge[r].source = "none", charge'[r].source # "none",
                    charge'[r].bucket = b
             PROVE  /\ charge'[r].source = "monthly" =>
                         Cardinality(MonthCharges(b))' <= row'[b].monthlyLimit + strayMonth'[b]
                    /\ row'[b].dailyLimit # NoLimit =>
                         Cardinality(DayCharges(b))' <= row'[b].dailyLimit + strayDay'[b]
  BY DEF WithinLimits
<1>1. /\ charge'[r].source = "monthly" => row'[b].used <= row'[b].monthlyLimit
      /\ row'[b].dailyLimit # NoLimit => row'[b].today <= row'[b].dailyLimit
  BY ChargeFits DEF IInv
<1>2. /\ Cardinality(MonthCharges(b))' <= row'[b].used + strayMonth'[b]
      /\ Cardinality(DayCharges(b))' <= row'[b].today + strayDay'[b]
  BY DEF IInv, MonthConserved, DayConserved
<1>3. row'[b] \in Row /\ strayMonth'[b] \in Nat /\ strayDay'[b] \in Nat
  BY DEF IInv, Shape, TypeOK
<1>4. /\ row'[b].used \in Nat /\ row'[b].today \in Nat /\ row'[b].monthlyLimit \in Nat
      /\ row'[b].dailyLimit \in Nat \cup {NoLimit}
  BY <1>3, RowFields
<1>5. MonthCharges(b)' \in SUBSET Requests /\ DayCharges(b)' \in SUBSET Requests
  BY DEF MonthCharges, DayCharges
<1>6. Cardinality(MonthCharges(b)') \in Nat /\ Cardinality(DayCharges(b)') \in Nat
  BY <1>5, SizeOf
<1> QED
  BY <1>1, <1>2, <1>3, <1>4, <1>6

\* However many requests race for the last question, the charges of a cycle or
\* a day stay within its limit, but for refunds made late or twice (the guards
\* of metering.ts).
THEOREM NothingOverdrawn == Spec => NoOverdraw
<1>1. IInv /\ IInv' /\ [Next]_vars => WithinLimits
  BY StepWithinLimits
<1> QED
  BY <1>1, Invariance, PTL DEF Spec, NoOverdraw

=============================================================================
