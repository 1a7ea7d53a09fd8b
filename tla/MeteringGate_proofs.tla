------------------------ MODULE MeteringGate_proofs ------------------------
(* Proofs about the metering middleware of MeteringGate, for any number of    *)
(* requests of any kinds, any plans, any stock of top-ups and any number of   *)
(* cron runs and plan changes.                                                *)
(*                                                                            *)
(* Neither property is inductive. A refusal is excused by what the request    *)
(* read, so the proof carries from the read to the answer that counters       *)
(* which leave no room are the pool's own (Excused); a failure is paid back   *)
(* by whoever got there - the handler, the middleware, the streamed body - so *)
(* it carries, for every place in the middleware, what is still owed (Owed),  *)
(* and which charges can strand.                                              *)
EXTENDS MeteringGate, TLAPS

----------------------------------------------------------------------------
(* The inductive invariants *)

HasLimit(x) == x.limit > 0

\* Every plan ever stored, cached or read has a monthly quota.
Quotas ==
  /\ HasLimit(pool) /\ HasLimit(snapshot)
  /\ kv # NoEntry => HasLimit(kv)
  /\ \A r \in Requests : HasLimit(seen[r])

\* Counters without room that a request still works with, or was refused by,
\* are no stale ones: the pool was full while it ran.
Excused == \A r \in Requests :
  /\ pc[r] \in {"backfill", "topups"} => Room(seen[r]) \/ full[r]
  /\ pc[r] = "refused" => full[r]

RefusalInv == TypeOK /\ Quotas /\ Excused

BeforeCharge == {"idle", "pool", "backfill", "topups", "charge", "refused"}
BeforeAnswer == BeforeCharge \cup {"aggregate", "handler"}
Answered == {"settle", "done"}
AfterTopUp == {"aggregate", "stranded"}

\* One request is charged at most once; past the middleware only a streamed body
\* that has not ended may still come to owe a refund.
Owed == \A r \in Requests :
  /\ net[r] <= 1
  /\ pc[r] \in BeforeCharge => net[r] <= 0
  /\ pc[r] \in BeforeAnswer => ~failed[r]
  /\ pc[r] \notin Answered => body[r] = "none"
  /\ body[r] = "running" => ~failed[r]
  /\ pc[r] \in Answered /\ body[r] # "running" /\ failed[r] => net[r] <= 0 \/ escalated[r]
  /\ pc[r] \in AfterTopUp => result[r].source = "top_up"

----------------------------------------------------------------------------
(* The counters *)

\* What the middleware computes on the way are counters again.
LEMMA SettledType ==
  ASSUME TypeOK, NEW r \in Requests
  PROVE  Settled(r) \in Counters /\ Settled(r).limit = seen[r].limit
<1>1. /\ seen[r] \in Counters /\ result[r] \in Results
  BY DEF TypeOK
<1>2. /\ seen[r].limit - result[r].monthly - result[r].topUp \in Int
      /\ seen[r].today + 1 \in Int
      /\ result[r].daily \in Int
  BY <1>1 DEF Counters, Results
<1>3. seen[r].dailyLimit # NoLimit => seen[r].dailyLimit - result[r].daily \in Int
  BY <1>1, <1>2 DEF Counters, NoLimit
<1> QED BY <1>1, <1>2, <1>3 DEF Settled, Counters

\* A counter is never taken below zero by a refund.
LEMMA FloorType ==
  ASSUME NEW n \in Int
  PROVE  Floor(n) \in Nat
BY DEF Floor

\* Other counts leave the row's limits alone.
LEMMA Recounted ==
  ASSUME pool \in Counters, NEW m \in Int, NEW n \in Int,
         pool' = [pool EXCEPT !.today = m, !.used = n]
  PROVE  /\ pool' \in Counters /\ pool'.used = n /\ pool'.today = m
         /\ pool'.limit = pool.limit
BY DEF Counters

\* The refund keeps the types, whether or not it goes through.
LEMMA RefundTypes ==
  ASSUME TypeOK, NEW r \in Requests, GiveBack(r) \/ GiveBackFails(r)
  PROVE  /\ pool' \in Counters /\ pool'.used >= 0 /\ pool'.today >= 0
         /\ pool'.limit = pool.limit
         /\ topUp' \in Nat
         /\ net' \in [Requests -> Int]
         /\ escalated' \in [Requests -> BOOLEAN]
<1>1. CASE GiveBack(r)
  <2> DEFINE t == Floor(pool.today - 1)
             u == IF result[r].source = "monthly" THEN Floor(pool.used - 1) ELSE pool.used
  <2>1. /\ t \in Int /\ t >= 0 /\ u \in Int /\ u >= 0 /\ pool \in Counters
    BY FloorType DEF TypeOK, Counters
  <2>2. net' \in [Requests -> Int] /\ topUp' \in Nat /\ UNCHANGED escalated
    BY <1>1 DEF GiveBack, TypeOK
  <2>3. /\ pool' \in Counters /\ pool'.used >= 0 /\ pool'.today >= 0
        /\ pool'.limit = pool.limit
    <3>1. pool' = [pool EXCEPT !.today = t, !.used = u]
      BY <1>1 DEF GiveBack
    <3> QED BY <2>1, <3>1, Recounted
  <2> QED BY <2>2, <2>3 DEF TypeOK
<1>2. CASE GiveBackFails(r)
  BY <1>2 DEF GiveBackFails, TypeOK
<1> QED BY <1>1, <1>2

----------------------------------------------------------------------------
(* Types *)

LEMMA InitTypes == Init => TypeOK /\ Quotas /\ Excused /\ Owed
<1> SUFFICES ASSUME Init PROVE TypeOK /\ Quotas /\ Excused /\ Owed
  OBVIOUS
<1>1. pool \in Counters /\ pool.used = 0 /\ pool.today = 0 /\ pool.limit > 0
  BY LimitAssumption DEF Init, Counters, NoLimit
<1>2. NoResult \in Results
  BY DEF NoResult, Results, NoLimit
<1>3. topUp \in Nat
  BY LimitAssumption DEF Init
<1>4. TypeOK
  BY <1>1, <1>2, <1>3 DEF Init, TypeOK, Labels
<1>5. Quotas
  BY <1>1 DEF Init, Quotas, HasLimit
<1>6. Excused /\ Owed
  BY DEF Init, Excused, Owed, BeforeCharge, BeforeAnswer, Answered, AfterTopUp
<1> QED BY <1>4, <1>5, <1>6

\* Every step keeps the types and the plans' quotas.
LEMMA TypesStep ==
  ASSUME TypeOK, Quotas, [Next]_vars
  PROVE  TypeOK' /\ Quotas'
<1>1. CASE UNCHANGED vars
  BY <1>1 DEF vars, TypeOK, Quotas, HasLimit
<1>2. ASSUME Watch PROVE full' \in [Requests -> BOOLEAN]
  BY <1>2 DEF Watch, TypeOK
<1> DEFINE Rest == /\ pool' \in Counters /\ pool'.used >= 0 /\ pool'.today >= 0
                   /\ pool'.limit > 0
                   /\ topUp' \in Nat
                   /\ kv' \in Counters \cup {NoEntry}
                   /\ kv' # NoEntry => kv'.limit > 0
                   /\ pc' \in [Requests -> Labels]
                   /\ seen' \in [Requests -> Counters]
                   /\ \A q \in Requests : seen'[q].limit > 0
                   /\ credits' \in [Requests -> Nat]
                   /\ result' \in [Requests -> Results]
                   /\ body' \in [Requests -> {"none", "running", "ended"}]
                   /\ refunded' \in [Requests -> BOOLEAN]
                   /\ webhook' \in {"idle", "changed", "read"}
                   /\ snapshot' \in Counters /\ snapshot'.limit > 0
                   /\ net' \in [Requests -> Int]
                   /\ failed' \in [Requests -> BOOLEAN]
                   /\ escalated' \in [Requests -> BOOLEAN]
                   /\ resets' \in Nat /\ changes' \in Nat
<1> USE DEF TypeOK, Quotas, HasLimit, store, local, history, env, At, Goto, Labels
<1>3. ASSUME NEW r \in Requests, ReadCache(r) PROVE Rest
  BY <1>3 DEF ReadCache, Trusted
<1>4. ASSUME NEW r \in Requests, ReadPool(r) PROVE Rest
  BY <1>4 DEF ReadPool
<1>5. ASSUME NEW r \in Requests, Backfill(r) PROVE Rest
  BY <1>5 DEF Backfill
<1>6. ASSUME NEW r \in Requests, ReadTopUps(r) PROVE Rest
  BY <1>6 DEF ReadTopUps
<1>7. ASSUME NEW r \in Requests, Charge(r) PROVE Rest
  <2>1. /\ pool' \in Counters /\ pool'.used >= 0 /\ pool'.today >= 0
        /\ pool'.limit = pool.limit /\ topUp' \in Nat
    <3>0. /\ pool.used + 1 \in Int /\ pool.today + 1 \in Int
          /\ pool.used >= 0 /\ pool.used + 1 >= 0 /\ pool.today + 1 >= 0
      BY DEF Counters
    <3>1. CASE ChargePool(r)
      <4>1. pool' = [pool EXCEPT !.used = pool.used + 1, !.today = pool.today + 1]
        BY <3>1 DEF ChargePool
      <4>2. /\ pool' \in Counters /\ pool'.limit = pool.limit
            /\ pool'.used = pool.used + 1 /\ pool'.today = pool.today + 1
        BY <3>0, <4>1 DEF Counters
      <4> QED BY <3>0, <3>1, <4>2 DEF ChargePool
    <3>2. CASE ChargeTopUp(r)
      <4>1. /\ pool' \in Counters /\ pool'.limit = pool.limit
            /\ pool'.used = pool.used /\ pool'.today = pool.today + 1
        BY <3>0, <3>2 DEF ChargeTopUp, Counters
      <4> QED BY <3>0, <3>2, <4>1 DEF ChargeTopUp
    <3> QED BY <1>7, <3>1, <3>2 DEF Charge
  <2>2. RemainingDaily(pool') \in Int
    BY <2>1 DEF RemainingDaily, Counters, NoLimit
  <2>3. result' \in [Requests -> Results]
    BY <1>7, <2>1, <2>2 DEF Charge, ChargePool, ChargeTopUp, Results, Counters
  <2>4. pc' \in [Requests -> Labels] /\ net' \in [Requests -> Int]
    BY <1>7 DEF Charge, ChargePool, ChargeTopUp
  <2> QED BY <1>7, <2>1, <2>3, <2>4 DEF Charge
<1>8. ASSUME NEW r \in Requests, Refuse(r) PROVE Rest
  BY <1>8 DEF Refuse
<1>9. ASSUME NEW r \in Requests, Aggregate(r) PROVE Rest
  BY <1>9 DEF Aggregate, Results
<1>18. ASSUME NEW r \in Requests, AggregateFails(r) PROVE Rest
  BY <1>18 DEF AggregateFails
<1>10. ASSUME NEW r \in Requests, HandlerAnswers(r) PROVE Rest
  BY <1>10 DEF HandlerAnswers
<1>11. ASSUME NEW r \in Requests, HandlerFails(r) PROVE Rest
  BY <1>11 DEF HandlerFails
<1>12. ASSUME NEW r \in Requests, HandlerRefunds(r) PROVE Rest
  <2>1. GiveBack(r) \/ GiveBackFails(r)
    BY <1>12 DEF HandlerRefunds
  <2> QED BY <1>12, <2>1, RefundTypes DEF HandlerRefunds
<1>13. ASSUME NEW r \in Requests, StreamEnds(r) PROVE Rest
  <2>1. CASE UNCHANGED <<store, history>>
    BY <1>13, <2>1 DEF StreamEnds
  <2>2. CASE GiveBack(r) \/ GiveBackFails(r)
    BY <1>13, <2>2, RefundTypes DEF StreamEnds
  <2> QED BY <1>13, <2>1, <2>2 DEF StreamEnds
<1>14. ASSUME NEW r \in Requests, Invalidate(r) PROVE Rest
  BY <1>14 DEF Invalidate
<1>15. ASSUME NEW r \in Requests, RefundFailure(r) PROVE Rest
  <2>1. GiveBack(r) \/ GiveBackFails(r)
    BY <1>15 DEF RefundFailure
  <2> QED BY <1>15, <2>1, RefundTypes DEF RefundFailure
<1>16. ASSUME NEW r \in Requests, Settle(r) PROVE Rest
  <2>1. kv' \in {kv, NoEntry, Settled(r)}
    BY <1>16 DEF Settle
  <2>2. Settled(r) \in Counters /\ Settled(r).limit > 0
    BY SettledType
  <2> QED BY <1>16, <2>1, <2>2 DEF Settle
<1>17. ASSUME Others PROVE Rest
  <2>1. ASSUME NEW monthly \in BOOLEAN, QuotaReset(monthly) PROVE Rest
    <3> DEFINE u == IF monthly THEN 0 ELSE pool.used
    <3>1. pool' = [pool EXCEPT !.today = 0, !.used = u] /\ u \in Int /\ u >= 0
      BY <2>1 DEF QuotaReset, Counters
    <3>2. /\ pool' \in Counters /\ pool'.used = u /\ pool'.today = 0
          /\ pool'.limit = pool.limit
      <4>1. pool \in Counters /\ 0 \in Int
        OBVIOUS
      <4> HIDE DEF u, TypeOK, Quotas
      <4> QED BY <3>1, <4>1, Recounted
    <3> QED BY <2>1, <3>2 DEF QuotaReset
  <2>2. ASSUME NEW limit \in Limits, PlanChange(limit) PROVE Rest
    <3>1. limit \in Nat /\ limit > 0
      BY LimitAssumption
    <3> QED BY <2>2, <3>1 DEF PlanChange, Counters
  <2>3. CASE RefreshRead
    BY <2>3 DEF RefreshRead
  <2>4. CASE RefreshWrite
    BY <2>4 DEF RefreshWrite
  <2>5. CASE Evict
    BY <2>5 DEF Evict
  <2> QED BY <1>17, <2>1, <2>2, <2>3, <2>4, <2>5 DEF Others
<1> QED
  <2>1. CASE Next
    <3>1. Watch
      BY <2>1 DEF Next
    <3>2. Rest
      BY <2>1, <1>3, <1>4, <1>5, <1>6, <1>7, <1>8, <1>9, <1>10, <1>11, <1>12, <1>13,
         <1>14, <1>15, <1>16, <1>17, <1>18 DEF Next, Middleware
    <3> QED BY <3>1, <3>2, <1>2
  <2> QED BY <1>1, <2>1

\* The row, the snapshot and the requests keep their types.
THEOREM TypeCorrect == Spec => []TypeOK
<1>1. TypeOK /\ Quotas /\ [Next]_vars => (TypeOK /\ Quotas)'
  BY TypesStep
<1> QED BY InitTypes, <1>1, PTL DEF Spec

----------------------------------------------------------------------------
(* No stale refusal *)

\* The counters of a trusted snapshot leave room.
LEMMA TrustedRoom ==
  ASSUME NEW x, Trusted(x), HasLimit(x)
  PROVE  Room(x)
BY DEF Trusted, HasLimit, Room

\* Counters that leave room allow the request, whatever the top-ups.
LEMMA RoomAllows ==
  ASSUME NEW x \in Counters, NEW extra \in Nat, Room(x)
  PROVE  Allowed(x, extra)
<1>1. x.used \in Int /\ x.limit \in Int /\ x.used < x.limit /\ ~DailyFull(x)
  BY DEF Room, MonthFull, Counters
<1> QED BY <1>1 DEF Allowed, Floor

\* A step that moves at most request r, and finds an excuse where it puts it.
LEMMA ExcusedFrame ==
  ASSUME TypeOK, Excused, Watch, NEW r \in Requests,
         \A q \in Requests \ {r} : pc'[q] = pc[q] /\ seen'[q] = seen[q],
         pc'[r] \in {"backfill", "topups"} => Room(seen'[r]) \/ full'[r],
         pc'[r] = "refused" => full'[r]
  PROVE  Excused'
<1>1. \A q \in Requests : full[q] => full'[q]
  BY DEF Watch
<1> SUFFICES ASSUME NEW q \in Requests, q # r
             PROVE  /\ pc'[q] \in {"backfill", "topups"} => Room(seen'[q]) \/ full'[q]
                    /\ pc'[q] = "refused" => full'[q]
  BY DEF Excused
<1> QED BY <1>1 DEF Excused

LEMMA ExcusedStep ==
  ASSUME RefusalInv, [Next]_vars
  PROVE  Excused'
<1>0. TypeOK /\ Quotas /\ Excused
  BY DEF RefusalInv
<1>1. CASE UNCHANGED vars
  BY <1>0, <1>1 DEF vars, Excused
<1>2. CASE Next
  <2>1. Watch
    BY <1>2 DEF Next
  <2>2. /\ \A q \in Requests : full[q] => full'[q]
        /\ \A q \in Requests : pc'[q] # "idle" /\ ~Room(pool) => full'[q]
    BY <2>1 DEF Watch
  <2>3. pc \in [Requests -> Labels] /\ seen \in [Requests -> Counters]
    BY <1>0 DEF TypeOK
  <2> USE DEF At, Goto, local
  <2>4. ASSUME NEW r \in Requests, ReadCache(r) PROVE Excused'
    <3>1. CASE Trusted(kv) /\ seen' = [seen EXCEPT ![r] = kv] /\ Goto(r, "topups")
      <4>1. Room(kv)
        BY <1>0, <3>1, TrustedRoom DEF Quotas, Trusted
      <4> QED BY <1>0, <2>1, <2>3, <3>1, <4>1, ExcusedFrame
    <3>2. CASE UNCHANGED seen /\ Goto(r, "pool")
      BY <1>0, <2>1, <2>3, <3>2, ExcusedFrame
    <3> QED BY <2>4, <3>1, <3>2 DEF ReadCache
  <2>5. ASSUME NEW r \in Requests, ReadPool(r) PROVE Excused'
    <3>1. pc'[r] = "backfill" /\ seen'[r] = pool
      BY <2>3, <2>5 DEF ReadPool
    <3> QED BY <1>0, <2>1, <2>2, <2>3, <2>5, <3>1, ExcusedFrame DEF ReadPool
  <2>6. ASSUME NEW r \in Requests, Backfill(r) PROVE Excused'
    BY <1>0, <2>1, <2>2, <2>3, <2>6, ExcusedFrame DEF Backfill, Excused
  <2>7. ASSUME NEW r \in Requests, ReadTopUps(r) PROVE Excused'
    <3>1. pc'[r] = "refused" => ~Allowed(seen[r], topUp)
      BY <2>3, <2>7 DEF ReadTopUps
    <3>2. seen[r] \in Counters /\ topUp \in Nat
      BY <1>0 DEF TypeOK
    <3>3. pc'[r] = "refused" => full'[r]
      BY <1>0, <2>2, <2>7, <3>1, <3>2, RoomAllows DEF ReadTopUps, Excused
    <3>4. pc'[r] \notin {"backfill", "topups"}
      BY <2>3, <2>7 DEF ReadTopUps
    <3> QED BY <1>0, <2>1, <2>3, <2>7, <3>3, <3>4, ExcusedFrame DEF ReadTopUps
  <2>8. ASSUME NEW r \in Requests, Refuse(r) PROVE Excused'
    <3>1. pc'[r] = "refused" /\ ~Room(pool)
      BY <2>3, <2>8 DEF Refuse
    <3> QED BY <1>0, <2>1, <2>2, <2>3, <2>8, <3>1, ExcusedFrame DEF Refuse
  <2>9. ASSUME NEW r \in Requests,
               \/ Charge(r) \/ Aggregate(r) \/ HandlerAnswers(r) \/ HandlerFails(r)
               \/ HandlerRefunds(r) \/ Invalidate(r) \/ RefundFailure(r) \/ Settle(r)
               \/ AggregateFails(r)
        PROVE  Excused'
    <3>1. PICK l \in {"handler", "aggregate", "settle", "invalidate", "refund", "done",
                      "stranded"} :
            pc' = [pc EXCEPT ![r] = l]
      BY <2>9 DEF Charge, ChargePool, ChargeTopUp, Aggregate, AggregateFails, HandlerAnswers, HandlerFails,
                  HandlerRefunds, Invalidate, RefundFailure, Settle
    <3>2. UNCHANGED seen
      BY <2>9 DEF Charge, Aggregate, AggregateFails, HandlerAnswers, HandlerFails,
                  HandlerRefunds, Invalidate, RefundFailure, Settle
    <3> QED BY <1>0, <2>1, <2>3, <3>1, <3>2, ExcusedFrame
  <2>10. ASSUME UNCHANGED <<pc, seen>> PROVE Excused'
    BY <1>0, <2>2, <2>10 DEF Excused
  <2>11. ASSUME NEW r \in Requests, StreamEnds(r) PROVE UNCHANGED <<pc, seen>>
    BY <2>11 DEF StreamEnds
  <2>12. ASSUME Others PROVE UNCHANGED <<pc, seen>>
    BY <2>12 DEF Others, QuotaReset, PlanChange, RefreshRead, RefreshWrite, Evict
  <2> QED BY <1>2, <2>4, <2>5, <2>6, <2>7, <2>8, <2>9, <2>10, <2>11, <2>12
          DEF Next, Middleware
<1> QED BY <1>1, <1>2

\* However stale the snapshot was, a request is refused only if the pool itself
\* was exhausted at some moment while it ran.
THEOREM RefusalsJust == Spec => []NoStaleRefusal
<1>1. Init => RefusalInv
  BY InitTypes DEF RefusalInv
<1>2. RefusalInv /\ [Next]_vars => RefusalInv'
  BY TypesStep, ExcusedStep DEF RefusalInv
<1>3. RefusalInv => NoStaleRefusal
  BY DEF RefusalInv, Excused, NoStaleRefusal
<1> QED BY <1>1, <1>2, <1>3, PTL DEF Spec

----------------------------------------------------------------------------
(* No charge for a failure *)

\* What Owed says of one request.
OwedBy(r) ==
  /\ net[r] <= 1
  /\ pc[r] \in BeforeCharge => net[r] <= 0
  /\ pc[r] \in BeforeAnswer => ~failed[r]
  /\ pc[r] \notin Answered => body[r] = "none"
  /\ body[r] = "running" => ~failed[r]
  /\ pc[r] \in Answered /\ body[r] # "running" /\ failed[r] => net[r] <= 0 \/ escalated[r]
  /\ pc[r] \in AfterTopUp => result[r].source = "top_up"

LEMMA OwedFrame ==
  ASSUME Owed, NEW r \in Requests, OwedBy(r)',
         \A q \in Requests \ {r} :
           /\ pc'[q] = pc[q] /\ net'[q] = net[q] /\ failed'[q] = failed[q]
           /\ body'[q] = body[q] /\ escalated'[q] = escalated[q]
           /\ result'[q] = result[q]
  PROVE  Owed'
<1> SUFFICES ASSUME NEW q \in Requests, q # r PROVE OwedBy(q)'
  BY DEF Owed, OwedBy
<1> QED BY DEF Owed, OwedBy

\* A refund that goes through settles the charge; one that does not is reported.
LEMMA RefundSettles ==
  ASSUME TypeOK, Owed, NEW r \in Requests, GiveBack(r) \/ GiveBackFails(r)
  PROVE  /\ net'[r] <= 0 \/ escalated'[r]
         /\ net'[r] <= 1
         /\ \A q \in Requests \ {r} : net'[q] = net[q] /\ escalated'[q] = escalated[q]
<1>1. net[r] \in Int /\ net[r] <= 1
  BY DEF TypeOK, Owed
<1>2. CASE GiveBack(r)
  BY <1>1, <1>2 DEF GiveBack, TypeOK
<1>3. CASE GiveBackFails(r)
  BY <1>1, <1>3 DEF GiveBackFails, TypeOK
<1> QED BY <1>2, <1>3

LEMMA OwedStep ==
  ASSUME TypeOK, Owed, [Next]_vars
  PROVE  Owed'
<1> USE DEF At, Goto, local, history, BeforeCharge, BeforeAnswer, Answered, AfterTopUp
<1>0. /\ pc \in [Requests -> Labels] /\ net \in [Requests -> Int]
      /\ failed \in [Requests -> BOOLEAN] /\ escalated \in [Requests -> BOOLEAN]
      /\ body \in [Requests -> {"none", "running", "ended"}]
      /\ result \in [Requests -> Results]
  BY DEF TypeOK
<1>1. ASSUME UNCHANGED <<pc, net, failed, escalated, body, result>> PROVE Owed'
  BY <1>1 DEF Owed
<1>2. ASSUME NEW r \in Requests,
             ReadCache(r) \/ ReadPool(r) \/ Backfill(r) \/ Refuse(r)
      PROVE  Owed'
  <2>1. PICK l \in BeforeCharge : pc' = [pc EXCEPT ![r] = l]
    BY <1>2 DEF ReadCache, ReadPool, Backfill, Refuse
  <2>2. pc[r] \in BeforeCharge /\ UNCHANGED <<net, failed, escalated, body, result>>
    BY <1>2 DEF ReadCache, ReadPool, Backfill, Refuse
  <2>3. OwedBy(r)'
    BY <1>0, <2>1, <2>2 DEF Owed, OwedBy
  <2> QED BY <1>0, <2>1, <2>2, <2>3, OwedFrame
<1>3. ASSUME NEW r \in Requests, ReadTopUps(r) PROVE Owed'
  <2>1. PICK l \in {"done", "charge", "refused"} : pc' = [pc EXCEPT ![r] = l]
    BY <1>3 DEF ReadTopUps
  <2>2. OwedBy(r)'
    BY <1>0, <1>3, <2>1 DEF ReadTopUps, Owed, OwedBy
  <2> QED BY <1>0, <1>3, <2>1, <2>2, OwedFrame DEF ReadTopUps
<1>4. ASSUME NEW r \in Requests, Charge(r) PROVE Owed'
  <2>1. PICK l \in {"handler", "aggregate"} : pc' = [pc EXCEPT ![r] = l]
    BY <1>4 DEF Charge, ChargePool, ChargeTopUp
  <2>2. /\ pc[r] = "charge" /\ net' = [net EXCEPT ![r] = net[r] + 1]
        /\ UNCHANGED <<failed, escalated, body>>
    BY <1>4 DEF Charge
  <2>3. net[r] \in Int /\ net[r] <= 0 /\ ~failed[r] /\ body[r] = "none"
    BY <1>0, <2>2 DEF Owed
  <2>5. /\ \A q \in Requests \ {r} : result'[q] = result[q]
        /\ pc'[r] = "aggregate" => result'[r].source = "top_up"
    BY <1>0, <1>4 DEF Charge, ChargePool, ChargeTopUp
  <2>4. OwedBy(r)'
    BY <1>0, <2>1, <2>2, <2>3, <2>5 DEF OwedBy
  <2> QED BY <1>0, <2>1, <2>2, <2>4, <2>5, OwedFrame
<1>5. ASSUME NEW r \in Requests, Aggregate(r) \/ Invalidate(r) PROVE Owed'
  <2>1. /\ \/ pc[r] = "aggregate" /\ pc' = [pc EXCEPT ![r] = "handler"]
           \/ pc[r] = "invalidate" /\ pc' = [pc EXCEPT ![r] = "refund"]
        /\ UNCHANGED <<net, failed, escalated, body>>
        /\ \A q \in Requests \ {r} : result'[q] = result[q]
    BY <1>0, <1>5 DEF Aggregate, Invalidate
  <2>2. OwedBy(r)'
    BY <1>0, <2>1 DEF Owed, OwedBy
  <2> QED BY <1>0, <2>1, <2>2, OwedFrame
<1>14. ASSUME NEW r \in Requests, AggregateFails(r) PROVE Owed'
  <2>1. OwedBy(r)'
    BY <1>0, <1>14 DEF AggregateFails, Owed, OwedBy
  <2> QED BY <1>0, <1>14, <2>1, OwedFrame DEF AggregateFails
<1>6. ASSUME NEW r \in Requests, HandlerAnswers(r) PROVE Owed'
  <2>1. OwedBy(r)'
    BY <1>0, <1>6 DEF HandlerAnswers, Owed, OwedBy
  <2> QED BY <1>0, <1>6, <2>1, OwedFrame DEF HandlerAnswers
<1>7. ASSUME NEW r \in Requests, HandlerFails(r) PROVE Owed'
  <2>1. OwedBy(r)'
    BY <1>0, <1>7 DEF HandlerFails, Owed, OwedBy
  <2> QED BY <1>0, <1>7, <2>1, OwedFrame DEF HandlerFails
<1>8. ASSUME NEW r \in Requests, HandlerRefunds(r) PROVE Owed'
  <2>1. GiveBack(r) \/ GiveBackFails(r)
    BY <1>8 DEF HandlerRefunds
  <2>2. PICK l \in {"settle", "invalidate"} : pc' = [pc EXCEPT ![r] = l]
    BY <1>8 DEF HandlerRefunds
  <2>3. OwedBy(r)'
    BY <1>0, <1>8, <2>1, <2>2, RefundSettles DEF HandlerRefunds, Owed, OwedBy
  <2> QED BY <1>0, <1>8, <2>1, <2>2, <2>3, RefundSettles, OwedFrame DEF HandlerRefunds
<1>9. ASSUME NEW r \in Requests, RefundFailure(r) PROVE Owed'
  <2>1. GiveBack(r) \/ GiveBackFails(r)
    BY <1>9 DEF RefundFailure
  <2>2. OwedBy(r)'
    BY <1>0, <1>9, <2>1, RefundSettles DEF RefundFailure, Owed, OwedBy
  <2> QED BY <1>0, <1>9, <2>1, <2>2, RefundSettles, OwedFrame DEF RefundFailure
<1>10. ASSUME NEW r \in Requests, Settle(r) PROVE Owed'
  <2>1. OwedBy(r)'
    BY <1>0, <1>10 DEF Settle, Owed, OwedBy
  <2> QED BY <1>0, <1>10, <2>1, OwedFrame DEF Settle
<1>11. ASSUME NEW r \in Requests, StreamEnds(r) PROVE Owed'
  <2>1. pc[r] \in Answered
    BY <1>0, <1>11 DEF StreamEnds, Owed
  <2>2. CASE UNCHANGED <<store, history>>
    <3>1. OwedBy(r)'
      BY <1>0, <1>11, <2>1, <2>2 DEF StreamEnds, Owed, OwedBy
    <3> QED BY <1>0, <1>11, <2>2, <3>1, OwedFrame DEF StreamEnds
  <2>3. CASE failed' = [failed EXCEPT ![r] = TRUE] /\ (GiveBack(r) \/ GiveBackFails(r))
    <3>1. OwedBy(r)'
      BY <1>0, <1>11, <2>1, <2>3, RefundSettles DEF StreamEnds, OwedBy
    <3> QED BY <1>0, <1>11, <2>3, <3>1, RefundSettles, OwedFrame DEF StreamEnds
  <2> QED BY <1>11, <2>2, <2>3 DEF StreamEnds
<1>12. ASSUME Others PROVE UNCHANGED <<pc, net, failed, escalated, body, result>>
  BY <1>12 DEF Others, QuotaReset, PlanChange, RefreshRead, RefreshWrite, Evict
<1>13. CASE UNCHANGED vars
  BY <1>1, <1>13 DEF vars
<1> QED
  BY <1>1, <1>2, <1>3, <1>4, <1>5, <1>6, <1>7, <1>8, <1>9, <1>10, <1>11, <1>12, <1>13,
     <1>14
  DEF Next, Middleware

\* A request that brought no answer, whichever of handler, middleware and streamed
\* body found out, does not stay charged unless a failed refund was reported; but
\* for a top-up credit whose balance read threw after the charge.
THEOREM FailuresPaidBack == Spec => []NotChargedForFailure
<1>1. Init => TypeOK /\ Quotas /\ Owed
  BY InitTypes
<1>2. TypeOK /\ Quotas /\ Owed /\ [Next]_vars => (TypeOK /\ Quotas /\ Owed)'
  BY TypesStep, OwedStep
<1>3. Owed => NotChargedForFailure
  BY DEF Owed, NotChargedForFailure, Answered, AfterTopUp, Stranded
<1> QED BY <1>1, <1>2, <1>3, PTL DEF Spec

=============================================================================
