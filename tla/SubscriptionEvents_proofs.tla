---------------------- MODULE SubscriptionEvents_proofs ----------------------
(* Proofs about the webhook of SubscriptionEvents, for any history the store   *)
(* may have sent, any row to start with, any number of workers and any number  *)
(* of deliveries.                                                              *)
(*                                                                             *)
(* The properties rest on what the row remembers - the id and the timestamp of *)
(* one event - and on what a worker may still do with a row it read earlier.   *)
(* The invariant says that this event decided the row (Remembered), that the   *)
(* row has passed every event applied or answered (Passed, NothingLost), and   *)
(* that no worker holds a row the present one has not passed (Held).           *)
EXTENDS SubscriptionEvents, TLAPS

----------------------------------------------------------------------------
(* The inductive invariant *)

\* A worker under way has an event; only a top-up is attributed.
Jobs ==
  /\ \A w \in Workers : pc[w] # "idle" => job[w] \in Sent
  /\ \A w \in Workers : pc[w] = "attribute" => TopUp(job[w])

\* The row a worker read is no newer than the row.
Held ==
  \A w \in Workers :
    /\ before[w].lastTs <= row.lastTs
    /\ before[w].lastId # NoEvent =>
         before[w].lastId \in Sent /\ before[w].lastTs = event[before[w].lastId].at

\* The event the row remembers was answered and decides it.
Remembered ==
  row.lastId # NoEvent =>
    /\ row.lastId \in Sent
    /\ acked[row.lastId] /\ ~TopUp(row.lastId)
    /\ Decides(row.lastId, row)

\* An event that was applied would be recognized, if it can be told apart.
Passed ==
  \A e \in Sent : Apart(e) /\ applied[e] > 0 => Processed(row, e)

\* The free tier leaves its mark.
Lapses == row.tier = "free" => lapsed

EInv ==
  /\ TypeOK /\ Jobs /\ Held /\ Remembered /\ Passed /\ Lapses
  /\ AppliedOnce /\ NothingLost /\ GrantedOnce /\ TopUpHonoured

----------------------------------------------------------------------------
(* Events and rows *)

\* What a history says of its events.
LEMMA SentEvents ==
  ASSUME TypeOK
  PROVE  /\ Sent \subseteq Events
         /\ \A e \in Sent : event[e] \in Payload
         /\ \A e \in Sent : event[e].at \in Nat /\ event[e].at > 0
         /\ \A e \in Sent : event[e].txn \in Txns /\ event[e].tier \in Tiers
<1>1. DOMAIN event \subseteq Events /\ event \in [DOMAIN event -> Payload]
  BY HistoriesAssumption DEF TypeOK
<1>2. \A e \in Sent : event[e] \in Payload
  BY <1>1 DEF Sent
<1> QED BY <1>1, <1>2 DEF Sent, Payload

\* The row with the stamp of an event.
LEMMA StampedRow ==
  ASSUME TypeOK, NEW e \in Sent, NEW r \in Row
  PROVE  LET y == Stamped(r, e) IN
         /\ y \in Row /\ y.lastId = e /\ y.lastTs = event[e].at
         /\ y.status = r.status /\ y.tier = r.tier
<1>1. e \in Events /\ event[e].at \in Nat
  BY SentEvents
<1> DEFINE a == event[e].at
<1> HIDE DEF a
<1>2. ASSUME NEW y, y = [r EXCEPT !.lastId = e, !.lastTs = a]
      PROVE  /\ y \in Row /\ y.lastId = e /\ y.lastTs = a
             /\ y.status = r.status /\ y.tier = r.tier
  BY <1>1, <1>2 DEF Row, a
<1> QED BY <1>2 DEF Stamped, a

----------------------------------------------------------------------------
(* What a step does to the row *)

\* A transaction stores event e.
Stores(e) ==
  /\ e \in Sent /\ Fresh(row, e) /\ ~TopUp(e)
  /\ row' \in Row /\ row'.lastId = e /\ row'.lastTs = event[e].at
  /\ Decides(e, row')
  /\ row'.tier = "free" => lapsed'
  /\ lapsed' \in BOOLEAN /\ (lapsed => lapsed')
  /\ applied' = [applied EXCEPT ![e] = @ + 1]
  /\ acked' = [acked EXCEPT ![e] = TRUE]

\* Every other step spares what the row remembers, and what that decided.
Spares ==
  /\ row' \in Row /\ row'.lastId = row.lastId /\ row'.lastTs = row.lastTs
  /\ \A e \in Sent : Decides(e, row) => Decides(e, row')
  /\ row'.tier = "free" => lapsed'
  /\ lapsed' \in BOOLEAN /\ (lapsed => lapsed')
  /\ applied' = applied

LEMMA UntouchedSpares ==
  ASSUME TypeOK, Lapses, UNCHANGED <<row, lapsed, applied>>
  PROVE  Spares
BY DEF TypeOK, Lapses, Spares

\* The revised row has the types and stands for its event.
LEMMA RevisedRow ==
  ASSUME TypeOK, NEW e \in Sent, NEW b \in Row,
         Type(e) \notin {"INITIAL_PURCHASE", "NON_RENEWING_PURCHASE"}
  PROVE  /\ Revised(row, e, b) \in Row
         /\ \A r \in Row : /\ r.status = Revised(row, e, b).status
                          /\ r.tier = Revised(row, e, b).tier
                          => Decides(e, r)
<1>1. event[e] \in Payload /\ row \in Row
  BY SentEvents DEF TypeOK
<1>2. CASE Type(e) = "RENEWAL"
  <2> DEFINE ends == IF event[e].period = "TRIAL" THEN row.trialEnds ELSE "none"
             tier == IF b.tier # event[e].tier THEN event[e].tier ELSE row.tier
  <2>1. Revised(row, e, b) =
          [row EXCEPT !.status = "active", !.trialEnds = ends, !.tier = tier]
    BY <1>2 DEF Revised, Voluntary
  <2>2. ends \in {"none", "ahead", "over"} /\ tier \in Tiers
    BY <1>1, SentEvents DEF Row
  <2> HIDE DEF ends, tier
  <2>3. Revised(row, e, b) \in Row /\ Revised(row, e, b).status = "active"
    BY <1>1, <2>1, <2>2 DEF Row, Statuses
  <2> QED BY <1>2, <2>3 DEF Decides, Voluntary
<1>3. CASE Type(e) = "PRODUCT_CHANGE"
  <2> DEFINE tier == event[e].tier
  <2>1. Revised(row, e, b) = [row EXCEPT !.status = "active", !.tier = tier]
    BY <1>3 DEF Revised, Voluntary
  <2>2. tier \in Tiers
    BY SentEvents
  <2>3. /\ Revised(row, e, b) \in Row /\ Revised(row, e, b).status = "active"
        /\ Revised(row, e, b).tier = tier
    <3> HIDE DEF tier
    <3> QED BY <1>1, <2>1, <2>2 DEF Row, Statuses
  <2> QED BY <1>3, <2>3 DEF Decides, Voluntary
<1>4. CASE Type(e) \in {"UNCANCELLATION", "BILLING_ISSUE"} \/ Voluntary(e)
  <2>1. PICK l \in {"active", "past_due"} :
          /\ Revised(row, e, b) = [row EXCEPT !.status = l]
          /\ Type(e) = "UNCANCELLATION" => l = "active"
          /\ Type(e) = "BILLING_ISSUE" => l = "past_due"
    <3>1. CASE Type(e) = "UNCANCELLATION"
      BY <3>1 DEF Revised, Voluntary
    <3>2. CASE Type(e) = "BILLING_ISSUE"
      BY <3>2 DEF Revised, Voluntary
    <3>3. CASE Voluntary(e)
      BY <3>3 DEF Revised, Voluntary
    <3> QED BY <1>4, <3>1, <3>2, <3>3
  <2>2. Revised(row, e, b) \in Row /\ Revised(row, e, b).status = l
    BY <1>1, <2>1 DEF Row, Statuses
  <2> QED BY <1>4, <2>1, <2>2 DEF Decides, Voluntary
<1>5. CASE Type(e) = "EXPIRATION" \/ (Type(e) = "CANCELLATION" /\ ~Voluntary(e))
  <2>1. Revised(row, e, b) = [row EXCEPT !.status = "expired", !.tier = "free"]
    BY <1>5 DEF Revised, Voluntary
  <2>2. /\ Revised(row, e, b) \in Row /\ Revised(row, e, b).status = "expired"
        /\ Revised(row, e, b).tier = "free"
    BY <1>1, <2>1 DEF Row, Statuses, Tiers
  <2> QED BY <1>5, <2>2 DEF Decides, Voluntary
<1>6. Type(e) \in Types
  BY <1>1 DEF Payload, Type
<1> QED BY <1>2, <1>3, <1>4, <1>5, <1>6 DEF Types

LEMMA RowStep ==
  ASSUME TypeOK, Jobs, Lapses, [Next]_vars
  PROVE  UNCHANGED event /\ (Spares \/ \E e \in Sent : Stores(e))
<1>0. /\ row \in Row /\ lapsed \in BOOLEAN /\ \A w \in Workers : before[w] \in Row
  BY DEF TypeOK
<1>e. UNCHANGED event
  BY DEF Next, vars, Receive, ReadRow, Apply, Activate, ExtendTrial, Attribute, Grant, Fail,
         TrialRunsOut, SelectTrial, ExpireTrial
<1>1. CASE UNCHANGED vars
  BY <1>e, <1>1, UntouchedSpares DEF vars
<1>2. ASSUME NEW w \in Workers,
             \/ \E e \in Sent : Receive(w, e)
             \/ ReadRow(w) \/ Attribute(w) \/ Grant(w) \/ Fail(w)
      PROVE  Spares
  BY <1>2, UntouchedSpares DEF Receive, ReadRow, Attribute, Grant, Fail
<1>3. ASSUME NEW w \in Workers, Apply(w)
      PROVE  Spares \/ \E e \in Sent : Stores(e)
  <2> DEFINE e == job[w]
             new == Revised(row, e, before[w])
  <2>1. e \in Sent /\ Type(e) \notin {"INITIAL_PURCHASE", "NON_RENEWING_PURCHASE"}
    BY <1>3 DEF Apply, Jobs
  <2>2. CASE UNCHANGED <<row, lapsed, applied>>
    BY <2>2, UntouchedSpares
  <2>3. CASE /\ ~Processed(row, e) /\ SetRow(Stamped(new, e))
             /\ applied' = [applied EXCEPT ![e] = @ + 1] /\ Answered(w)
    <3>1. new \in Row
      BY <1>0, <2>1, RevisedRow
    <3>2. /\ row' \in Row /\ row'.lastId = e /\ row'.lastTs = event[e].at
          /\ row'.status = new.status /\ row'.tier = new.tier
          /\ lapsed' = (lapsed \/ row'.tier = "free")
      BY <2>1, <2>3, <3>1, StampedRow DEF SetRow
    <3>3. Decides(e, row')
      BY <1>0, <2>1, <3>2, RevisedRow
    <3>4. Fresh(row, e) /\ ~TopUp(e)
      <4>1. row.lastTs \in Nat /\ event[e].at \in Nat
        BY <1>0, <2>1, SentEvents DEF Row
      <4> QED BY <2>1, <2>3, <4>1 DEF Processed, Fresh, TopUp
    <3>5. acked' = [acked EXCEPT ![e] = TRUE]
      BY <2>3 DEF Answered
    <3>6. lapsed' \in BOOLEAN /\ (row'.tier = "free" => lapsed') /\ (lapsed => lapsed')
      BY <1>0, <3>2
    <3>7. applied' = [applied EXCEPT ![e] = @ + 1]
      BY <2>3
    <3>8. Stores(e)
      <4> HIDE DEF e
      <4> QED BY <2>1, <3>2, <3>3, <3>4, <3>5, <3>6, <3>7 DEF Stores
    <3> QED BY <2>1, <3>8
  <2> QED BY <1>3, <2>2, <2>3 DEF Apply
<1>4. ASSUME NEW w \in Workers, Activate(w)
      PROVE  Spares \/ \E e \in Sent : Stores(e)
  <2> DEFINE e == job[w]
             l == IF event[e].period = "TRIAL" THEN "trial" ELSE "active"
             ends == IF event[e].period = "TRIAL" THEN "ahead" ELSE "none"
             new == [row EXCEPT !.tier = event[e].tier, !.status = l, !.trialEnds = ends]
  <2>1. e \in Sent /\ Type(e) = "INITIAL_PURCHASE"
    BY <1>4 DEF Activate, Jobs
  <2>2. CASE UNCHANGED <<row, lapsed, applied>>
    BY <2>2, UntouchedSpares
  <2>3. CASE /\ Fresh(row, e) /\ SetRow(Stamped(new, e))
             /\ applied' = [applied EXCEPT ![e] = @ + 1] /\ Answered(w)
    <3>1. new \in Row /\ new.status = l /\ new.tier = event[e].tier
      <4>1. event[e].tier \in Tiers /\ l \in Statuses /\ ends \in {"none", "ahead", "over"}
        BY <2>1, SentEvents DEF Statuses
      <4> HIDE DEF l, ends
      <4> QED BY <1>0, <4>1 DEF Row
    <3>2. /\ row' \in Row /\ row'.lastId = e /\ row'.lastTs = event[e].at
          /\ row'.status = l /\ row'.tier = event[e].tier
          /\ lapsed' = (lapsed \/ row'.tier = "free")
      <4> HIDE DEF new
      <4> QED BY <2>1, <2>3, <3>1, StampedRow DEF SetRow
    <3>3. Decides(e, row') /\ ~TopUp(e)
      BY <2>1, <3>2 DEF Decides, Voluntary, TopUp
    <3>4. acked' = [acked EXCEPT ![e] = TRUE] /\ applied' = [applied EXCEPT ![e] = @ + 1]
      BY <2>3 DEF Answered
    <3>5. lapsed' \in BOOLEAN /\ (row'.tier = "free" => lapsed') /\ (lapsed => lapsed')
      BY <1>0, <3>2
    <3>6. Stores(e)
      <4>1. Fresh(row, e)
        BY <2>3
      <4> HIDE DEF e
      <4> QED BY <2>1, <4>1, <3>2, <3>3, <3>4, <3>5 DEF Stores
    <3> QED BY <2>1, <3>6
  <2> QED BY <1>4, <2>2, <2>3 DEF Activate
<1>5. ASSUME NEW w \in Workers, ExtendTrial(w)
      PROVE  Spares \/ \E e \in Sent : Stores(e)
  <2> DEFINE e == job[w]
             new == [row EXCEPT !.status = "expired", !.tier = "free"]
  <2>1. e \in Sent /\ Type(e) = "EXPIRATION" /\ event[e].period # "NORMAL"
    BY <1>5 DEF ExtendTrial, TrialExpiration, Jobs
  <2>2. CASE UNCHANGED <<row, lapsed, applied>>
    BY <2>2, UntouchedSpares
  <2>3. CASE /\ Fresh(row, e) /\ SetRow(Stamped(new, e))
             /\ applied' = [applied EXCEPT ![e] = @ + 1] /\ Answered(w)
    <3>1. new \in Row
      BY <1>0 DEF Row, Statuses, Tiers
    <3>2. /\ row' \in Row /\ row'.lastId = e /\ row'.lastTs = event[e].at
          /\ lapsed' = (lapsed \/ row'.tier = "free")
      <4> HIDE DEF new
      <4> QED BY <2>1, <2>3, <3>1, StampedRow DEF SetRow
    <3>3. Decides(e, row') /\ ~TopUp(e)
      BY <2>1, <3>2 DEF Decides, Voluntary, TopUp
    <3>4. acked' = [acked EXCEPT ![e] = TRUE] /\ applied' = [applied EXCEPT ![e] = @ + 1]
      BY <2>3 DEF Answered
    <3>5. lapsed' \in BOOLEAN /\ (row'.tier = "free" => lapsed') /\ (lapsed => lapsed')
      BY <1>0, <3>2
    <3>6. Stores(e)
      <4>1. Fresh(row, e)
        BY <2>3
      <4> HIDE DEF e
      <4> QED BY <2>1, <4>1, <3>2, <3>3, <3>4, <3>5 DEF Stores
    <3> QED BY <2>1, <3>6
  <2> QED BY <1>5, <2>2, <2>3 DEF ExtendTrial
<1>6. CASE TrialRunsOut
  <2>1. row' \in Row /\ row'.lastId = row.lastId /\ row'.lastTs = row.lastTs
        /\ row'.status = row.status /\ row'.tier = row.tier
    BY <1>0, <1>6 DEF TrialRunsOut, Row
  <2>2. \A e \in Sent : Decides(e, row) => Decides(e, row')
    BY <2>1 DEF Decides
  <2> QED BY <1>0, <1>6, <2>1, <2>2 DEF TrialRunsOut, Spares, Lapses
<1>7. CASE SelectTrial
  BY <1>7, UntouchedSpares DEF SelectTrial
<1>8. CASE ExpireTrial
  <2>1. CASE row.status = "trial"
    <3>1. /\ row' = [row EXCEPT !.status = "expired", !.tier = "free"]
          /\ lapsed' = TRUE
      BY <1>0, <1>8, <2>1 DEF ExpireTrial, SetRow, Row
    <3>2. /\ row' \in Row /\ row'.lastId = row.lastId /\ row'.lastTs = row.lastTs
          /\ row'.status = "expired" /\ row'.tier = "free"
      BY <1>0, <3>1 DEF Row, Statuses, Tiers
    <3>3. \A e \in Sent : Decides(e, row) => Decides(e, row')
      BY <2>1, <3>2 DEF Decides
    <3> QED BY <1>8, <3>1, <3>2, <3>3 DEF ExpireTrial, Spares
  <2>2. CASE row.status # "trial"
    <3>1. UNCHANGED <<row, applied>> /\ lapsed' = (lapsed \/ row.tier = "free")
      BY <1>8, <2>2 DEF ExpireTrial, SetRow
    <3>2. lapsed' \in BOOLEAN /\ (row.tier = "free" => lapsed') /\ (lapsed => lapsed')
      BY <1>0, <3>1
    <3>3. /\ row' \in Row /\ row'.lastId = row.lastId /\ row'.lastTs = row.lastTs
          /\ row'.tier = row.tier /\ applied' = applied
      BY <1>0, <3>1
    <3>4. \A e \in Sent : Decides(e, row) => Decides(e, row')
      BY <3>1 DEF Decides
    <3>5. row'.tier = "free" => lapsed'
      BY <3>2, <3>3
    <3>6. Spares
      BY <3>2, <3>3, <3>4, <3>5 DEF Spares
    <3> QED BY <1>e, <3>6
  <2> QED BY <2>1, <2>2
<1> QED
  BY <1>e, <1>1, <1>2, <1>3, <1>4, <1>5, <1>6, <1>7, <1>8 DEF Next

----------------------------------------------------------------------------
(* What a step does to the workers, the answers and the credits *)

\* Time in the row does not go back.
LEMMA RowAdvances ==
  ASSUME TypeOK, Spares \/ \E e \in Sent : Stores(e)
  PROVE  /\ row' \in Row /\ row.lastTs <= row'.lastTs
         /\ row.lastTs \in Nat /\ row'.lastTs \in Nat
<1>1. row.lastTs \in Nat
  BY DEF TypeOK, Row
<1>2. CASE Spares
  BY <1>1, <1>2 DEF Spares
<1>3. ASSUME NEW e \in Sent, Stores(e) PROVE row' \in Row /\ row.lastTs <= row'.lastTs
  BY <1>3 DEF Stores, Fresh
<1>4. row' \in Row /\ row.lastTs <= row'.lastTs
  BY <1>1, <1>2, <1>3 DEF Spares
<1>5. row'.lastTs \in Nat
  BY <1>4 DEF Row
<1> QED BY <1>1, <1>4, <1>5

\* One worker moves on to place l with event e and row b.
Steps(w, l, e, b) ==
  /\ pc' = [pc EXCEPT ![w] = l] /\ job' = [job EXCEPT ![w] = e]
  /\ before' = [before EXCEPT ![w] = b]

Moves(w) ==
  \E l \in {"idle", "read", "attribute", "write"}, e \in Sent \cup {NoEvent}, b \in Row :
    /\ Steps(w, l, e, b)
    /\ l # "idle" => e \in Sent
    /\ l = "attribute" => TopUp(e)
    /\ b \in {row, before[w], Blank}

LEMMA BlankRow == Blank \in Row /\ Blank.lastTs = 0 /\ Blank.lastId = NoEvent
BY DEF Blank, Row, Statuses, Tiers

LEMMA WorkerStep ==
  ASSUME TypeOK, Jobs, [Next]_vars
  PROVE  UNCHANGED <<pc, job, before>> \/ \E w \in Workers : Moves(w)
<1>0. /\ row \in Row /\ Blank \in Row /\ before \in [Workers -> Row]
      /\ pc \in [Workers -> {"idle", "read", "attribute", "write"}]
      /\ job \in [Workers -> Sent \cup {NoEvent}]
  BY BlankRow DEF TypeOK
<1>1. CASE UNCHANGED vars \/ TrialRunsOut \/ SelectTrial \/ ExpireTrial
  BY <1>1 DEF vars, TrialRunsOut, SelectTrial, ExpireTrial
<1>2. ASSUME NEW w \in Workers, Ended(w) PROVE Moves(w)
  BY <1>0, <1>2 DEF Ended, Moves, Steps
<1>3. ASSUME NEW w \in Workers, NEW e \in Sent, Receive(w, e)
      PROVE  UNCHANGED <<pc, job, before>> \/ Moves(w)
  <2>1. CASE Processed(row, e) /\ ~Exempt(e)
    BY <1>3, <2>1 DEF Receive
  <2>2. CASE ~(Processed(row, e) /\ ~Exempt(e))
    <3>1. PICK l \in {"read", "write"} : Steps(w, l, e, before[w])
      BY <1>0, <1>3, <2>2 DEF Receive, Steps
    <3> QED BY <1>0, <3>1 DEF Moves
  <2> QED BY <2>1, <2>2
<1>4. ASSUME NEW w \in Workers, ReadRow(w) PROVE Moves(w)
  <2>1. CASE TopUp(job[w]) /\ row.tier = "free"
    BY <1>2, <1>4, <2>1 DEF ReadRow, Answered
  <2>2. CASE ~(TopUp(job[w]) /\ row.tier = "free")
    <3>1. job[w] \in Sent
      BY <1>4 DEF ReadRow, Jobs
    <3>2. PICK l \in {"attribute", "write"} :
            Steps(w, l, job[w], row) /\ (l = "attribute" => TopUp(job[w]))
      BY <1>0, <1>4, <2>2 DEF ReadRow, Steps
    <3> QED BY <1>0, <3>1, <3>2 DEF Moves
  <2> QED BY <2>1, <2>2
<1>5. ASSUME NEW w \in Workers, Attribute(w) PROVE Moves(w)
  <2>1. CASE row.tier = "free"
    BY <1>2, <1>5, <2>1 DEF Attribute, Answered
  <2>2. CASE row.tier # "free"
    <3>1. job[w] \in Sent
      BY <1>5 DEF Attribute, Jobs
    <3>2. Steps(w, "write", job[w], row)
      BY <1>0, <1>5, <2>2 DEF Attribute, Steps
    <3> QED BY <1>0, <3>1, <3>2 DEF Moves
  <2> QED BY <2>1, <2>2
<1>6. ASSUME NEW w \in Workers,
             Apply(w) \/ Activate(w) \/ ExtendTrial(w) \/ Grant(w) \/ Fail(w)
      PROVE  Moves(w)
  <2>1. Ended(w)
    BY <1>6 DEF Apply, Activate, ExtendTrial, Grant, Fail, Answered
  <2> QED BY <1>2, <2>1
<1> QED BY <1>1, <1>3, <1>4, <1>5, <1>6 DEF Next

LEMMA WorkersKept ==
  ASSUME TypeOK, Jobs, Held, Remembered, UNCHANGED event, [Next]_vars,
         row' \in Row, row.lastTs <= row'.lastTs
  PROVE  /\ pc' \in [Workers -> {"idle", "read", "attribute", "write"}]
         /\ job' \in [Workers -> Sent \cup {NoEvent}] /\ before' \in [Workers -> Row]
         /\ Jobs' /\ Held'
<1>0. /\ row \in Row /\ Blank \in Row /\ before \in [Workers -> Row]
      /\ pc \in [Workers -> {"idle", "read", "attribute", "write"}]
      /\ job \in [Workers -> Sent \cup {NoEvent}]
      /\ row.lastTs \in Nat /\ row'.lastTs \in Nat
      /\ \A w \in Workers : before[w].lastTs \in Nat
  <2>1. /\ row \in Row /\ Blank \in Row /\ before \in [Workers -> Row]
        /\ pc \in [Workers -> {"idle", "read", "attribute", "write"}]
        /\ job \in [Workers -> Sent \cup {NoEvent}]
    BY BlankRow DEF TypeOK
  <2> QED BY <2>1 DEF Row
<1>1. \A e : TopUp(e)' = TopUp(e)
  BY DEF TopUp, Type
<1>2. Sent' = Sent
  BY DEF Sent
<1> DEFINE Older(b) == /\ b.lastTs <= row.lastTs
                       /\ b.lastId # NoEvent => b.lastId \in Sent /\ b.lastTs = event[b.lastId].at
<1>3. Older(row) /\ Older(Blank) /\ \A w \in Workers : Older(before[w])
  <2>1. Older(Blank) /\ \A w \in Workers : Older(before[w])
    BY <1>0, BlankRow DEF Held
  <2>2. Older(row)
    BY <1>0 DEF TypeOK, Remembered
  <2> QED BY <2>1, <2>2
<1>4. CASE UNCHANGED <<pc, job, before>>
  <2>1. Jobs'
    BY <1>1, <1>2, <1>4 DEF Jobs
  <2>2. Held'
    BY <1>0, <1>2, <1>4 DEF Held
  <2> QED BY <1>0, <1>4, <2>1, <2>2
<1>5. ASSUME NEW w \in Workers, Moves(w)
      PROVE  /\ pc' \in [Workers -> {"idle", "read", "attribute", "write"}]
             /\ job' \in [Workers -> Sent \cup {NoEvent}] /\ before' \in [Workers -> Row]
             /\ Jobs' /\ Held'
  <2>1. PICK l \in {"idle", "read", "attribute", "write"}, e \in Sent \cup {NoEvent}, b \in Row :
          /\ Steps(w, l, e, b)
          /\ l # "idle" => e \in Sent
          /\ l = "attribute" => TopUp(e)
          /\ b \in {row, before[w], Blank}
    BY <1>5 DEF Moves
  <2>2. /\ pc' \in [Workers -> {"idle", "read", "attribute", "write"}]
        /\ job' \in [Workers -> Sent \cup {NoEvent}] /\ before' \in [Workers -> Row]
    BY <1>0, <2>1 DEF Steps
  <2>3. Jobs'
    BY <1>0, <1>1, <1>2, <2>1 DEF Jobs, Steps
  <2>4. Older(b) /\ b.lastTs \in Nat
    BY <1>3, <2>1 DEF Row
  <2>5. \A x \in Workers : before'[x] \in {before[x], b}
    BY <1>0, <2>1 DEF Steps
  <2>6. \A x \in Workers : Older(before'[x]) /\ before'[x].lastTs \in Nat
    BY <1>0, <1>3, <2>4, <2>5
  <2>7. Held'
    <3> SUFFICES ASSUME NEW x \in Workers
                 PROVE  /\ before'[x].lastTs <= row'.lastTs
                        /\ before'[x].lastId # NoEvent =>
                             /\ before'[x].lastId \in Sent
                             /\ before'[x].lastTs = event[before'[x].lastId].at
      BY <1>2 DEF Held
    <3> QED BY <1>0, <2>6
  <2> QED BY <2>2, <2>3, <2>7
<1> QED BY <1>4, <1>5, WorkerStep

\* Why a delivery is answered 200.
Answers(e) ==
  /\ e \in Sent
  /\ acked' = [acked EXCEPT ![e] = TRUE]
  /\ Recorded(e) => event[e].at <= row'.lastTs
  /\ TopUp(e) => lapsed' \/ credit'[event[e].txn].granted > 0

LEMMA AnswerStep ==
  ASSUME TypeOK, Jobs, Held, Lapses, [Next]_vars,
         Spares \/ \E e \in Sent : Stores(e)
  PROVE  UNCHANGED acked \/ \E e \in Sent : Answers(e)
<1>0. row' \in Row /\ row.lastTs <= row'.lastTs /\ row.lastTs \in Nat /\ row'.lastTs \in Nat
  BY RowAdvances
<1>1. ASSUME NEW e \in Sent, Processed(row, e) \/ ~Fresh(row, e)
      PROVE  event[e].at <= row'.lastTs
  <2>1. event[e].at \in Nat
    BY SentEvents
  <2>2. row.lastId = e => row.lastTs = event[e].at
    BY <1>1, SentEvents, NoEventAssumption DEF TypeOK
  <2> QED BY <1>0, <1>1, <2>1, <2>2 DEF Processed, Fresh
<1>2. ASSUME NEW e \in Sent, Stores(e) PROVE event[e].at <= row'.lastTs
  BY <1>0, <1>2 DEF Stores
<1>3. lapsed => lapsed'
  BY DEF Spares, Stores
<1>4. CASE UNCHANGED vars \/ TrialRunsOut \/ SelectTrial \/ ExpireTrial
           \/ \E w \in Workers : Fail(w)
  BY <1>4 DEF vars, TrialRunsOut, SelectTrial, ExpireTrial, Fail
<1>5. ASSUME NEW w \in Workers, NEW e \in Sent, Receive(w, e)
      PROVE  UNCHANGED acked \/ Answers(e)
  <2>1. CASE Processed(row, e) /\ ~Exempt(e)
    BY <1>1, <1>5, <2>1 DEF Receive, Answers, Exempt, TopUp
  <2>2. CASE ~(Processed(row, e) /\ ~Exempt(e))
    BY <1>5, <2>2 DEF Receive
  <2> QED BY <2>1, <2>2
<1>6. ASSUME NEW w \in Workers, ReadRow(w) \/ Attribute(w)
      PROVE  UNCHANGED acked \/ Answers(job[w])
  <2>1. CASE TopUp(job[w]) /\ row.tier = "free"
    <3>1. acked' = [acked EXCEPT ![job[w]] = TRUE] /\ lapsed' = lapsed
      BY <1>6, <2>1 DEF ReadRow, Attribute, Answered
    <3>2. job[w] \in Sent
      BY <1>6 DEF ReadRow, Attribute, Jobs
    <3> QED BY <2>1, <3>1, <3>2 DEF Answers, Recorded, Lapses
  <2>2. CASE ~(TopUp(job[w]) /\ row.tier = "free")
    BY <1>6, <2>2 DEF ReadRow, Attribute, Jobs
  <2> QED BY <2>1, <2>2
<1>7. ASSUME NEW w \in Workers, Apply(w)
      PROVE  UNCHANGED acked \/ \E e \in Sent : Answers(e)
  <2> DEFINE e == job[w]
  <2>1. e \in Sent /\ ~TopUp(e)
    BY <1>7 DEF Apply, Jobs, TopUp
  <2>2. CASE Processed(row, e) /\ Answered(w)
    BY <1>1, <2>1, <2>2 DEF Answers, Answered
  <2>3. CASE UNCHANGED acked
    BY <2>3
  <2>4. CASE ~Processed(row, e) /\ row'.lastTs = event[e].at /\ Answered(w)
    <3>1. event[e].at <= row'.lastTs
      BY <1>0, <2>4
    <3> QED BY <2>1, <2>4, <3>1 DEF Answers, Answered
  <2>5. ~Processed(row, e) /\ SetRow(Stamped(Revised(row, e, before[w]), e))
          => row'.lastTs = event[e].at
    <3>1. Revised(row, e, before[w]) \in Row
      BY <1>7, <2>1, RevisedRow DEF Apply, TypeOK
    <3> HIDE DEF e
    <3> QED BY <2>1, <3>1, StampedRow DEF SetRow
  <2> QED BY <1>7, <2>2, <2>3, <2>4, <2>5 DEF Apply
<1>8. ASSUME NEW w \in Workers, Activate(w) PROVE Answers(job[w])
  <2> DEFINE e == job[w]
  <2>1. e \in Sent /\ ~TopUp(e) /\ acked' = [acked EXCEPT ![e] = TRUE]
    BY <1>8 DEF Activate, Jobs, TopUp, Answered
  <2>2. CASE Processed(before[w], e)
    <3>1. event[e].at \in Nat /\ before[w].lastTs \in Nat /\ before[w].lastTs <= row.lastTs
      BY <2>1, SentEvents DEF TypeOK, Row, Held
    <3>2. before[w].lastId = e => before[w].lastTs = event[e].at
      BY <2>1, SentEvents, NoEventAssumption DEF Held
    <3>3. event[e].at <= row'.lastTs
      BY <1>0, <2>2, <3>1, <3>2 DEF Processed
    <3> QED BY <2>1, <3>3 DEF Answers
  <2>3. CASE ~Fresh(row, e)
    BY <1>1, <2>1, <2>3 DEF Answers
  <2>4. CASE ~Processed(before[w], e) /\ Fresh(row, e)
    <3>1. applied' = [applied EXCEPT ![e] = @ + 1] /\ e \in Events /\ applied \in [Events -> Nat]
      BY <1>8, <2>1, <2>4, SentEvents DEF Activate, TypeOK
    <3>2. applied' # applied
      BY <3>1
    <3>3. PICK f \in Sent : Stores(f)
      BY <3>2 DEF Spares
    <3>4. f = e
      BY <3>1, <3>3, SentEvents DEF Stores
    <3> QED BY <1>2, <2>1, <3>3, <3>4 DEF Answers
  <2> QED BY <2>2, <2>3, <2>4
<1>9. ASSUME NEW w \in Workers, ExtendTrial(w) PROVE Answers(job[w])
  BY <1>9 DEF ExtendTrial, TrialExpiration, Jobs, Answered, Answers, Recorded, TopUp
<1>10. ASSUME NEW w \in Workers, Grant(w) PROVE Answers(job[w])
  <2> DEFINE e == job[w]
             t == event[e].txn
  <2>1. e \in Sent /\ TopUp(e) /\ acked' = [acked EXCEPT ![e] = TRUE] /\ t \in Txns
    BY <1>10, SentEvents DEF Grant, Jobs, Answered
  <2>2. credit'[t].granted > 0
    BY <1>10, <2>1 DEF Grant, TypeOK
  <2> QED BY <2>1, <2>2 DEF Answers, Recorded
<1>11. ASSUME NEW w \in Workers, ReadRow(w) \/ Attribute(w) \/ Activate(w) \/ ExtendTrial(w)
                                  \/ Grant(w)
       PROVE  job[w] \in Sent
  BY <1>11 DEF ReadRow, Attribute, Activate, ExtendTrial, Grant, Jobs
<1> QED BY <1>4, <1>5, <1>6, <1>7, <1>8, <1>9, <1>10, <1>11 DEF Next

\* Credits are granted once and not taken back.
LEMMA CreditStep ==
  ASSUME TypeOK, GrantedOnce, Jobs, [Next]_vars
  PROVE  /\ credit' \in [Txns -> [granted : Nat, model : {"none", "shared-pool", "per-profile"}]]
         /\ GrantedOnce'
         /\ \A t \in Txns : credit[t].granted > 0 => credit'[t].granted > 0
<1> DEFINE Credit == [granted : Nat, model : {"none", "shared-pool", "per-profile"}]
<1>0. credit \in [Txns -> Credit]
  BY DEF TypeOK
<1>m. \A tier : Model(tier) \in {"none", "shared-pool", "per-profile"}
  BY DEF Model
<1>1. CASE UNCHANGED credit
  BY <1>0, <1>1 DEF GrantedOnce
<1>2. ASSUME NEW m \in {"none", "shared-pool", "per-profile"},
             credit' = [t \in Txns |-> IF credit[t].granted > 0
                                         THEN [credit[t] EXCEPT !.model = m] ELSE credit[t]]
      PROVE  credit' \in [Txns -> Credit] /\ \A t \in Txns : credit'[t].granted = credit[t].granted
  <2>1. \A t \in Txns : /\ [credit[t] EXCEPT !.model = m] \in Credit
                        /\ [credit[t] EXCEPT !.model = m].granted = credit[t].granted
    BY <1>0
  <2> HIDE DEF Credit
  <2> QED BY <1>0, <1>2, <2>1
<1>3. ASSUME NEW w \in Workers, Apply(w)
      PROVE  credit' \in [Txns -> Credit] /\ \A t \in Txns : credit'[t].granted = credit[t].granted
  <2>1. CASE UNCHANGED credit
    BY <1>0, <2>1
  <2>2. CASE credit' # credit
    <3>1. PICK tier : credit' = [t \in Txns |-> IF credit[t].granted > 0
                       THEN [credit[t] EXCEPT !.model = Model(tier)] ELSE credit[t]]
      BY <1>3, <2>2 DEF Apply, Reattributed
    <3> QED BY <1>m, <1>2, <3>1
  <2> QED BY <2>1, <2>2
<1>4. ASSUME NEW w \in Workers, Grant(w)
      PROVE  /\ credit' \in [Txns -> Credit]
             /\ \A t \in Txns : credit'[t].granted \in {credit[t].granted, 1}
  <2>1. \A m \in {"none", "shared-pool", "per-profile"} : [granted |-> 1, model |-> m] \in Credit
    OBVIOUS
  <2>2. \/ UNCHANGED credit
        \/ credit' = [credit EXCEPT ![event[job[w]].txn] =
                        [granted |-> 1, model |-> Model(before[w].tier)]]
    BY <1>4 DEF Grant
  <2> QED BY <1>0, <1>m, <2>1, <2>2
<1>5. \A t \in Txns : credit[t].granted \in Nat /\ credit[t].granted <= 1
  BY <1>0 DEF GrantedOnce
<1>6. CASE \E w \in Workers : Apply(w)
  BY <1>3, <1>5, <1>6 DEF GrantedOnce
<1>7. CASE \E w \in Workers : Grant(w)
  BY <1>4, <1>5, <1>7 DEF GrantedOnce
<1>8. UNCHANGED credit \/ (\E w \in Workers : Apply(w)) \/ \E w \in Workers : Grant(w)
  BY DEF Next, vars, Receive, ReadRow, Activate, ExtendTrial, Attribute, Fail,
         TrialRunsOut, SelectTrial, ExpireTrial
<1> QED BY <1>1, <1>6, <1>7, <1>8

----------------------------------------------------------------------------
(* The invariant *)

\* An event that may be stored has not been applied before.
LEMMA NotApplied ==
  ASSUME EInv, NEW e \in Sent, Fresh(row, e), Apart(e)
  PROVE  applied[e] = 0
<1>1. row.lastTs \in Nat /\ event[e].at \in Nat /\ applied[e] \in Nat
  BY SentEvents DEF EInv, TypeOK, Row
<1>2. ~Processed(row, e)
  BY <1>1 DEF Fresh, Processed
<1>3. ~(applied[e] > 0)
  BY <1>2 DEF EInv, Passed
<1> QED BY <1>1, <1>3

LEMMA InvStep ==
  ASSUME EInv, [Next]_vars
  PROVE  EInv'
<1>0. /\ TypeOK /\ Jobs /\ Held /\ Remembered /\ Passed /\ Lapses
      /\ AppliedOnce /\ NothingLost /\ GrantedOnce /\ TopUpHonoured
  BY DEF EInv
<1>1. UNCHANGED event /\ (Spares \/ \E e \in Sent : Stores(e))
  BY <1>0, RowStep
<1>2. /\ row' \in Row /\ row.lastTs <= row'.lastTs
      /\ row.lastTs \in Nat /\ row'.lastTs \in Nat
  BY <1>0, <1>1, RowAdvances
<1>3. /\ pc' \in [Workers -> {"idle", "read", "attribute", "write"}]
      /\ job' \in [Workers -> Sent \cup {NoEvent}] /\ before' \in [Workers -> Row]
      /\ Jobs' /\ Held'
  BY <1>0, <1>1, <1>2, WorkersKept
<1>4. /\ credit' \in [Txns -> [granted : Nat, model : {"none", "shared-pool", "per-profile"}]]
      /\ GrantedOnce'
      /\ \A t \in Txns : credit[t].granted > 0 => credit'[t].granted > 0
  BY <1>0, CreditStep
<1>5. UNCHANGED acked \/ \E e \in Sent : Answers(e)
  BY <1>0, <1>1, AnswerStep
<1>6. /\ Sent' = Sent /\ Sent \subseteq Events
      /\ \A e \in Sent : event[e].at \in Nat /\ event[e].txn \in Txns
      /\ \A e : (TopUp(e)' = TopUp(e)) /\ (Recorded(e)' = Recorded(e)) /\ (Apart(e)' = Apart(e))
      /\ \A e : (Decides(e, row)' = Decides(e, row')) /\ (Processed(row, e)' = Processed(row', e))
  BY <1>0, <1>1, SentEvents
  DEF Sent, TopUp, Recorded, Apart, Decides, Voluntary, Type, Processed
<1>7. /\ acked' \in [Events -> BOOLEAN]
      /\ \A e \in Events : acked[e] => acked'[e]
  BY <1>0, <1>5, <1>6 DEF TypeOK, Answers
<1>8. lapsed' \in BOOLEAN /\ Lapses' /\ (lapsed => lapsed')
  BY <1>1 DEF Spares, Stores, Lapses
<1>9. applied' \in [Events -> Nat]
  BY <1>0, <1>1 DEF TypeOK, Spares, Stores
<1>10. selected' \in BOOLEAN /\ deliveries' \in [Events -> 0..MaxDeliveries]
  <2>1. UNCHANGED <<selected, deliveries>> \/ (selected' \in BOOLEAN /\ UNCHANGED deliveries)
        \/ \E w \in Workers, e \in Sent : Receive(w, e)
    BY DEF Next, vars, ReadRow, Apply, Activate, ExtendTrial, Attribute, Grant, Fail,
           TrialRunsOut, SelectTrial, ExpireTrial
  <2>2. ASSUME NEW w \in Workers, NEW e \in Sent, Receive(w, e)
        PROVE  UNCHANGED selected /\ deliveries' \in [Events -> 0..MaxDeliveries]
    BY <1>0, <1>6, <2>2, MaxDeliveriesAssumption DEF Receive, TypeOK
  <2> QED BY <1>0, <2>1, <2>2 DEF TypeOK
<1>11. ASSUME Spares PROVE TypeOK' /\ Remembered' /\ Passed' /\ AppliedOnce'
  <2>1. row'.lastId = row.lastId /\ row'.lastTs = row.lastTs /\ applied' = applied
    BY <1>11 DEF Spares
  <2>2. TypeOK'
    BY <1>0, <1>1, <1>2, <1>3, <1>4, <1>6, <1>7, <1>8, <1>9, <1>10, <2>1 DEF TypeOK
  <2>3. Remembered'
    BY <1>0, <1>6, <1>7, <1>11, <2>1 DEF Remembered, Spares
  <2>4. Passed'
    <3> SUFFICES ASSUME NEW e \in Sent, Apart(e), applied'[e] > 0 PROVE Processed(row', e)
      BY <1>6 DEF Passed
    <3>1. Processed(row, e)
      BY <1>0, <2>1 DEF Passed
    <3> QED BY <2>1, <3>1 DEF Processed
  <2>5. AppliedOnce'
    BY <1>0, <1>6, <2>1 DEF AppliedOnce
  <2> QED BY <2>2, <2>3, <2>4, <2>5
<1>12. ASSUME NEW e \in Sent, Stores(e)
       PROVE  TypeOK' /\ Remembered' /\ Passed' /\ AppliedOnce'
  <2>1. /\ row'.lastId = e /\ row'.lastTs = event[e].at /\ ~TopUp(e) /\ Decides(e, row')
        /\ acked' = [acked EXCEPT ![e] = TRUE] /\ applied' = [applied EXCEPT ![e] = @ + 1]
        /\ Fresh(row, e)
    BY <1>12 DEF Stores
  <2>2. TypeOK'
    BY <1>0, <1>1, <1>2, <1>3, <1>4, <1>6, <1>7, <1>8, <1>9, <1>10, <2>1, NoEventAssumption
    DEF TypeOK
  <2>3. Remembered'
    BY <1>0, <1>6, <2>1 DEF Remembered, TypeOK
  <2>4. \A f \in Sent \ {e} : applied'[f] = applied[f]
    BY <1>0, <1>6, <2>1 DEF TypeOK
  <2>5. Apart(e) => applied'[e] = 1
    BY <1>0, <1>6, <2>1, NotApplied DEF TypeOK, EInv
  <2>6. Passed'
    <3> SUFFICES ASSUME NEW f \in Sent, Apart(f), applied'[f] > 0 PROVE Processed(row', f)
      BY <1>6 DEF Passed
    <3>1. CASE f = e
      BY <2>1, <3>1 DEF Processed
    <3>2. CASE f # e
      <4>1. Processed(row, f)
        BY <1>0, <2>4, <3>2 DEF Passed
      <4>2. event[f].at <= row.lastTs
        BY <1>0, <1>2, <1>6, <4>1, NoEventAssumption DEF Processed, TypeOK
      <4>3. event[f].at # event[e].at
        BY <2>1, <3>2 DEF Apart
      <4> QED BY <1>2, <1>6, <2>1, <4>2, <4>3 DEF Processed
    <3> QED BY <3>1, <3>2
  <2>7. AppliedOnce'
    <3> SUFFICES ASSUME NEW f \in Sent, Apart(f) PROVE applied'[f] <= 1
      BY <1>6 DEF AppliedOnce
    <3> QED BY <1>0, <2>4, <2>5 DEF AppliedOnce
  <2> QED BY <2>2, <2>3, <2>6, <2>7
<1>13. NothingLost'
  <2> SUFFICES ASSUME NEW e \in Sent, acked'[e], Recorded(e) PROVE event[e].at <= row'.lastTs
    BY <1>6, <1>1 DEF NothingLost
  <2>1. CASE acked[e]
    BY <1>0, <1>2, <1>6, <2>1 DEF NothingLost
  <2>2. CASE ~acked[e]
    <3>1. Answers(e)
      BY <1>0, <1>5, <1>6, <2>2 DEF Answers, TypeOK
    <3> QED BY <3>1 DEF Answers
  <2> QED BY <2>1, <2>2
<1>14. TopUpHonoured'
  <2> SUFFICES ASSUME NEW e \in Sent, acked'[e], TopUp(e), ~lapsed'
               PROVE  credit'[event[e].txn].granted > 0
    BY <1>6, <1>1 DEF TopUpHonoured
  <2>1. CASE acked[e]
    BY <1>0, <1>4, <1>6, <1>8, <2>1 DEF TopUpHonoured
  <2>2. CASE ~acked[e]
    <3>1. Answers(e)
      BY <1>0, <1>5, <1>6, <2>2 DEF Answers, TypeOK
    <3> QED BY <3>1 DEF Answers
  <2> QED BY <2>1, <2>2
<1> QED BY <1>1, <1>3, <1>4, <1>8, <1>11, <1>12, <1>13, <1>14 DEF EInv

LEMMA InitInv == Init => EInv
<1> SUFFICES ASSUME Init PROVE EInv
  OBVIOUS
<1>1. row \in Row /\ row.lastId = NoEvent /\ row.lastTs = 0 /\ event \in Histories
  BY StartsAssumption DEF Init
<1>2. Sent \subseteq Events
  BY <1>1, HistoriesAssumption DEF Sent
<1>3. TypeOK
  <2>0. lapsed \in BOOLEAN
    BY DEF Init
  <2>1. selected \in BOOLEAN
    BY DEF Init
  <2>3. 0 \in 0..MaxDeliveries
    BY MaxDeliveriesAssumption
  <2>2. [granted |-> 0, model |-> "none"]
          \in [granted : Nat, model : {"none", "shared-pool", "per-profile"}]
    OBVIOUS
  <2> QED BY <1>1, <1>2, <2>0, <2>1, <2>2, <2>3, BlankRow DEF Init, TypeOK
<1>4. Jobs /\ Held /\ Remembered /\ Passed
  BY <1>1, <1>2, BlankRow DEF Init, Jobs, Held, Remembered, Passed
<1>l. Lapses
  BY DEF Init, Lapses
<1>5. AppliedOnce /\ NothingLost /\ GrantedOnce /\ TopUpHonoured
  BY <1>2 DEF Init, AppliedOnce, NothingLost, GrantedOnce, TopUpHonoured
<1> QED BY <1>3, <1>4, <1>l, <1>5 DEF EInv

LEMMA InvHolds == Spec => []EInv
<1>1. EInv /\ [Next]_vars => EInv'
  BY InvStep
<1> QED BY InitInv, <1>1, PTL DEF Spec

----------------------------------------------------------------------------
(* The theorems *)

\* The row's id and timestamp belong together, and everything has its type.
THEOREM TypeCorrect == Spec => []TypeOK
<1>1. EInv => TypeOK
  BY DEF EInv
<1> QED BY <1>1, InvHolds, PTL

\* Duplicates and reordered deliveries apply an event at most once, if no other
\* event has its timestamp.
THEOREM OnceOnly == Spec => []AppliedOnce
<1>1. EInv => AppliedOnce
  BY DEF EInv
<1> QED BY <1>1, InvHolds, PTL

\* The row never goes back behind an event answered 200, whatever the timestamps.
THEOREM EventsKept == Spec => []NothingLost
<1>1. EInv => NothingLost
  BY DEF EInv
<1> QED BY <1>1, InvHolds, PTL

\* The newest answered event decides the row: it is the one the row remembers, and
\* the trial cron alone has written since.
THEOREM LastWord == Spec => []NewestDecides
<1>1. EInv => NewestDecides
  <2> SUFFICES ASSUME EInv, NEW e \in Sent, Newest(e) PROVE Decides(e, row)
    BY DEF NewestDecides
  <2>0. TypeOK /\ Remembered /\ NothingLost
    BY DEF EInv
  <2>1. event[e].at \in Nat /\ event[e].at > 0 /\ row.lastTs \in Nat /\ Sent \subseteq Events
    BY <2>0, SentEvents DEF TypeOK, Row
  <2>2. CASE Recorded(e)
    <3>1. event[e].at <= row.lastTs
      BY <2>0, <2>2 DEF NothingLost, Newest
    <3>2. row.lastId # NoEvent
      BY <2>0, <2>1, <3>1 DEF TypeOK
    <3>3. /\ row.lastId \in Sent /\ acked[row.lastId] /\ ~TopUp(row.lastId)
          /\ Decides(row.lastId, row) /\ row.lastTs = event[row.lastId].at
      BY <2>0, <3>2 DEF Remembered, TypeOK
    <3>4. row.lastId = e
      BY <2>1, <3>1, <3>3 DEF Newest
    <3> QED BY <3>3, <3>4
  <2>3. CASE ~Recorded(e)
    <3>1. Type(e) = "EXPIRATION" /\ event[e].period # "NORMAL"
      BY <2>3 DEF Recorded, Newest
    <3> QED BY <3>1 DEF Decides, Voluntary
  <2> QED BY <2>2, <2>3
<1> QED BY <1>1, InvHolds, PTL

\* A store transaction grants credits once.
THEOREM CreditedOnce == Spec => []GrantedOnce
<1>1. EInv => GrantedOnce
  BY DEF EInv
<1> QED BY <1>1, InvHolds, PTL

\* A top-up of an account that was never free is granted once it is answered.
THEOREM CreditsHonoured == Spec => []TopUpHonoured
<1>1. EInv => TopUpHonoured
  BY DEF EInv
<1> QED BY <1>1, InvHolds, PTL

=============================================================================
