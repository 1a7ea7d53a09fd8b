------------------------ MODULE LibraryFiling_proofs ------------------------
(* Proofs about the filing of LibraryFiling, for any sessions, topics and runs *)
(* and any numbers of retries, faults and requests of the learner.             *)
(*                                                                             *)
(* That a filing sticks is an action property and needs an invariant: one that *)
(* no write without a guard has changed is "recovered" if it is under a topic, *)
(* a status from which no claim, no late news and no repeated step moves it    *)
(* (Settled).                                                                  *)
EXTENDS LibraryFiling, FiniteSetTheorems, TLAPS

----------------------------------------------------------------------------
(* The inductive invariant *)

\* A run that does something does it for a session, with a topic once it has
\* filed; the learner's request cleans up after a topic it has read.
Owners ==
  /\ \A r \in Runs : run[r].at # "idle" => run[r].session \in Sessions
  /\ \A s \in Sessions : learner[s].at \in {"cleanup", "delete"} => learner[s].topic \in Topics

\* An observer sends one request for its session at most.
Sent == {"wait", "answered", "claimed"}
Senders == {s \in Sessions : observer[s] \in Sent}
Issues == issued <= MaxAsks + Cardinality(Senders)

\* A session under a topic is beyond the reach of claims and of late news.
Settled ==
  \A s \in Sessions \ overridden : session[s].topic # None => session[s].status = "recovered"

TInv == TypeOK /\ Owners /\ Issues
FInv == TInv /\ Settled /\ KeepOutStands

----------------------------------------------------------------------------
(* Counting the senders *)

LEMMA SendersFinite ==
  Senders \subseteq Sessions /\ IsFiniteSet(Senders)
  /\ Cardinality(Senders) \in Nat /\ Cardinality(Senders) <= Cardinality(Sessions)
  /\ Cardinality(Sessions) \in Nat
BY FiniteAssumption, FS_Subset, FS_CardinalityType DEF Senders

\* No observer goes back to where it may send.
LEMMA IssuesFrame ==
  ASSUME TInv, observer' \in [Sessions -> ObserverSteps], issued' \in Int,
         issued' = issued \/ issued' <= MaxAsks,
         \A s \in Sessions : observer[s] \in Sent => observer'[s] \in Sent
  PROVE  Issues' /\ issued' <= MaxAsks + Cardinality(Sessions)
<1> DEFINE T == {s \in Sessions : observer'[s] \in Sent}
<1>1. Senders \subseteq T /\ T \subseteq Sessions
  BY DEF Senders
<1>2. IsFiniteSet(T) /\ IsFiniteSet(Sessions)
  BY <1>1, FiniteAssumption, FS_Subset
<1>3. /\ Cardinality(Senders) <= Cardinality(T) /\ Cardinality(T) <= Cardinality(Sessions)
      /\ Cardinality(T) \in Nat /\ Cardinality(Senders) \in Nat /\ Cardinality(Sessions) \in Nat
  BY <1>1, <1>2, FS_Subset, FS_CardinalityType, SendersFinite
<1>4. issued <= MaxAsks + Cardinality(Senders) /\ issued \in Int /\ MaxAsks \in Nat
  BY BoundAssumption DEF TInv, Issues, TypeOK, Keys
<1>5. issued' <= MaxAsks + Cardinality(T)
  <2> HIDE DEF T
  <2> QED BY <1>3, <1>4
<1>6. T = Senders'
  BY DEF Senders
<1>7. issued' <= MaxAsks + Cardinality(Sessions)
  <2> HIDE DEF T
  <2> QED BY <1>3, <1>5, <1>4
<1> QED BY <1>5, <1>6, <1>7 DEF Issues

LEMMA IssuesSend ==
  ASSUME TInv, NEW s \in Sessions, observer[s] = "claim",
         observer' = [observer EXCEPT ![s] = "wait"], issued' = issued + 1
  PROVE  Issues' /\ issued' <= MaxAsks + Cardinality(Sessions)
<1> DEFINE T == Senders \cup {s}
<1>0. observer \in [Sessions -> ObserverSteps]
  BY DEF TInv, TypeOK
<1>1. s \notin Senders /\ T \subseteq Sessions
  BY DEF Senders, Sent
<1>2. Senders' = T
  BY <1>0 DEF Senders, Sent
<1>3. Cardinality(T) = Cardinality(Senders) + 1
  BY <1>1, SendersFinite, FS_AddElement
<1>4. Cardinality(T) <= Cardinality(Sessions)
  BY <1>1, FiniteAssumption, FS_Subset
<1>5. issued <= MaxAsks + Cardinality(Senders) /\ issued \in Int /\ MaxAsks \in Nat
  BY BoundAssumption DEF TInv, Issues, TypeOK, Keys
<1>6. issued + 1 <= MaxAsks + Cardinality(T)
  <2> HIDE DEF T
  <2> QED BY <1>3, <1>5, SendersFinite
<1>7. issued + 1 <= MaxAsks + Cardinality(Sessions)
  <2> HIDE DEF T
  <2> QED BY <1>3, <1>4, <1>5, SendersFinite
<1> QED BY <1>2, <1>6, <1>7 DEF Issues

\* A key within the bound is a key.
LEMMA KeyIs ==
  ASSUME NEW n \in Int, n >= 0, n <= MaxAsks + Cardinality(Sessions)
  PROVE  n \in Keys
BY BoundAssumption, SendersFinite DEF Keys

----------------------------------------------------------------------------
(* Types *)

RunRow == [at : Steps \cup {"idle", "failing"}, session : Sessions \cup {None},
           topic : Topics \cup {None}, tries : 0..Retries]
Sound(x) ==
  /\ x \in RunRow
  /\ x.at # "idle" => x.session \in Sessions
  /\ x.at \in {"finalize", "cleanup", "delete"} => x.topic \in Topics

\* What the types say of the runs.
LEMMA RunsSound ==
  ASSUME TInv
  PROVE  run \in [Runs -> RunRow] /\ \A r \in Runs : Sound(run[r])
BY DEF TInv, TypeOK, Owners, Sound, RunRow

LEMMA IdleSound == Sound(Idle)
BY BoundAssumption DEF Sound, Idle, RunRow

\* What GoTo and Fault make of a run.
LEMMA PlacedSound ==
  ASSUME NEW x \in RunRow, NEW n \in 0..Retries, NEW l \in Steps \cup {"failing"},
         x.session \in Sessions,
         l \in {"finalize", "cleanup", "delete"} => x.topic \in Topics
  PROVE  Sound([x EXCEPT !.at = l, !.tries = n])
BY DEF Sound, RunRow, Steps

LEMMA TriedSound ==
  ASSUME NEW x, Sound(x), x.at # "idle"
  PROVE  /\ x.tries < Retries => Sound([x EXCEPT !.tries = x.tries + 1])
         /\ Sound([x EXCEPT !.at = "failing"])
<1>1. x \in RunRow /\ x.tries \in 0..Retries /\ Retries \in Nat
  BY BoundAssumption DEF Sound, RunRow
<1>2. x.tries < Retries => x.tries + 1 \in 0..Retries
  BY <1>1
<1>3. ASSUME NEW n \in 0..Retries PROVE Sound([x EXCEPT !.tries = n])
  BY <1>1 DEF Sound, RunRow
<1>4. Sound([x EXCEPT !.at = "failing"])
  BY <1>1 DEF Sound, RunRow, Steps
<1> QED BY <1>2, <1>3, <1>4

\* One run moves on.
LEMMA RunMoves ==
  ASSUME TInv, NEW r \in Runs, NEW x, Sound(x), run' = [run EXCEPT ![r] = x]
  PROVE  run' \in [Runs -> RunRow] /\ \A q \in Runs : Sound(run'[q])
BY RunsSound DEF Sound

\* The ways a step of a run ends.
LEMMA StepEnds ==
  ASSUME TInv, NEW r \in Runs, run[r].at # "idle",
         \/ \E place \in (Steps \cup {"failing"}) \ {"finalize", "cleanup", "delete"} :
               GoTo(r, place)
         \/ \E place \in Steps : GoTo(r, place) /\ run[r].topic \in Topics
         \/ Finish(r) \/ Fault(r)
  PROVE  /\ run' \in [Runs -> RunRow] /\ \A q \in Runs : Sound(run'[q])
         /\ faults' \in 0..MaxFaults
<1>0. run \in [Runs -> RunRow] /\ Sound(run[r]) /\ run[r].session \in Sessions
  BY RunsSound DEF Sound
<1>1. faults \in 0..MaxFaults /\ MaxFaults \in Nat /\ Retries \in Nat
  BY BoundAssumption DEF TInv, TypeOK
<1>2. CASE \E place \in (Steps \cup {"failing"}) \ {"finalize", "cleanup", "delete"} :
             GoTo(r, place)
  <2>1. PICK place \in (Steps \cup {"failing"}) \ {"finalize", "cleanup", "delete"} :
          GoTo(r, place)
    BY <1>2
  <2> DEFINE x == [run[r] EXCEPT !.at = place, !.tries = 0]
  <2>2. Sound(x)
    <3>1. run[r] \in RunRow /\ 0 \in 0..Retries /\ place \in Steps \cup {"failing"}
      BY <1>0, <1>1, <2>1 DEF Sound
    <3> QED BY <1>0, <2>1, <3>1, PlacedSound
  <2>3. run' = [run EXCEPT ![r] = x] /\ UNCHANGED faults
    BY <2>1 DEF GoTo
  <2> HIDE DEF x
  <2> QED BY <1>1, <2>2, <2>3, RunMoves
<1>3. CASE \E place \in Steps : GoTo(r, place) /\ run[r].topic \in Topics
  <2>1. PICK place \in Steps : GoTo(r, place) /\ run[r].topic \in Topics
    BY <1>3
  <2> DEFINE x == [run[r] EXCEPT !.at = place, !.tries = 0]
  <2>2. Sound(x)
    <3>1. run[r] \in RunRow /\ 0 \in 0..Retries /\ place \in Steps \cup {"failing"}
      BY <1>0, <1>1, <2>1 DEF Sound
    <3> QED BY <1>0, <2>1, <3>1, PlacedSound
  <2>3. run' = [run EXCEPT ![r] = x] /\ UNCHANGED faults
    BY <2>1 DEF GoTo
  <2> HIDE DEF x
  <2> QED BY <1>1, <2>2, <2>3, RunMoves
<1>4. CASE Finish(r)
  BY <1>1, <1>4, IdleSound, RunMoves DEF Finish
<1>5. CASE Fault(r)
  <2> DEFINE y == [run[r] EXCEPT !.tries = run[r].tries + 1]
             z == [run[r] EXCEPT !.at = "failing"]
  <2>1. /\ run[r].tries < Retries => run' = [run EXCEPT ![r] = y]
        /\ ~(run[r].tries < Retries) => run' = [run EXCEPT ![r] = z]
    BY <1>5 DEF Fault
  <2>2. run[r].tries < Retries => Sound(y)
    BY <1>0, TriedSound
  <2>3. Sound(z)
    BY <1>0, TriedSound
  <2>4. faults' \in 0..MaxFaults
    BY <1>1, <1>5 DEF Fault
  <2> HIDE DEF y, z
  <2> QED BY <2>1, <2>2, <2>3, <2>4, RunMoves
<1> QED BY <1>2, <1>3, <1>4, <1>5

\* No observer is rewound: the requests stay within their bound.
LEMMA IssuesStep ==
  ASSUME TInv, [Next]_vars
  PROVE  /\ observer' \in [Sessions -> ObserverSteps]
         /\ issued' \in Keys /\ Issues'
<1>0. /\ observer \in [Sessions -> ObserverSteps] /\ issued \in Int /\ issued >= 0
      /\ MaxAsks \in Nat
  BY BoundAssumption DEF TInv, TypeOK, Keys
<1> DEFINE Ahead == /\ observer' \in [Sessions -> ObserverSteps]
                    /\ \A s \in Sessions : observer[s] \in Sent => observer'[s] \in Sent
<1>1. ASSUME Ahead, issued' = issued \/ (issued' = issued + 1 /\ issued < MaxAsks)
      PROVE  /\ observer' \in [Sessions -> ObserverSteps]
             /\ issued' \in Keys /\ Issues'
  <2>1. issued' \in Int /\ issued' >= 0 /\ (issued' = issued \/ issued' <= MaxAsks)
    BY <1>0, <1>1
  <2>2. Issues' /\ issued' <= MaxAsks + Cardinality(Sessions)
    BY <1>1, <2>1, IssuesFrame
  <2> QED BY <1>1, <2>1, <2>2, KeyIs
<1>2. ASSUME UNCHANGED observer PROVE Ahead
  BY <1>0, <1>2
<1>3. ASSUME NEW s \in Sessions, NEW from \in ObserverSteps, NEW to \in ObserverSteps,
             observer[s] = from, observer' = [observer EXCEPT ![s] = to],
             from \in Sent => to \in Sent
      PROVE  Ahead
  BY <1>0, <1>3
<1>4. CASE UNCHANGED vars
  BY <1>1, <1>2, <1>4 DEF vars
<1>5. ASSUME NEW s \in Sessions,
             Close(s) \/ Completed(s) \/ LearnerStep(s) \/ Post(s) \/ PostFails(s)
               \/ RequestRetry(s) \/ RefileEnds(s)
      PROVE  UNCHANGED observer /\ (issued' = issued \/ (issued' = issued + 1 /\ issued < MaxAsks))
  BY <1>5 DEF Close, Completed, LearnerStep, Ask, KeepOut, Detach, CheckDetached, DeleteDetached,
              Post, PostFails, RequestRetry, RefileEnds
<1>6. ASSUME NEW s \in Sessions,
             \/ AwaitFiling(s) \/ Backfill(s) \/ TimeOut(s) \/ Reread(s)
             \/ ClaimRetry(s) /\ ~session[s].there
      PROVE  Ahead /\ UNCHANGED issued
  <2>1. PICK from \in {"none", "window", "queued", "claim"} : observer[s] = from
    BY <1>6 DEF AwaitFiling, Backfill, TimeOut, Observes, Reread, ClaimRetry
  <2>2. PICK to \in {"window", "queued", "over", "claim", "late"} :
          observer' = [observer EXCEPT ![s] = to]
    BY <1>6 DEF AwaitFiling, Backfill, TimeOut, Observes, Reread, ClaimRetry
  <2>3. UNCHANGED issued
    BY <1>6 DEF AwaitFiling, Backfill, TimeOut, Observes, Reread, ClaimRetry
  <2> QED BY <1>3, <2>1, <2>2, <2>3 DEF ObserverSteps, Sent
<1>7. ASSUME NEW s \in Sessions, GiveUp(s) \/ MarkRecovered(s) PROVE Ahead /\ UNCHANGED issued
  <2>1. CASE observer[s] = "late"
    BY <1>3, <1>7, <2>1 DEF GiveUp, MarkRecovered, Observes, ObserverSteps, Sent
  <2>2. CASE observer[s] # "late"
    <3>1. observer[s] \in {"wait", "answered"} /\ observer' = [observer EXCEPT ![s] = "claimed"]
      BY <1>7, <2>2 DEF GiveUp, MarkRecovered, Observes
    <3> QED BY <1>3, <1>7, <3>1 DEF GiveUp, MarkRecovered, ObserverSteps, Sent
  <2> QED BY <2>1, <2>2
<1>8. ASSUME NEW s \in Sessions, ClaimRetry(s), session[s].there
      PROVE  /\ observer' \in [Sessions -> ObserverSteps]
             /\ issued' \in Keys /\ Issues'
  <2>1. /\ observer[s] = "claim" /\ observer' = [observer EXCEPT ![s] = "wait"]
        /\ issued' = issued + 1
    BY <1>8 DEF ClaimRetry
  <2>2. Issues' /\ issued' <= MaxAsks + Cardinality(Sessions)
    BY <2>1, IssuesSend
  <2> QED BY <1>0, <2>1, <2>2, KeyIs DEF ObserverSteps
<1>9. ASSUME NEW e \in requests, Deliver(e) PROVE UNCHANGED <<observer, issued>>
  BY <1>9 DEF Deliver
<1>10. ASSUME NEW s \in Sessions, Announced(s) PROVE Ahead
  <2>1. CASE observer[s] = "window"
    BY <1>3, <1>10, <2>1 DEF Announced, ObserverSteps, Sent
  <2>2. CASE observer[s] # "window"
    BY <1>2, <1>10, <2>2 DEF Announced
  <2> QED BY <2>1, <2>2
<1>11. ASSUME NEW r \in Runs, RunStep(r) PROVE Ahead /\ UNCHANGED issued
  <2>1. CASE Notify(r)
    <3>1. run[r].session \in Sessions
      BY <2>1, RunsSound DEF Notify, Sound
    <3> QED BY <1>10, <2>1, <3>1 DEF Notify
  <2>2. CASE ~Notify(r)
    <3>1. UNCHANGED <<observer, issued>>
      BY <1>11, <2>2 DEF RunStep, Claim, Unresolved, Finalize, CheckRaced, DeleteRaced,
                         Fail, Resolve, MarkFailed
    <3> QED BY <1>2, <3>1
  <2> QED BY <2>1, <2>2
<1>12. ASSUME NEW s \in Sessions, NEW t \in Topics, PostFiles(s, t)
       PROVE  Ahead /\ UNCHANGED issued
  BY <1>2, <1>10, <1>12 DEF PostFiles
<1>13. ASSUME NEW s \in Sessions, Refile(s) PROVE Ahead /\ UNCHANGED issued
  <2>1. CASE observer[s] = "wait"
    BY <1>3, <1>13, <2>1 DEF Refile, ObserverSteps, Sent
  <2>2. CASE observer[s] # "wait"
    BY <1>10, <1>13, <2>2 DEF Refile
  <2> QED BY <2>1, <2>2
<1> HIDE DEF Ahead
<1> QED
  BY <1>1, <1>2, <1>4, <1>5, <1>6, <1>7, <1>8, <1>9, <1>11, <1>12, <1>13
  DEF Next, ObserverStep, PostStep, RefileStep

\* Nothing but a session of its own type comes of an update.
LEMMA RowUpdates ==
  ASSUME NEW x \in Row, NEW l \in Statuses, NEW b \in BOOLEAN, NEW t \in Topics \cup {None}
  PROVE  /\ [x EXCEPT !.topic = t, !.filed = b, !.status = l] \in Row
         /\ [x EXCEPT !.filed = b, !.status = l] \in Row
         /\ [x EXCEPT !.status = l] \in Row
         /\ [x EXCEPT !.there = FALSE, !.topic = None, !.filed = FALSE, !.status = "null"]
              \in Row
BY DEF Row, Statuses

LearnerRow == [at : {"idle", "keeping", "cleanup", "delete"}, topic : Topics \cup {None}]

\* The rows the sessions, the topics and the learner's requests leave behind.
Rows ==
  /\ session \in [Sessions -> Row]
  /\ library \in [Topics -> Sessions \cup {Free, Gone}]
  /\ learner \in [Sessions -> LearnerRow]
  /\ \A s \in Sessions : learner[s].at \in {"cleanup", "delete"} => learner[s].topic \in Topics
  /\ kept \subseteq Sessions /\ news \subseteq Sessions
  /\ posting \subseteq Sessions /\ refile \subseteq Sessions /\ overridden \subseteq Sessions
  /\ claimant \in [Sessions -> Claimants]

LEMMA RowsOf == TInv => Rows
BY DEF TInv, TypeOK, Owners, Rows, LearnerRow

LEMMA DeleteRows ==
  ASSUME Rows, NEW t \in Topics, DeleteTopic(t)
  PROVE  session' \in [Sessions -> Row] /\ library' \in [Topics -> Sessions \cup {Free, Gone}]
<1>1. \A s \in Sessions :
        [session[s] EXCEPT !.there = FALSE, !.topic = None, !.filed = FALSE, !.status = "null"]
          \in Row
  <2> TAKE s \in Sessions
  <2>1. session[s] \in Row
    BY DEF Rows
  <2> QED BY <2>1 DEF Row, Statuses
<1> QED BY <1>1 DEF Rows, DeleteTopic

\* The sets of sessions, in the steps that do not touch one
LEMMA RowsKept ==
  ASSUME Rows, UNCHANGED <<library, learner, kept, news, byPost>>,
         session' \in [Sessions -> Row], overridden' \subseteq Sessions,
         claimant' \in [Sessions -> Claimants]
  PROVE  Rows'
BY DEF Rows, byPost

LEMMA RowsStep ==
  ASSUME TInv, [Next]_vars
  PROVE  Rows'
<1>0. Rows
  BY RowsOf
<1>1. CASE UNCHANGED vars
  BY <1>0, <1>1 DEF vars, marks, byPost, Rows
<1>2. ASSUME NEW s \in Sessions, Close(s) PROVE Rows'
  <2>1. session' \in [Sessions -> Row]
    BY <1>0, <1>2 DEF Close, Rows, Row
  <2> QED BY <1>0, <1>2, <2>1, RowsKept DEF Close, marks, Rows
<1>3. ASSUME NEW s \in Sessions, AwaitFiling(s) \/ Backfill(s) \/ TimeOut(s) \/ Reread(s)
      PROVE  Rows'
  BY <1>0, <1>3, RowsKept DEF AwaitFiling, Backfill, TimeOut, Reread, marks, Rows
<1>4. ASSUME NEW s \in Sessions, NEW who \in Claimants, ClaimedBy(s, who)
      PROVE  claimant' \in [Sessions -> Claimants]
  BY <1>0, <1>4 DEF ClaimedBy, Rows
<1>5. ASSUME NEW s \in Sessions, NEW l \in Statuses, NEW who \in Claimants, Becomes(s, l, who)
      PROVE  session' \in [Sessions -> Row] /\ claimant' \in [Sessions -> Claimants]
  <2>1. session' \in [Sessions -> Row]
    BY <1>0, <1>5 DEF Becomes, Rows, Row
  <2> QED BY <1>4, <1>5, <2>1 DEF Becomes
<1>6. ASSUME NEW s \in Sessions, Override(s) PROVE overridden' \subseteq Sessions
  BY <1>0, <1>6 DEF Override, Rows
<1>7. ASSUME NEW s \in Sessions, Ask(s) PROVE Rows'
  <2>1. session' \in [Sessions -> Row] /\ claimant' \in [Sessions -> Claimants]
    BY <1>5, <1>7 DEF Ask, Statuses, Claimants
  <2> QED BY <1>0, <1>7, <2>1 DEF Ask, byPost, Rows
<1>8. ASSUME NEW s \in Sessions, ClaimRetry(s) \/ MarkRecovered(s) \/ GiveUp(s) PROVE Rows'
  <2>1. session' \in [Sessions -> Row] /\ claimant' \in [Sessions -> Claimants]
    BY <1>0, <1>5, <1>8 DEF ClaimRetry, MarkRecovered, GiveUp, Statuses, Claimants, marks, Rows
  <2>2. overridden' \subseteq Sessions
    BY <1>0, <1>6, <1>8 DEF ClaimRetry, MarkRecovered, GiveUp, marks, Rows
  <2> QED BY <1>0, <1>8, <2>1, <2>2, RowsKept DEF ClaimRetry, MarkRecovered, GiveUp
<1>9. ASSUME NEW s \in Sessions, KeepOut(s) PROVE Rows'
  <2>1. [at |-> "keeping", topic |-> session[s].topic] \in LearnerRow
    BY <1>0 DEF Rows, Row, LearnerRow
  <2>2. /\ learner' \in [Sessions -> LearnerRow]
        /\ \A x \in Sessions : learner'[x].at \in {"cleanup", "delete"} => learner'[x].topic \in Topics
    BY <1>0, <1>9, <2>1 DEF KeepOut, Rows
  <2> QED BY <1>0, <1>9, <2>2 DEF KeepOut, marks, Rows
<1>10. ASSUME NEW s \in Sessions, NEW x \in LearnerRow, learner' = [learner EXCEPT ![s] = x],
              x.at \in {"cleanup", "delete"} => x.topic \in Topics
       PROVE  /\ learner' \in [Sessions -> LearnerRow]
              /\ \A q \in Sessions : learner'[q].at \in {"cleanup", "delete"}
                                        => learner'[q].topic \in Topics
  BY <1>0, <1>10 DEF Rows
<1>11. Nothing \in LearnerRow /\ Nothing.at \notin {"cleanup", "delete"}
  BY DEF Nothing, LearnerRow
<1>12. ASSUME NEW s \in Sessions, Detach(s) PROVE Rows'
  <2> DEFINE x == [learner[s] EXCEPT !.at = "cleanup"]
  <2>1. learner[s] \in LearnerRow
    BY <1>0 DEF Rows
  <2>2. x \in LearnerRow /\ x.topic = learner[s].topic
    BY <2>1 DEF LearnerRow
  <2>3. learner[s].topic # None => x.topic \in Topics
    BY <2>1, <2>2 DEF LearnerRow
  <2>4. \/ learner' = [learner EXCEPT ![s] = Nothing]
        \/ learner' = [learner EXCEPT ![s] = x] /\ learner[s].topic # None
    BY <1>12 DEF Detach
  <2> HIDE DEF x
  <2>5. /\ learner' \in [Sessions -> LearnerRow]
        /\ \A q \in Sessions : learner'[q].at \in {"cleanup", "delete"} => learner'[q].topic \in Topics
    BY <1>10, <1>11, <2>2, <2>3, <2>4
  <2>6. [session[s] EXCEPT !.topic = None, !.filed = FALSE, !.status = "kept_out"] \in Row
    BY <1>0 DEF Rows, Row, Statuses
  <2>7. session' \in [Sessions -> Row] /\ kept' \subseteq Sessions /\ overridden' \subseteq Sessions
    BY <1>0, <1>12, <2>6 DEF Detach, marks, Rows
  <2>8. claimant' \in [Sessions -> Claimants]
    BY <1>0, <1>4, <1>12 DEF Detach, marks, Claimants, Rows
  <2> QED BY <1>0, <1>12, <2>5, <2>7, <2>8 DEF Detach, byPost, Rows
<1>13. ASSUME NEW s \in Sessions, CheckDetached(s) PROVE Rows'
  <2> DEFINE x == [learner[s] EXCEPT !.at = "delete"]
  <2>1. learner[s] \in LearnerRow /\ learner[s].topic \in Topics
    BY <1>0, <1>13 DEF CheckDetached, Rows
  <2>2. x \in LearnerRow /\ x.topic \in Topics
    BY <2>1 DEF LearnerRow
  <2>3. \/ learner' = [learner EXCEPT ![s] = Nothing]
        \/ learner' = [learner EXCEPT ![s] = x]
    BY <1>13 DEF CheckDetached
  <2> HIDE DEF x
  <2>4. /\ learner' \in [Sessions -> LearnerRow]
        /\ \A q \in Sessions : learner'[q].at \in {"cleanup", "delete"} => learner'[q].topic \in Topics
    BY <1>10, <1>11, <2>2, <2>3
  <2> QED BY <1>0, <1>13, <2>4 DEF CheckDetached, marks, byPost, Rows
<1>14. ASSUME NEW s \in Sessions, DeleteDetached(s) PROVE Rows'
  <2>1. learner[s].topic \in Topics
    BY <1>0, <1>14 DEF DeleteDetached, Rows
  <2>2. session' \in [Sessions -> Row] /\ library' \in [Topics -> Sessions \cup {Free, Gone}]
    BY <1>0, <1>14, <2>1, DeleteRows DEF DeleteDetached
  <2>3. /\ learner' \in [Sessions -> LearnerRow]
        /\ \A q \in Sessions : learner'[q].at \in {"cleanup", "delete"} => learner'[q].topic \in Topics
    BY <1>10, <1>11, <1>14 DEF DeleteDetached
  <2> QED BY <1>0, <1>14, <2>2, <2>3 DEF DeleteDetached, marks, byPost, Rows
<1>15. ASSUME NEW s \in Sessions, Completed(s) PROVE Rows'
  <2>1. [session[s] EXCEPT !.filed = TRUE, !.status = "recovered"] \in Row
    BY <1>0 DEF Rows, Row, Statuses
  <2>2. session' \in [Sessions -> Row] /\ news' \subseteq Sessions
    BY <1>0, <1>15, <2>1 DEF Completed, Rows
  <2>3. claimant' \in [Sessions -> Claimants]
    BY <1>0, <1>4, <1>15 DEF Completed, Claimants, Rows
  <2> QED BY <1>0, <1>15, <2>2, <2>3 DEF Completed, byPost, Rows
<1>16. ASSUME NEW e \in requests, Deliver(e) PROVE Rows'
  BY <1>0, <1>16, RowsKept DEF Deliver, marks, Rows
<1>17. ASSUME NEW s \in Sessions, NEW t \in Topics, Resolved(s, t)
       PROVE  library' \in [Topics -> Sessions \cup {Free, Gone}]
  BY <1>0, <1>17 DEF Resolved, Rows
<1>18. ASSUME NEW s \in Sessions, NEW t \in Topics, PostFiles(s, t) PROVE Rows'
  <2>1. [session[s] EXCEPT !.topic = t, !.filed = TRUE] \in Row
    BY <1>0 DEF Rows, Row
  <2>2. session' \in [Sessions -> Row] /\ news' \subseteq Sessions /\ overridden' \subseteq Sessions
    BY <1>0, <1>18, <2>1 DEF PostFiles, Announced, Rows
  <2> QED BY <1>0, <1>17, <1>18, <2>2 DEF PostFiles, Rows
<1>19. ASSUME NEW s \in Sessions, Post(s) \/ PostFails(s) PROVE Rows'
  BY <1>0, <1>19 DEF Post, PostFails, marks, Rows
<1>20. ASSUME NEW s \in Sessions, RequestRetry(s) PROVE Rows'
  <2>1. session' \in [Sessions -> Row] /\ claimant' \in [Sessions -> Claimants]
    BY <1>5, <1>20 DEF RequestRetry, Statuses, Claimants
  <2> QED BY <1>0, <1>20, <2>1 DEF RequestRetry, Rows
<1>21. ASSUME NEW s \in Sessions, Refile(s) PROVE Rows'
  <2>1. library' \in [Topics -> Sessions \cup {Free, Gone}] /\ news' \subseteq Sessions
    BY <1>0, <1>17, <1>21 DEF Refile, Announced, Rows
  <2> QED BY <1>0, <1>21, <2>1 DEF Refile, marks, Rows
<1>22. ASSUME NEW s \in Sessions, RefileEnds(s) PROVE Rows'
  BY <1>0, <1>22 DEF RefileEnds, Claimants, Rows
<1>23. ASSUME NEW r \in Runs, RunStep(r) PROVE Rows'
  <2> DEFINE s == run[r].session
             t == run[r].topic
  <2>0. run[r].at # "idle" => s \in Sessions
    BY RunsSound DEF Sound
  <2>1. CASE Claim(r) \/ MarkFailed(r)
    <3>1. session' \in [Sessions -> Row] /\ claimant' \in [Sessions -> Claimants]
      BY <1>0, <1>5, <2>0, <2>1 DEF Claim, MarkFailed, Statuses, Claimants, Rows
    <3> QED BY <1>0, <2>1, <3>1, RowsKept DEF Claim, MarkFailed, Rows
  <2>2. CASE Unresolved(r) \/ CheckRaced(r) \/ Fail(r)
    BY <1>0, <2>2, RowsKept DEF Unresolved, CheckRaced, Fail, marks, Rows
  <2>3. CASE Notify(r)
    <3>1. news' \subseteq Sessions
      BY <1>0, <2>0, <2>3 DEF Notify, Announced, Rows
    <3> QED BY <1>0, <2>3, <3>1 DEF Notify, marks, byPost, Rows
  <2>4. ASSUME NEW x \in Topics, Resolve(r, x) PROVE Rows'
    <3>1. library' \in [Topics -> Sessions \cup {Free, Gone}]
      BY <1>17, <2>0, <2>4 DEF Resolve
    <3> QED BY <1>0, <2>4, <3>1 DEF Resolve, marks, byPost, Rows
  <2>5. CASE Finalize(r)
    <3>1. s \in Sessions /\ t \in Topics
      BY <2>5, RunsSound DEF Finalize, Sound
    <3>2. [session[s] EXCEPT !.topic = t, !.filed = TRUE, !.status = "recovered"] \in Row
      <4> HIDE DEF s, t
      <4>1. session[s] \in Row /\ "recovered" \in Statuses
        BY <1>0, <3>1 DEF Rows, Statuses
      <4> QED BY <3>1, <4>1 DEF Row
    <3>3. session' \in [Sessions -> Row]
      BY <1>0, <2>5, <3>2 DEF Finalize, Rows
    <3>4. claimant' \in [Sessions -> Claimants]
      BY <1>0, <1>4, <2>5, <3>1 DEF Finalize, Claimants, Rows
    <3> QED BY <1>0, <2>5, <3>3, <3>4, RowsKept DEF Finalize, Rows
  <2>6. CASE DeleteRaced(r)
    <3>1. t \in Topics
      BY <2>6, RunsSound DEF DeleteRaced, Sound
    <3>2. session' \in [Sessions -> Row] /\ library' \in [Topics -> Sessions \cup {Free, Gone}]
      BY <1>0, <2>6, <3>1, DeleteRows DEF DeleteRaced
    <3> QED BY <1>0, <2>6, <3>2 DEF DeleteRaced, marks, byPost, Rows
  <2> QED BY <1>23, <2>1, <2>2, <2>3, <2>4, <2>5, <2>6 DEF RunStep
<1> QED
  BY <1>1, <1>2, <1>3, <1>7, <1>8, <1>9, <1>12, <1>13, <1>14, <1>15, <1>16, <1>18, <1>19, <1>20,
     <1>21, <1>22, <1>23
  DEF Next, LearnerStep, ObserverStep, PostStep, RefileStep

\* The events and the runs they start.
LEMMA RunsStep ==
  ASSUME TInv, [Next]_vars, issued' \in Keys
  PROVE  /\ run' \in [Runs -> RunRow] /\ \A q \in Runs : Sound(run'[q])
         /\ faults' \in 0..MaxFaults /\ calls' \in 0..MaxCalls
         /\ requests' \subseteq Request /\ seen' \subseteq Request
<1>0. /\ run \in [Runs -> RunRow] /\ \A q \in Runs : Sound(run[q])
      /\ faults \in 0..MaxFaults /\ calls \in 0..MaxCalls
      /\ requests \subseteq Request /\ seen \subseteq Request
  BY RunsSound DEF TInv, TypeOK
<1>1. ASSUME UNCHANGED run
      PROVE  run' \in [Runs -> RunRow] /\ \A q \in Runs : Sound(run'[q])
  BY <1>0, <1>1
<1>2. CASE UNCHANGED vars
  BY <1>0, <1>1, <1>2 DEF vars, byPost
<1>3. ASSUME Erring \/ UNCHANGED faults PROVE faults' \in 0..MaxFaults
  BY <1>0, <1>3, BoundAssumption DEF Erring
<1>4. ASSUME Called \/ UNCHANGED calls PROVE calls' \in 0..MaxCalls
  BY <1>0, <1>4, BoundAssumption DEF Called
<1> DEFINE Quiet == UNCHANGED <<run, seen>> /\ (Erring \/ UNCHANGED faults)
                    /\ (Called \/ UNCHANGED calls)
<1>8. ASSUME NEW s \in Sessions, Close(s) \/ Ask(s) \/ ClaimRetry(s)
      PROVE  requests' \subseteq Request /\ Quiet
  <2>1. Initial \in Keys
    BY BoundAssumption, SendersFinite DEF Initial, Keys
  <2>2. PICK k \in Keys : requests' = requests \/ Requested(s, k)
    BY <1>8, <2>1 DEF Close, Ask, ClaimRetry
  <2>3. [session |-> s, key |-> k] \in Request
    BY DEF Request
  <2>4. requests' \subseteq Request
    BY <1>0, <2>2, <2>3 DEF Requested
  <2> QED BY <1>8, <2>4 DEF Close, Ask, ClaimRetry, byPost
<1>9. ASSUME NEW s \in Sessions,
             \/ AwaitFiling(s) \/ Backfill(s) \/ KeepOut(s) \/ Detach(s) \/ CheckDetached(s)
             \/ DeleteDetached(s) \/ TimeOut(s) \/ Reread(s) \/ MarkRecovered(s) \/ GiveUp(s)
             \/ Completed(s)
      PROVE  UNCHANGED requests /\ Quiet
  BY <1>9 DEF AwaitFiling, Backfill, KeepOut, Detach, CheckDetached, DeleteDetached, TimeOut,
              Reread, MarkRecovered, GiveUp, Completed, byPost
<1>10. ASSUME NEW s \in Sessions, PostStep(s) \/ RefileStep(s)
       PROVE  UNCHANGED requests /\ Quiet
  BY <1>10 DEF PostStep, Post, PostFiles, PostFails, RequestRetry, RefileStep, Refile, RefileEnds
<1>5. ASSUME NEW e \in requests, Deliver(e)
      PROVE  /\ run' \in [Runs -> RunRow] /\ \A q \in Runs : Sound(run'[q])
             /\ faults' = faults /\ calls' = calls
             /\ requests' \subseteq Request /\ seen' \subseteq Request
  <2>1. e \in Request /\ e.session \in Sessions
    BY <1>0 DEF Request
  <2>2. requests' \subseteq Request /\ seen' \subseteq Request /\ faults' = faults
        /\ calls' = calls
    BY <1>0, <1>5, <2>1 DEF Deliver, byPost
  <2>3. CASE UNCHANGED run
    BY <1>1, <2>2, <2>3
  <2>4. CASE run' # run
    <3>1. PICK r \in Runs :
            run' = [run EXCEPT ![r] = [Idle EXCEPT !.at = "claim", !.session = e.session]]
      BY <1>5, <2>4 DEF Deliver
    <3>2. ASSUME NEW x \in RunRow
          PROVE  Sound([x EXCEPT !.at = "claim", !.session = e.session])
      BY <2>1 DEF Sound, RunRow, Steps
    <3>3. Idle \in RunRow
      BY IdleSound DEF Sound
    <3> QED BY <2>2, <3>1, <3>2, <3>3, RunMoves
  <2> QED BY <2>3, <2>4
<1>6. ASSUME NEW r \in Runs, RunStep(r)
      PROVE  /\ run' \in [Runs -> RunRow] /\ \A q \in Runs : Sound(run'[q])
             /\ faults' \in 0..MaxFaults /\ UNCHANGED <<requests, seen, calls>>
  <2>0. UNCHANGED <<requests, seen, calls>>
    BY <1>6 DEF RunStep, Claim, Unresolved, Finalize, CheckRaced, DeleteRaced, Notify,
                Fail, Resolve, MarkFailed, byPost
  <2>1. CASE \E t \in Topics : Resolve(r, t)
    <3>1. PICK t \in Topics : Resolve(r, t)
      BY <2>1
    <3>2. CASE Fault(r)
      BY <2>0, <3>1, <3>2, StepEnds DEF Resolve
    <3>3. CASE /\ run' = [run EXCEPT ![r] = [@ EXCEPT !.at = "finalize", !.topic = t, !.tries = 0]]
               /\ UNCHANGED faults
      <4> DEFINE x == [run[r] EXCEPT !.at = "finalize", !.topic = t, !.tries = 0]
      <4>1. run[r] \in RunRow /\ run[r].session \in Sessions
        BY <1>0, <3>1 DEF Resolve, Sound
      <4>2. Sound(x)
        <5>1. 0 \in 0..Retries /\ "finalize" \in Steps
          BY BoundAssumption DEF Steps
        <5> QED BY <4>1, <5>1 DEF Sound, RunRow
      <4>3. run' = [run EXCEPT ![r] = x]
        BY <3>3
      <4> HIDE DEF x
      <4> QED BY <1>0, <2>0, <3>3, <4>2, <4>3, RunMoves
    <3> QED BY <3>1, <3>2, <3>3 DEF Resolve
  <2>2. CASE ~\E t \in Topics : Resolve(r, t)
    <3>1. run[r].at # "idle"
      BY <1>6, <2>2 DEF RunStep, Claim, Unresolved, Finalize, CheckRaced, DeleteRaced,
                        Notify, Fail, MarkFailed, Steps
    <3>2. CASE Claim(r)
      BY <2>0, <3>1, <3>2, StepEnds DEF Claim, Steps
    <3>3. CASE Unresolved(r)
      BY <2>0, <3>1, <3>3, StepEnds DEF Unresolved, Steps
    <3>4. CASE Finalize(r)
      <4>1. run[r].topic \in Topics
        BY <1>0, <3>4 DEF Finalize, Sound
      <4>2. GoTo(r, "cleanup") \/ GoTo(r, "failing") \/ GoTo(r, "notify") \/ Fault(r)
        BY <3>4 DEF Finalize, Receipt
      <4> QED BY <2>0, <3>1, <4>1, <4>2, StepEnds DEF Steps
    <3>5. CASE CheckRaced(r)
      <4>1. run[r].topic \in Topics
        BY <1>0, <3>5 DEF CheckRaced, Sound
      <4>2. GoTo(r, "delete") \/ Finish(r)
        BY <3>5 DEF CheckRaced
      <4> QED BY <2>0, <3>1, <4>1, <4>2, StepEnds DEF Steps
    <3>6. CASE DeleteRaced(r) \/ Notify(r) \/ MarkFailed(r)
      BY <2>0, <3>1, <3>6, StepEnds DEF DeleteRaced, Notify, MarkFailed
    <3>7. CASE Fail(r)
      BY <2>0, <3>1, <3>7, StepEnds DEF Fail
    <3> QED BY <1>6, <2>2, <3>2, <3>3, <3>4, <3>5, <3>6, <3>7 DEF RunStep
  <2> QED BY <2>1, <2>2
<1>7. ASSUME Quiet
      PROVE  /\ run' \in [Runs -> RunRow] /\ \A q \in Runs : Sound(run'[q])
             /\ faults' \in 0..MaxFaults /\ calls' \in 0..MaxCalls /\ seen' \subseteq Request
  BY <1>0, <1>1, <1>3, <1>4, <1>7
<1> HIDE DEF Quiet
<1>11. UNCHANGED vars \/ Next
  OBVIOUS
<1> QED
  BY <1>0, <1>2, <1>5, <1>6, <1>7, <1>8, <1>9, <1>10, <1>11 DEF Next, LearnerStep, ObserverStep

LEMMA TypesStep ==
  ASSUME TInv, [Next]_vars
  PROVE  TInv'
<1>1. observer' \in [Sessions -> ObserverSteps] /\ issued' \in Keys /\ Issues'
  BY IssuesStep
<1>2. Rows'
  BY RowsStep
<1>3. /\ run' \in [Runs -> RunRow] /\ \A q \in Runs : Sound(run'[q])
      /\ faults' \in 0..MaxFaults /\ calls' \in 0..MaxCalls
      /\ requests' \subseteq Request /\ seen' \subseteq Request
  BY <1>1, RunsStep
<1>4. TypeOK'
  BY <1>1, <1>2, <1>3 DEF TypeOK, Rows, LearnerRow, RunRow, Sound
<1>5. Owners'
  BY <1>2, <1>3 DEF Owners, Rows, Sound
<1> QED BY <1>1, <1>4, <1>5 DEF TInv

LEMMA InitInv == Init => FInv
<1> SUFFICES ASSUME Init PROVE FInv
  OBVIOUS
<1>1. Idle \in RunRow /\ \A r \in Runs : run[r] = Idle
  BY IdleSound DEF Sound, Init
<1>2. issued \in Keys /\ faults \in 0..MaxFaults /\ calls \in 0..MaxCalls /\ Issues
  <2>1. 0 <= MaxAsks + Cardinality(Senders) /\ 0 <= MaxAsks + Cardinality(Sessions)
    BY SendersFinite, BoundAssumption
  <2> QED BY <2>1, BoundAssumption, SendersFinite DEF Init, Keys, Issues
<1>3. TypeOK
  BY <1>1, <1>2 DEF Init, TypeOK, Row, Statuses, ObserverSteps, Steps, RunRow, Idle, Nothing,
                    Claimants
<1>4. Owners
  BY <1>1 DEF Init, Owners, Idle, Nothing
<1>5. Settled /\ KeepOutStands
  BY DEF Init, Settled, KeepOutStands
<1> QED BY <1>2, <1>3, <1>4, <1>5 DEF FInv, TInv

\* The session rows, the topics, the runs and the observers keep their types.
THEOREM TypeCorrect == Spec => []TypeOK
<1>1. Init => TInv
  BY InitInv DEF FInv
<1>2. TInv /\ [Next]_vars => TInv'
  BY TypesStep
<1>3. TInv => TypeOK
  BY DEF TInv
<1> QED BY <1>1, <1>2, <1>3, PTL DEF Spec

----------------------------------------------------------------------------
(* What a step does to one session *)

\* It is neither kept out nor cleared of an override.
Keeps(s) == (s \in kept' => s \in kept) /\ (s \in overridden => s \in overridden')
\* Nothing that matters here
Same(s) ==
  /\ session'[s].there = session[s].there /\ session'[s].topic = session[s].topic
  /\ session'[s].filed = session[s].filed /\ session'[s].status = session[s].status
  /\ Keeps(s)
\* Its topic was deleted, and the row with it.
Deleted(s) == ~session'[s].there /\ session'[s].topic = None
\* The learner keeps it out.
Detached(s) == session'[s].topic = None /\ ~session'[s].filed /\ session'[s].status = "kept_out"
\* It is claimed, given up or reported as filed.
Moved(s) ==
  /\ Is(s, "null") \/ Is(s, "pending") \/ Is(s, "failed")
  /\ session'[s].topic = session[s].topic /\ Keeps(s)
\* The learner asks for it.
Asked(s) == Unfiled(s) /\ session'[s].topic = None /\ s \notin kept'
\* A run files it.
Filed(s) == Is(s, "pending") /\ session'[s].status = "recovered" /\ Keeps(s)
\* The observer changes its status, which is nobody's,
Loose(s) ==
  /\ Unfiled(s) /\ session[s].status # "kept_out"
  /\ session'[s].topic = session[s].topic /\ Keeps(s)
\* or overrides it.
Overrode(s) == session'[s].topic = session[s].topic /\ s \in overridden'
\* The learner files it on the spot.
FiledNow(s) == Posted(s) /\ s \in overridden'

Outcome(s) ==
  \/ Same(s) \/ Deleted(s) \/ Detached(s) \/ Moved(s) \/ Asked(s)
  \/ Filed(s) \/ Loose(s) \/ Overrode(s) \/ FiledNow(s)

LEMMA DeleteOutcome ==
  ASSUME Rows, NEW t \in Topics, DeleteTopic(t), UNCHANGED <<kept, overridden>>,
         NEW s \in Sessions
  PROVE  Same(s) \/ Deleted(s)
BY DEF Rows, Row, DeleteTopic, Same, Keeps, Deleted

\* Every step leaves every session with one of these.
LEMMA Outcomes ==
  ASSUME TInv, [Next]_vars, NEW s \in Sessions
  PROVE  Outcome(s)
<1> USE DEF Outcome
<1>0. Rows
  BY RowsOf
<1>1. ASSUME UNCHANGED <<session, kept, overridden>> PROVE Outcome(s)
  BY <1>1 DEF Same, Keeps
<1>2. ASSUME NEW q \in Sessions, q # s, kept' \subseteq kept \cup {q},
             overridden \ {q} \subseteq overridden', NEW x, session' = [session EXCEPT ![q] = x]
      PROVE  Outcome(s)
  BY <1>0, <1>2 DEF Rows, Same, Keeps
<1>3. CASE UNCHANGED vars
  BY <1>1, <1>3 DEF vars, marks
<1>4. ASSUME NEW q \in Sessions, Close(q) PROVE Outcome(s)
  <2>1. session' = [session EXCEPT ![q].active = FALSE] /\ UNCHANGED <<kept, overridden>>
    BY <1>4 DEF Close, marks
  <2>2. Same(s)
    BY <1>0, <2>1 DEF Same, Keeps, Rows, Row
  <2> QED BY <2>2
<1>5. ASSUME NEW q \in Sessions,
             \/ AwaitFiling(q) \/ Backfill(q) \/ KeepOut(q) \/ CheckDetached(q)
             \/ TimeOut(q) \/ Reread(q)
      PROVE  Outcome(s)
  BY <1>1, <1>5 DEF AwaitFiling, Backfill, KeepOut, CheckDetached, TimeOut, Reread, marks
<1>6. ASSUME NEW q \in Sessions, Ask(q) PROVE Outcome(s)
  <2>1. CASE q = s
    BY <1>0, <1>6, <2>1 DEF Ask, Becomes, Unfiled, Asked, Rows, Row
  <2>2. CASE q # s
    BY <1>0, <1>6, <2>2 DEF Ask, Becomes, Same, Keeps, Rows
  <2> QED BY <2>1, <2>2
<1>7. ASSUME NEW q \in Sessions, Detach(q) PROVE Outcome(s)
  <2>1. CASE session[q].there
    <3> DEFINE x == [session[q] EXCEPT !.topic = None, !.filed = FALSE, !.status = "kept_out"]
    <3>1. /\ session' = [session EXCEPT ![q] = x] /\ kept' = kept \cup {q}
          /\ overridden' = overridden \ {q}
      BY <1>7, <2>1 DEF Detach
    <3>2. x.topic = None /\ ~x.filed /\ x.status = "kept_out"
      BY <1>0 DEF Rows, Row
    <3> HIDE DEF x
    <3>3. CASE q = s
      BY <1>0, <3>1, <3>2, <3>3 DEF Detached, Rows
    <3> QED BY <1>2, <3>1, <3>3
  <2>2. CASE ~session[q].there
    BY <1>1, <1>7, <2>2 DEF Detach, marks
  <2> QED BY <2>1, <2>2
<1>8. ASSUME NEW q \in Sessions, DeleteDetached(q) PROVE Outcome(s)
  <2>1. learner[q].topic \in Topics
    BY <1>0, <1>8 DEF DeleteDetached, Rows
  <2> QED BY <1>0, <1>8, <2>1, DeleteOutcome DEF DeleteDetached, marks
<1>9. ASSUME NEW q \in Sessions, Completed(q) PROVE Outcome(s)
  <2>1. CASE Is(q, "pending") \/ Is(q, "failed")
    <3> DEFINE x == [session[q] EXCEPT !.filed = TRUE, !.status = "recovered"]
    <3>1. session' = [session EXCEPT ![q] = x] /\ kept' = kept /\ overridden' = overridden
      BY <1>9, <2>1 DEF Completed
    <3>2. x.topic = session[q].topic
      BY <1>0 DEF Rows, Row
    <3> HIDE DEF x
    <3>3. CASE q = s
      BY <1>0, <2>1, <3>1, <3>2, <3>3 DEF Moved, Keeps, Rows
    <3> QED BY <1>2, <3>1, <3>3
  <2>2. CASE ~(Is(q, "pending") \/ Is(q, "failed"))
    BY <1>1, <1>9, <2>2 DEF Completed
  <2> QED BY <2>1, <2>2
<1>10. ASSUME NEW q \in Sessions, NEW l \in Statuses, NEW who, Becomes(q, l, who),
              \/ Is(q, "null") \/ Is(q, "pending") \/ Is(q, "failed"),
              UNCHANGED <<kept, overridden>>
       PROVE  Outcome(s)
  <2>1. CASE q = s
    BY <1>0, <1>10, <2>1 DEF Becomes, Moved, Keeps, Rows, Row
  <2>2. CASE q # s
    BY <1>0, <1>10, <2>2 DEF Becomes, Same, Keeps, Rows
  <2> QED BY <2>1, <2>2
<1>11. ASSUME NEW q \in Sessions, NEW l \in Statuses, NEW who, Becomes(q, l, who),
              Override(q), UNCHANGED kept
       PROVE  Outcome(s)
  <2>1. CASE q = s
    <3>1. session'[s].topic = session[s].topic
      BY <1>0, <1>11, <2>1 DEF Becomes, Rows, Row
    <3>2. CASE Unfiled(s) /\ session[s].status # "kept_out"
      BY <1>11, <2>1, <3>1, <3>2 DEF Override, Loose, Keeps
    <3>3. CASE ~(Unfiled(s) /\ session[s].status # "kept_out")
      BY <1>11, <2>1, <3>1, <3>3 DEF Override, Overrode
    <3> QED BY <3>2, <3>3
  <2>2. CASE q # s
    <3>1. s \in overridden => s \in overridden'
      BY <1>11 DEF Override
    <3> QED BY <1>0, <1>11, <2>2, <3>1 DEF Becomes, Same, Keeps, Rows
  <2> QED BY <2>1, <2>2
<1>12. ASSUME NEW q \in Sessions, ClaimRetry(q) \/ MarkRecovered(q) PROVE Outcome(s)
  BY <1>1, <1>11, <1>12 DEF ClaimRetry, MarkRecovered, Statuses, marks
<1>13. ASSUME NEW q \in Sessions, GiveUp(q) \/ RequestRetry(q) PROVE Outcome(s)
  BY <1>1, <1>10, <1>13 DEF GiveUp, RequestRetry, Statuses
<1>14. ASSUME NEW q \in Sessions, NEW t \in Topics, PostFiles(q, t) PROVE Outcome(s)
  <2> DEFINE x == [session[q] EXCEPT !.topic = t, !.filed = TRUE]
  <2>1. /\ session' = [session EXCEPT ![q] = x] /\ kept' = kept
        /\ overridden' = overridden \cup {q} /\ q \in posting /\ q \notin posting'
    BY <1>14 DEF PostFiles
  <2> HIDE DEF x
  <2>2. CASE q = s
    BY <2>1, <2>2 DEF FiledNow, Posted
  <2> QED BY <1>2, <2>1, <2>2
<1>15. ASSUME NEW q \in Sessions, Post(q) PROVE Outcome(s)
  BY <1>15 DEF Post, marks, Same, Keeps
<1>16. ASSUME NEW q \in Sessions, PostFails(q) \/ Refile(q) \/ RefileEnds(q) PROVE Outcome(s)
  BY <1>1, <1>16 DEF PostFails, Refile, RefileEnds, marks
<1>17. ASSUME NEW e \in requests, Deliver(e) PROVE Outcome(s)
  BY <1>1, <1>17 DEF Deliver, marks
<1>18. ASSUME NEW r \in Runs, RunStep(r) PROVE Outcome(s)
  <2> DEFINE q == run[r].session
             t == run[r].topic
  <2>0. run[r].at # "idle" => q \in Sessions
    BY RunsSound DEF Sound
  <2>1. CASE Claim(r) \/ MarkFailed(r)
    BY <1>1, <1>10, <2>0, <2>1 DEF Claim, MarkFailed, Statuses
  <2>2. CASE Unresolved(r) \/ CheckRaced(r) \/ Fail(r) \/ Notify(r)
             \/ (\E x \in Topics : Resolve(r, x))
    BY <1>1, <2>2 DEF Unresolved, CheckRaced, Fail, Notify, Resolve, marks
  <2>3. CASE Finalize(r)
    <3>1. q \in Sessions /\ UNCHANGED <<kept, overridden>>
      BY <2>0, <2>3 DEF Finalize
    <3>2. CASE UNCHANGED session
      BY <1>1, <3>1, <3>2
    <3>3. CASE session' # session
      <4> DEFINE x == [session[q] EXCEPT !.topic = t, !.filed = TRUE, !.status = "recovered"]
      <4>1. session' = [session EXCEPT ![q] = x] /\ Is(q, "pending")
        BY <2>3, <3>3 DEF Finalize
      <4>2. x.status = "recovered"
        BY <1>0, <3>1 DEF Rows, Row
      <4> HIDE DEF x
      <4>3. CASE q = s
        BY <1>0, <3>1, <4>1, <4>2, <4>3 DEF Filed, Keeps, Rows
      <4> QED BY <1>2, <3>1, <4>1, <4>3
    <3> QED BY <3>2, <3>3
  <2>4. CASE DeleteRaced(r)
    <3>1. t \in Topics
      BY <2>4, RunsSound DEF DeleteRaced, Sound
    <3> QED BY <1>0, <2>4, <3>1, DeleteOutcome DEF DeleteRaced, marks
  <2> QED BY <1>18, <2>1, <2>2, <2>3, <2>4 DEF RunStep
<1> QED
  BY <1>3, <1>4, <1>5, <1>6, <1>7, <1>8, <1>9, <1>12, <1>13, <1>14, <1>15, <1>16, <1>17, <1>18
  DEF Next, LearnerStep, ObserverStep, PostStep, RefileStep

----------------------------------------------------------------------------
(* Keeping out and filing *)

LEMMA InvStep ==
  ASSUME FInv, [Next]_vars
  PROVE  Settled' /\ KeepOutStands'
<1>0. TInv /\ Settled /\ KeepOutStands /\ Rows
  BY RowsOf DEF FInv
<1>1. ASSUME NEW s \in Sessions PROVE Outcome(s)
  BY <1>0, Outcomes
<1>2. Settled'
  <2> SUFFICES ASSUME NEW s \in Sessions, s \notin overridden', session'[s].topic # None
               PROVE  session'[s].status = "recovered"
    BY DEF Settled
  <2>1. Outcome(s)
    BY <1>1
  <2>2. s \notin overridden /\ session[s].topic # None => session[s].status = "recovered"
    BY <1>0 DEF Settled
  <2> QED
    BY <2>1, <2>2
    DEF Outcome, Same, Keeps, Deleted, Detached, Moved, Asked, Filed, Loose, Overrode, FiledNow,
        Is, Unfiled
<1>3. KeepOutStands'
  <2> SUFFICES ASSUME NEW s \in kept', s \notin overridden', session'[s].there
               PROVE  Unfiled(s)' /\ session'[s].status = "kept_out"
    BY DEF KeepOutStands
  <2>0. s \in Sessions
    BY <1>0, RowsStep DEF Rows
  <2>1. Outcome(s)
    BY <1>1, <2>0
  <2>2. s \in kept /\ s \notin overridden /\ session[s].there
          => Unfiled(s) /\ session[s].status = "kept_out"
    BY <1>0 DEF KeepOutStands
  <2>3. CASE Same(s)
    BY <2>2, <2>3 DEF Same, Keeps, Unfiled
  <2>4. CASE Detached(s)
    BY <2>4 DEF Detached, Unfiled
  <2>5. CASE Moved(s) \/ Filed(s) \/ Loose(s)
    BY <2>2, <2>5 DEF Moved, Filed, Loose, Keeps, Is, Unfiled
  <2>6. ~Deleted(s) /\ ~Asked(s) /\ ~Overrode(s) /\ ~FiledNow(s)
    BY DEF Deleted, Asked, Overrode, FiledNow
  <2> QED BY <2>1, <2>3, <2>4, <2>5, <2>6 DEF Outcome
<1> QED BY <1>2, <1>3

LEMMA InvHolds == Spec => []FInv
<1>1. FInv /\ [Next]_vars => FInv'
  BY TypesStep, InvStep DEF FInv
<1> QED BY InitInv, <1>1, PTL DEF Spec

\* A session kept out stays out until the learner asks for it or files it,
\* whatever runs, retries and late news there are, unless one of the writes that
\* ask for no status has overridden it since.
THEOREM KeptOutStaysOut == Spec => []KeepOutStands
<1>1. FInv => KeepOutStands
  BY DEF FInv
<1> QED BY <1>1, InvHolds, PTL

\* No second run and no repeated step takes a session from the topic it was filed
\* under. Only the learner does, keeping it out or filing it on the spot, or the
\* deletion of the topic, or a run where a write that asks for no status has
\* come between.
THEOREM FiledOnce == Spec => FilingSticks
<1> DEFINE Sticks ==
      \A s \in Sessions :
        session[s].topic # None /\ session'[s].topic # session[s].topic =>
          \/ ~session'[s].there \/ session'[s].status = "kept_out"
          \/ Posted(s) \/ s \in overridden
<1>1. ASSUME FInv, [Next]_vars PROVE Sticks
  <2> SUFFICES ASSUME NEW s \in Sessions, session[s].topic # None,
                      session'[s].topic # session[s].topic, session'[s].there,
                      session'[s].status # "kept_out", ~Posted(s), s \notin overridden
               PROVE  FALSE
    OBVIOUS
  <2>1. session[s].status = "recovered"
    BY <1>1 DEF FInv, Settled
  <2>2. Outcome(s)
    BY <1>1, Outcomes DEF FInv
  <2> QED
    BY <2>1, <2>2
    DEF Outcome, Same, Deleted, Detached, Moved, Asked, Filed, Loose, Overrode, FiledNow,
        Is, Unfiled
<1>2. FInv /\ [Next]_vars => [Sticks]_vars
  BY <1>1
<1> QED BY <1>2, InvHolds, PTL DEF Spec, FilingSticks

=============================================================================
