---------------------- MODULE ConsentRevocation_proofs ----------------------
(* Proofs about the withdrawal of a consent, for any users and runs, any grace *)
(* and retention periods and any numbers of retries, withdrawals and changes.  *)
EXTENDS ConsentRevocation, TLAPS

----------------------------------------------------------------------------
(* The inductive invariant *)

\* Whoever waits for Clerk's answer is in the step that calls, about users who
\* have no login and are fenced.
Calls ==
  \A r \in Runs :
    /\ run[r].todo # {} => run[r].at = "calling"
    /\ \A u \in run[r].todo : u \notin login /\ fence[u] # "none"

\* The fence outlasts the tokens of an erased user.
Outlasts == \A u \in stale : fence[u] # "none"

\* A run that has woken slept until its day.
Awake == \A r \in Runs : run[r].at \notin {"none", "asleep"} => day >= run[r].wake

\* A run knows a revocation there has been, and sleeps through the grace period
\* of the one on the current grant if that is its own.
Known == \A r \in Runs : run[r].of <= revocations
Due ==
  \A r \in Runs : run[r].at # "none" /\ run[r].of # 0 /\ run[r].of = consent.revoked
                    => run[r].wake >= consent.since + Grace

\* The steps that ask for the consent belong to a revocation.
Asking == {"check", "choose", "archive"}
Kinds == \A r \in Runs : run[r].at \in Asking => run[r].of # 0

\* A child is archived under a withdrawal, after its grace period.
Late == child.archived # Never => consent.revoked # 0 /\ child.archived >= consent.since + Grace

\* What comes after the erasure is done once the child is gone.
After == {"reserve", "clerk", "calling", "release", "activate"}
Follows == \A r \in Runs : run[r].at \in After => ~child.there

TInv ==
  /\ TypeOK /\ Calls /\ NoGhostLogin /\ Outlasts
  /\ Awake /\ Known /\ Due /\ Kinds /\ Late /\ Follows

----------------------------------------------------------------------------
(* Records of runs *)

RunRow == [at : Places, of : 0..MaxRevocations, wake : 0..MaxDay + Grace + Retention,
           tries : 0..Retries, snapshot : Snapshot, second : BOOLEAN, todo : SUBSET Users]

LEMMA NothingIs == Nothing \in Snapshot
BY DEF Nothing, Snapshot

LEMMA CurrentIs ==
  ASSUME TypeOK
  PROVE  Current \in Snapshot /\ (child.there => Current.users = child.users)
<1>1. child.users \subseteq Users /\ rows \in Nat
  BY BoundAssumption DEF TypeOK, IdentityOK
<1> QED BY <1>1, NothingIs DEF Current, Snapshot

LEMMA NotStartedIs ==
  /\ NotStarted \in RunRow /\ NotStarted.at = "none" /\ NotStarted.of = 0 /\ NotStarted.todo = {}
  /\ NotStarted.snapshot = Nothing
<1>1. 0 \in 0..MaxRevocations /\ 0 \in 0..MaxDay + Grace + Retention /\ 0 \in 0..Retries
  BY DaysAssumption, BoundAssumption
<1> QED BY <1>1, NothingIs DEF NotStarted, RunRow, Places

\* Fields of a record that has been given a place, a count or a snapshot.
LEMMA Placed ==
  ASSUME NEW x \in RunRow, NEW p \in Places
  PROVE  /\ [x EXCEPT !.at = p] \in RunRow
         /\ [x EXCEPT !.at = p].at = p
         /\ [x EXCEPT !.at = p].of = x.of
         /\ [x EXCEPT !.at = p].wake = x.wake
         /\ [x EXCEPT !.at = p].todo = x.todo
         /\ [x EXCEPT !.at = p].snapshot = x.snapshot
BY DEF RunRow

LEMMA Counted ==
  ASSUME NEW x \in RunRow
  PROVE  /\ [x EXCEPT !.tries = 0] \in RunRow
         /\ [x EXCEPT !.tries = 0].at = x.at
         /\ [x EXCEPT !.tries = 0].of = x.of
         /\ [x EXCEPT !.tries = 0].wake = x.wake
         /\ [x EXCEPT !.tries = 0].todo = x.todo
         /\ [x EXCEPT !.tries = 0].snapshot = x.snapshot
<1>1. 0 \in 0..Retries
  BY BoundAssumption
<1> QED BY <1>1 DEF RunRow

LEMMA Pictured ==
  ASSUME NEW x \in RunRow, NEW s \in Snapshot
  PROVE  /\ [x EXCEPT !.snapshot = s] \in RunRow
         /\ [x EXCEPT !.snapshot = s].at = x.at
         /\ [x EXCEPT !.snapshot = s].of = x.of
         /\ [x EXCEPT !.snapshot = s].wake = x.wake
         /\ [x EXCEPT !.snapshot = s].todo = x.todo
         /\ [x EXCEPT !.snapshot = s].snapshot = s
BY DEF RunRow

LEMMA Seconded ==
  ASSUME NEW x \in RunRow, NEW b \in BOOLEAN
  PROVE  /\ [x EXCEPT !.second = b] \in RunRow
         /\ [x EXCEPT !.second = b].at = x.at
         /\ [x EXCEPT !.second = b].of = x.of
         /\ [x EXCEPT !.second = b].wake = x.wake
         /\ [x EXCEPT !.second = b].todo = x.todo
         /\ [x EXCEPT !.second = b].snapshot = x.snapshot
BY DEF RunRow

\* The run is over, or it goes on for the same revocation.
SameRun(r, x) == x.at \notin {"none", "asleep"} /\ x.of = run[r].of /\ x.wake = run[r].wake
OverRun(x) == x.at = "none" /\ x.of = 0 /\ x.todo = {} /\ x.snapshot = Nothing

LEMMA GoesToIs ==
  ASSUME TypeOK, NEW r \in Runs, NEW p \in (Places \cup {"over"}) \ {"none", "asleep"}
  PROVE  /\ GoesTo(r, p) \in RunRow
         /\ p = "over" => OverRun(GoesTo(r, p))
         /\ p # "over" => /\ SameRun(r, GoesTo(r, p)) /\ GoesTo(r, p).at = p
                          /\ GoesTo(r, p).todo = run[r].todo
                          /\ GoesTo(r, p).snapshot = run[r].snapshot
<1>1. run[r] \in RunRow
  BY DEF TypeOK, RunRow
<1>2. CASE p = "over"
  BY <1>2, NotStartedIs DEF GoesTo, OverRun
<1>3. CASE p # "over"
  BY <1>1, <1>3, Placed DEF GoesTo, SameRun
<1> QED BY <1>2, <1>3

LEMMA AgainIs ==
  ASSUME TypeOK, NEW r \in Runs
  PROVE  /\ Again(r) \in RunRow
         /\ Again(r).of = run[r].of
         /\ Again(r).wake = run[r].wake
         /\ Again(r).todo = {}
         /\ Again(r).snapshot = run[r].snapshot
         /\ \/ Again(r).at = "failing"
            \/ Again(r).at = IF run[r].at = "calling" THEN "clerk" ELSE run[r].at
<1>1. run[r] \in RunRow /\ run[r].tries \in 0..Retries
  BY DEF TypeOK, RunRow
<1>2. CASE run[r].tries < Retries
  <2> DEFINE l == IF run[r].at = "calling" THEN "clerk" ELSE run[r].at
  <2> DEFINE n == run[r].tries + 1
  <2>1. Again(r) = [run[r] EXCEPT !.tries = n, !.todo = {}, !.at = l]
    BY <1>1, <1>2 DEF Again, RunRow
  <2>2. n \in 0..Retries
    BY <1>1, <1>2, BoundAssumption
  <2>3. l \in Places
    BY <1>1 DEF RunRow, Places, Steps
  <2> HIDE DEF n
  <2>4. /\ Again(r) \in RunRow /\ Again(r).wake = run[r].wake /\ Again(r).todo = {}
        /\ Again(r).at = l /\ Again(r).snapshot = run[r].snapshot /\ Again(r).of = run[r].of
    <3> HIDE DEF l
    <3> QED BY <1>1, <2>1, <2>2, <2>3 DEF RunRow
  <2> QED BY <2>4
<1>3. CASE ~(run[r].tries < Retries)
  <2>1. Again(r) = [run[r] EXCEPT !.at = "failing", !.tries = 0, !.todo = {}]
    BY <1>3 DEF Again
  <2>2. 0 \in 0..Retries /\ "failing" \in Places
    BY BoundAssumption DEF Places
  <2> QED BY <1>1, <2>1, <2>2 DEF RunRow
<1> QED BY <1>2, <1>3

\* A run of a child that is gone
LEMMA ErasingIs ==
  ASSUME TypeOK, NEW r \in Runs
  PROVE  /\ Erasing(r) \in RunRow
         /\ \/ run[r].snapshot.users = {} /\ Cleanup(r) /\ OverRun(Erasing(r))
            \/ /\ SameRun(r, Erasing(r)) /\ Erasing(r).todo = run[r].todo
               /\ Erasing(r).snapshot.users = run[r].snapshot.users
               /\ Erasing(r).at = IF run[r].snapshot.users = {} THEN "activate" ELSE "reserve"
<1>1. CASE run[r].snapshot.users = {} /\ Cleanup(r)
  <2>1. Erasing(r) = GoesTo(r, "over")
    BY <1>1 DEF Erasing
  <2> QED BY <1>1, <2>1, GoesToIs
<1>2. CASE run[r].snapshot.users = {} /\ ~Cleanup(r)
  <2>1. Erasing(r) = GoesTo(r, "activate")
    BY <1>2 DEF Erasing
  <2> QED BY <1>2, <2>1, GoesToIs DEF Places, Steps
<1>3. CASE run[r].snapshot.users # {}
  <2> DEFINE x == GoesTo(r, "reserve")
  <2> DEFINE s == [x.snapshot EXCEPT !.there = FALSE, !.rows = 0]
  <2>1. x \in RunRow /\ SameRun(r, x) /\ x.todo = run[r].todo /\ x.at = "reserve"
        /\ x.snapshot = run[r].snapshot
    BY GoesToIs DEF Places, Steps
  <2>2. s \in Snapshot /\ s.users = run[r].snapshot.users
    BY <2>1 DEF RunRow, Snapshot
  <2>3. Erasing(r) = [[x EXCEPT !.snapshot = s] EXCEPT !.second = FALSE]
    BY <1>3, <2>1 DEF Erasing, RunRow
  <2> HIDE DEF s, x
  <2> DEFINE y == [x EXCEPT !.snapshot = s]
  <2>4. y \in RunRow /\ y.at = x.at /\ y.of = x.of /\ y.wake = x.wake /\ y.todo = x.todo /\ y.snapshot = s
    BY <2>1, <2>2, Pictured
  <2> HIDE DEF y
  <2>5. Erasing(r) = [y EXCEPT !.second = FALSE]
    BY <2>3 DEF y
  <2>6. /\ Erasing(r) \in RunRow /\ Erasing(r).at = y.at /\ Erasing(r).of = y.of
        /\ Erasing(r).wake = y.wake /\ Erasing(r).todo = y.todo /\ Erasing(r).snapshot = y.snapshot
    BY <2>4, <2>5, Seconded
  <2> QED BY <1>3, <2>1, <2>2, <2>4, <2>6 DEF SameRun
<1> QED BY <1>1, <1>2, <1>3

----------------------------------------------------------------------------
(* What a step does to the runs *)

\* A run falls asleep when an event is sent.
Falls(q) ==
  /\ run[q].at = "none" /\ run'[q].at = "asleep"
  /\ run'[q].todo = {} /\ run'[q].snapshot = Nothing
  /\ run'[q].of <= revocations /\ run'[q].wake = day + Sleep(run'[q].of)

\* A run learns of no users but the child's.
Narrows(r, x) == x.snapshot.users \subseteq run[r].snapshot.users \cup Current.users

LEMMA NarrowsIf ==
  ASSUME NEW r \in Runs, NEW x, OverRun(x) \/ x.snapshot.users = run[r].snapshot.users
  PROVE  Narrows(r, x)
BY DEF Narrows, OverRun, Nothing

Moves(r) ==
  /\ run' \in [Runs -> RunRow]
  /\ \A q \in Runs : q # r => run'[q] = run[q] \/ Falls(q)
  /\ SameRun(r, run'[r]) \/ OverRun(run'[r])
  /\ run'[r].todo # {} => run'[r].at = "calling"
  /\ Narrows(r, run'[r])

\* A record that may replace the one of a run
Fits(r, x) ==
  /\ x \in RunRow /\ (SameRun(r, x) \/ OverRun(x)) /\ (x.todo # {} => x.at = "calling")
  /\ Narrows(r, x)

LEMMA RunReplaced ==
  ASSUME TypeOK, NEW r \in Runs, NEW x, Fits(r, x), run' = [run EXCEPT ![r] = x]
  PROVE  Moves(r) /\ run'[r] = x
<1>1. run \in [Runs -> RunRow]
  BY DEF TypeOK, RunRow
<1> QED BY <1>1 DEF Moves, Fits

LEMMA KeptFits ==
  ASSUME NEW r \in Runs, NEW x, Fits(r, x)
  PROVE  /\ Fits(r, [x EXCEPT !.tries = 0])
         /\ [x EXCEPT !.tries = 0].at = x.at
         /\ [x EXCEPT !.tries = 0].todo = x.todo
         /\ [x EXCEPT !.tries = 0].snapshot = x.snapshot
BY Counted DEF Fits, SameRun, OverRun, Narrows

LEMMA AgainFits ==
  ASSUME TypeOK, NEW r \in Runs, run[r].at \in Steps
  PROVE  Fits(r, Again(r))
BY AgainIs, NarrowsIf DEF Fits, SameRun, Steps

LEMMA GoesToFits ==
  ASSUME TypeOK, Calls, NEW r \in Runs, NEW p \in (Places \cup {"over"}) \ {"none", "asleep"},
         run[r].at # "calling" \/ run[r].todo = {}
  PROVE  /\ Fits(r, GoesTo(r, p)) /\ GoesTo(r, p).todo = {}
         /\ p = "over" => GoesTo(r, p).at = "none"
         /\ p # "over" => GoesTo(r, p).at = p /\ GoesTo(r, p).snapshot = run[r].snapshot
                            /\ SameRun(r, GoesTo(r, p))
<1>1. run[r].todo = {}
  BY DEF Calls
<1> QED BY <1>1, GoesToIs, NarrowsIf DEF Fits, OverRun

\* A step of a run has returned, or is executed again.
LEMMA KeptMoves ==
  ASSUME TypeOK, NEW r \in Runs, NEW x, Fits(r, x), Kept(r, x)
  PROVE  /\ Moves(r)
         /\ run'[r].at = x.at /\ run'[r].todo = x.todo /\ run'[r].snapshot = x.snapshot
BY KeptFits, RunReplaced DEF Kept

LEMMA AgainMoves ==
  ASSUME TypeOK, NEW r \in Runs, run[r].at \in Steps, run' = [run EXCEPT ![r] = Again(r)]
  PROVE  Moves(r) /\ run'[r] = Again(r) /\ run'[r].todo = {}
BY AgainFits, RunReplaced, AgainIs

LEMMA ReturnsMoves ==
  ASSUME TypeOK, NEW r \in Runs, NEW x, Fits(r, x), run[r].at \in Steps, Returns(r, x)
  PROVE  /\ Moves(r)
         /\ \/ run'[r].at = x.at /\ run'[r].todo = x.todo /\ run'[r].snapshot = x.snapshot
            \/ run'[r] = Again(r) /\ run'[r].todo = {}
BY KeptMoves, AgainMoves DEF Returns

\* The steps that only go to a place or are executed again
LEMMA PlaceMoves ==
  ASSUME TypeOK, Calls, NEW r \in Runs, NEW p \in (Places \cup {"over"}) \ {"none", "asleep"},
         run[r].at \in Steps, run[r].at # "calling" \/ run[r].todo = {},
         Returns(r, GoesTo(r, p))
  PROVE  /\ Moves(r) /\ run'[r].todo = {}
         /\ \/ p = "over" /\ run'[r].at = "none"
            \/ p # "over" /\ run'[r].at = p /\ run'[r].snapshot = run[r].snapshot
            \/ run'[r] = Again(r)
<1>1. Fits(r, GoesTo(r, p)) /\ GoesTo(r, p).todo = {}
  BY GoesToFits
<1>2. \/ p = "over" /\ GoesTo(r, p).at = "none"
      \/ p # "over" /\ GoesTo(r, p).at = p /\ GoesTo(r, p).snapshot = run[r].snapshot
  BY GoesToFits
<1> QED BY <1>1, <1>2, ReturnsMoves

LEMMA BeginMoves ==
  ASSUME TypeOK, NEW r \in Runs, NEW U \in SUBSET Users,
         run' = [run EXCEPT ![r].at = "calling", ![r].todo = U]
  PROVE  Moves(r) /\ run'[r].at = "calling" /\ run'[r].todo = U
           /\ run'[r].snapshot = run[r].snapshot
<1> DEFINE x == [run[r] EXCEPT !.at = "calling", !.todo = U]
<1>1. run[r] \in RunRow
  BY DEF TypeOK, RunRow
<1>2. /\ x \in RunRow /\ SameRun(r, x)
      /\ x.at = "calling" /\ x.todo = U /\ x.snapshot = run[r].snapshot
  BY <1>1 DEF RunRow, Places, Steps, SameRun
<1>3. run' = [run EXCEPT ![r] = x]
  BY <1>1 DEF TypeOK, RunRow
<1> HIDE DEF x
<1>4. Fits(r, x)
  BY <1>2, NarrowsIf DEF Fits
<1> QED BY <1>2, <1>3, <1>4, RunReplaced

LEMMA CallMoves ==
  ASSUME TypeOK, NEW r \in Runs, NEW u, run[r].at = "calling",
         run' = [run EXCEPT ![r].todo = @ \ {u}]
  PROVE  Moves(r) /\ run'[r].at = "calling" /\ run'[r].todo = run[r].todo \ {u}
           /\ run'[r].snapshot = run[r].snapshot
<1> DEFINE U == run[r].todo \ {u}
<1> DEFINE x == [run[r] EXCEPT !.todo = U]
<1>1. run[r] \in RunRow /\ U \in SUBSET Users
  BY DEF TypeOK, RunRow
<1>2. run' = [run EXCEPT ![r] = x]
  BY <1>1 DEF TypeOK, RunRow
<1> HIDE DEF U
<1>3. Fits(r, x) /\ x.at = "calling" /\ x.todo = U /\ x.snapshot = run[r].snapshot
  BY <1>1, NarrowsIf DEF Fits, RunRow, SameRun
<1> HIDE DEF x
<1>4. Moves(r) /\ run'[r] = x
  BY <1>2, <1>3, RunReplaced
<1> QED BY <1>3, <1>4 DEF U

LEMMA SleepBound ==
  ASSUME day \in 0..MaxDay, NEW of
  PROVE  day + Sleep(of) \in 0..MaxDay + Grace + Retention
<1>1. day \in Int /\ 0 <= day /\ day <= MaxDay
  OBVIOUS
<1>2. MaxDay \in Nat /\ Grace \in Nat /\ Retention \in Nat
  BY DaysAssumption
<1>3. Sleep(of) \in Nat /\ Sleep(of) <= Grace + Retention
  BY <1>2 DEF Sleep
<1>4. day + Sleep(of) \in Int /\ 0 <= day + Sleep(of) /\ day + Sleep(of) <= MaxDay + Grace + Retention
  BY <1>1, <1>2, <1>3
<1> QED BY <1>4

\* An event that is sent has a run to wait for: the one it starts, or one that
\* sleeps and for which it is dropped.
LEMMA LaunchedIs ==
  ASSUME TypeOK, Awake, NEW of \in 0..revocations, Room(of),
         NEW runs \in [Runs -> RunRow], \A q \in Runs : run[q].at = "none" => runs[q] = run[q],
         run' = Launched(runs, of)
  PROVE  /\ run' \in [Runs -> RunRow]
         /\ \A q \in Runs : run'[q] = runs[q] \/ Falls(q)
         /\ \E q \in Runs : \/ /\ run[q].at = "asleep" /\ run[q].of = of
                               /\ run[q].wake >= day + Sleep(of)
                            \/ /\ run'[q].at = "asleep" /\ run'[q].of = of
                               /\ run'[q].wake >= day + Sleep(of)
<1>0. /\ run \in [Runs -> RunRow] /\ day \in 0..MaxDay /\ revocations \in 0..MaxRevocations
      /\ Grace \in Nat \ {0} /\ Retention \in Nat \ {0} /\ MaxDay \in Nat /\ Window \in Int
      /\ Window <= 1
  BY DaysAssumption DEF TypeOK, RunRow
<1>1. CASE Duplicate(of)
  <2>1. run' = runs
    BY <1>1 DEF Launched
  <2>2. PICK q \in Runs : run[q].at # "none" /\ run[q].of = of /\ day < run[q].wake - Sleep(of) + Window
    BY <1>1 DEF Duplicate
  <2>3. run[q].wake \in Int
    BY <1>0 DEF RunRow
  <2>4. Sleep(of) \in Nat \ {0}
    BY <1>0 DEF Sleep
  <2>5. ~(day >= run[q].wake) /\ run[q].wake >= day + Sleep(of)
    BY <1>0, <2>2, <2>3, <2>4
  <2>6. run[q].at = "asleep"
    BY <2>2, <2>5 DEF Awake
  <2> QED BY <2>1, <2>2, <2>5, <2>6
<1>2. CASE ~Duplicate(of)
  <2> DEFINE n == day + Sleep(of)
  <2> DEFINE x == [NotStarted EXCEPT !.at = "asleep", !.of = of, !.wake = n]
  <2>1. (\E q \in Runs : run[q].at = "none") /\ run' = [runs EXCEPT ![FreeRun] = x]
    BY <1>2 DEF Room, Launched
  <2>2. FreeRun \in Runs /\ run[FreeRun].at = "none"
    BY <2>1 DEF FreeRun
  <2>3. n \in 0..MaxDay + Grace + Retention
    BY <1>0, SleepBound
  <2>4. of \in 0..MaxRevocations /\ of <= revocations
    BY <1>0, BoundAssumption
  <2> HIDE DEF n
  <2>5. x \in RunRow /\ x.at = "asleep" /\ x.todo = {} /\ x.of = of /\ x.wake = n
        /\ x.snapshot = Nothing
    BY <2>3, <2>4, NotStartedIs DEF RunRow, Places, NotStarted
  <2> HIDE DEF x
  <2>6. /\ run' \in [Runs -> RunRow] /\ run'[FreeRun] = x
        /\ \A q \in Runs : q # FreeRun => run'[q] = runs[q]
    BY <2>1, <2>2, <2>5
  <2>7. Falls(FreeRun)
    BY <2>2, <2>4, <2>5, <2>6 DEF Falls, n
  <2>8. n \in Int /\ n >= day + Sleep(of)
    BY <2>3 DEF n
  <2> QED BY <2>2, <2>5, <2>6, <2>7, <2>8
<1> QED BY <1>1, <1>2

LEMMA ReadsMoves ==
  ASSUME TypeOK, Calls, NEW r \in Runs, Reads(r)
  PROVE  /\ Moves(r) /\ run'[r].todo = {}
         /\ run[r].at \in {"check", "choose", "capture"}
         /\ \/ run[r].at = "check" /\ run'[r].at = IF Stands(r) THEN "choose" ELSE "none"
            \/ run[r].at = "choose" /\ run'[r].at \in {"prepare", "archive"}
            \/ run[r].at = "capture" /\ run'[r].at = "erase"
<1>0. run[r].at \in Steps /\ run[r].at # "calling" /\ run[r].at \in {"check", "choose", "capture"}
  BY DEF Reads, At, Steps
<1>1. ASSUME NEW p \in {"over", "choose", "prepare", "archive", "erase"}
      PROVE  Fits(r, GoesTo(r, p)) /\ GoesTo(r, p).todo = {}
               /\ (GoesTo(r, p).at = IF p = "over" THEN "none" ELSE p)
               /\ (p # "over" => SameRun(r, GoesTo(r, p)))
  <2>1. p \in (Places \cup {"over"}) \ {"none", "asleep"}
    BY DEF Places, Steps
  <2> QED BY <1>0, <2>1, GoesToFits
<1>2. CASE At(r, "check") /\ Kept(r, GoesTo(r, IF Stands(r) THEN "choose" ELSE "over"))
  <2>1. CASE Stands(r)
    BY <1>0, <1>1, <1>2, <2>1, KeptMoves DEF At
  <2>2. CASE ~Stands(r)
    BY <1>0, <1>1, <1>2, <2>2, KeptMoves DEF At
  <2> QED BY <2>1, <2>2
<1>3. CASE At(r, "choose") /\ Kept(r, GoesTo(r, "prepare"))
  BY <1>0, <1>1, <1>3, KeptMoves DEF At
<1>4. CASE At(r, "choose") /\ Kept(r, GoesTo(r, "archive"))
  BY <1>0, <1>1, <1>4, KeptMoves DEF At
<1>5. CASE At(r, "capture") /\ Kept(r, [GoesTo(r, "erase") EXCEPT !.snapshot = Current])
  <2> DEFINE x == [GoesTo(r, "erase") EXCEPT !.snapshot = Current]
  <2>1. Fits(r, GoesTo(r, "erase")) /\ GoesTo(r, "erase").todo = {} /\ GoesTo(r, "erase").at = "erase"
        /\ SameRun(r, GoesTo(r, "erase"))
    BY <1>1
  <2>2. Fits(r, x) /\ x.todo = {} /\ x.at = "erase"
    BY <2>1, CurrentIs, Pictured DEF Fits, SameRun, Narrows
  <2>3. Kept(r, x)
    BY <1>5
  <2> HIDE DEF x
  <2> QED BY <1>0, <1>5, <2>2, <2>3, KeptMoves DEF At
<1> QED BY <1>2, <1>3, <1>4, <1>5 DEF Reads

\* Where a run goes from the erasure: the users it has are those of its snapshot.
LEMMA EraseMoves ==
  ASSUME TypeOK, Calls, NEW r \in Runs, Erase(r)
  PROVE  /\ Moves(r) /\ run'[r].todo = {} /\ run[r].at = "erase"
         /\ \/ /\ ~child'.there
               /\ \/ run'[r] = Again(r)
                  \/ run'[r].at = "none" /\ run[r].snapshot.users = {} /\ Cleanup(r)
                  \/ run'[r].at = "activate" /\ run[r].snapshot.users = {}
                  \/ run'[r].at = "reserve" /\ run'[r].snapshot.users = run[r].snapshot.users
            \/ UNCHANGED <<identity, person>> /\ run'[r].at \in {"failing", "capture"}
            \/ UNCHANGED <<identity, person>> /\ run'[r].at = "none" /\ Cleanup(r) /\ ~Eligible(r)
            \/ UNCHANGED <<identity, person>> /\ run'[r].at = "discard" /\ ~Eligible(r)
<1>0. run[r].at \in Steps /\ run[r].at = "erase" /\ run[r].todo = {}
  BY DEF Erase, At, Steps, Calls
<1>1. ASSUME NEW p \in {"over", "failing", "capture", "discard"}
      PROVE  Fits(r, GoesTo(r, p)) /\ GoesTo(r, p).todo = {} /\ GoesTo(r, p) \in RunRow
               /\ (GoesTo(r, p).at = IF p = "over" THEN "none" ELSE p)
               /\ (p # "over" => SameRun(r, GoesTo(r, p)) /\ GoesTo(r, p).snapshot = run[r].snapshot)
  <2>1. p \in (Places \cup {"over"}) \ {"none", "asleep"}
    BY DEF Places, Steps
  <2> QED BY <1>0, <2>1, GoesToFits, GoesToIs
<1>2. CASE ~child'.there /\ Returns(r, Erasing(r))
  <2>1. Fits(r, Erasing(r)) /\ Erasing(r).todo = {}
    BY <1>0, ErasingIs, NarrowsIf DEF Fits, OverRun
  <2>2. \/ run[r].snapshot.users = {} /\ Cleanup(r) /\ Erasing(r).at = "none"
        \/ run[r].snapshot.users = {} /\ Erasing(r).at = "activate"
        \/ Erasing(r).at = "reserve" /\ Erasing(r).snapshot.users = run[r].snapshot.users
    BY ErasingIs DEF OverRun
  <2> QED BY <1>0, <1>2, <2>1, <2>2, ReturnsMoves
<1>3. CASE /\ UNCHANGED <<identity, person>>
           /\ Kept(r, [GoesTo(r, IF run[r].second THEN "failing" ELSE "capture") EXCEPT !.second = TRUE])
  <2> DEFINE p == IF run[r].second THEN "failing" ELSE "capture"
  <2> DEFINE x == [GoesTo(r, p) EXCEPT !.second = TRUE]
  <2>1. p \in {"failing", "capture"}
    OBVIOUS
  <2>2. Kept(r, x)
    BY <1>3
  <2> HIDE DEF p
  <2>3. Fits(r, x) /\ x.todo = {} /\ x.at = p
    <3> DEFINE y == GoesTo(r, p)
    <3>1. y \in RunRow /\ SameRun(r, y) /\ y.todo = {} /\ y.at = p
          /\ y.snapshot = run[r].snapshot
      BY <1>1, <2>1
    <3> HIDE DEF y
    <3>2. x = [y EXCEPT !.second = TRUE]
      BY DEF y
    <3> HIDE DEF x
    <3>3. /\ x \in RunRow /\ x.at = y.at /\ x.of = y.of /\ x.wake = y.wake /\ x.todo = y.todo
          /\ x.snapshot = y.snapshot
      BY <3>1, <3>2, Seconded
    <3> QED BY <3>1, <3>3, NarrowsIf DEF Fits, SameRun
  <2> HIDE DEF x
  <2> QED BY <1>0, <1>3, <2>1, <2>2, <2>3, KeptMoves
<1>4. CASE UNCHANGED <<identity, person>> /\ ~Eligible(r) /\ Kept(r, Giving(r))
  <2>1. CASE Cleanup(r)
    BY <1>0, <1>1, <1>4, <2>1, KeptMoves DEF Giving
  <2>2. CASE ~Cleanup(r)
    BY <1>0, <1>1, <1>4, <2>2, KeptMoves DEF Giving
  <2> QED BY <2>1, <2>2
<1>5. CASE ~child.there /\ Kept(r, Erasing(r)) /\ UNCHANGED <<identity, person>>
  BY <1>2, <1>5 DEF Returns, person
<1>6. CASE ErasePerson /\ Returns(r, Erasing(r))
  BY <1>2, <1>6 DEF ErasePerson
<1> QED BY <1>3, <1>4, <1>5, <1>6 DEF Erase

LEMMA ScheduleMoves ==
  ASSUME TypeOK, Calls, Awake, NEW r \in Runs, ScheduleCleanup(r)
  PROVE  Moves(r) /\ run'[r].todo = {} /\ run[r].at = "schedule"
           /\ (run'[r].at = "none" \/ run'[r] = Again(r))
           /\ \E q \in Runs : \/ /\ run[q].at = "asleep" /\ Cleanup(q)
                                 /\ run[q].wake >= day + Retention
                              \/ /\ run'[q].at = "asleep" /\ Cleanup(q)'
                                 /\ run'[q].wake >= day + Retention
<1>0. run[r].at = "schedule" /\ run[r].at \in Steps /\ Room(0) /\ run \in [Runs -> RunRow]
  BY DEF ScheduleCleanup, At, Steps, TypeOK, RunRow
<1>1. PICK x \in {NotStarted, Again(r)} : run' = Launched([run EXCEPT ![r] = x], 0)
  BY DEF ScheduleCleanup
<1>2. Fits(r, x) /\ x.todo = {} /\ (x.at = "none" \/ x = Again(r))
  BY <1>0, <1>1, AgainFits, AgainIs, NotStartedIs, NarrowsIf DEF Fits, OverRun
<1> DEFINE R == [run EXCEPT ![r] = x]
<1>3. /\ R \in [Runs -> RunRow] /\ R[r] = x /\ \A q \in Runs : q # r => R[q] = run[q]
  BY <1>0, <1>2 DEF Fits
<1>4. run' = Launched(R, 0)
  BY <1>1
<1> HIDE DEF R
<1>5. \A q \in Runs : run[q].at = "none" => R[q] = run[q]
  BY <1>0, <1>3
<1>6. 0 \in 0..revocations
  BY DEF TypeOK
<1>7. run' \in [Runs -> RunRow] /\ \A q \in Runs : run'[q] = R[q] \/ Falls(q)
  BY <1>0, <1>3, <1>4, <1>5, <1>6, LaunchedIs
<1>8. run'[r] = x
  BY <1>0, <1>3, <1>7 DEF Falls
<1>9. \E q \in Runs : \/ /\ run[q].at = "asleep" /\ Cleanup(q)
                         /\ run[q].wake >= day + Retention
                      \/ /\ run'[q].at = "asleep" /\ Cleanup(q)'
                         /\ run'[q].wake >= day + Retention
  <2>1. \E q \in Runs : \/ /\ run[q].at = "asleep" /\ run[q].of = 0
                           /\ run[q].wake >= day + Sleep(0)
                        \/ /\ run'[q].at = "asleep" /\ run'[q].of = 0
                           /\ run'[q].wake >= day + Sleep(0)
    BY <1>0, <1>3, <1>4, <1>5, <1>6, LaunchedIs
  <2> QED BY <2>1 DEF Sleep, Cleanup
<1> QED BY <1>0, <1>2, <1>3, <1>7, <1>8, <1>9 DEF Moves, Fits

LEMMA StepMoves ==
  ASSUME TypeOK, Calls, Awake, Follows, NEW r \in Runs, RunStep(r)
  PROVE  /\ Moves(r)
         /\ run[r].at # "none"
         /\ run[r].at = "asleep" => day >= run[r].wake
         /\ run'[r].at \in After => ~child'.there
         /\ run'[r].at \in Asking => run[r].at \in Asking \/ ~Cleanup(r)
         /\ run'[r].todo \subseteq run[r].todo \/ BeginClerk(r)
<1> USE DEF At
<1>0. run[r].at \in After => ~child.there
  BY DEF Follows
<1>1. CASE Wake(r)
  <2> DEFINE p == IF Cleanup(r) THEN "capture" ELSE "check"
  <2>1. run[r].at = "asleep" /\ day >= run[r].wake /\ Kept(r, GoesTo(r, p))
    BY <1>1 DEF Wake
  <2>2. p \in {"capture", "check"} /\ (p = "check" => ~Cleanup(r))
    OBVIOUS
  <2> HIDE DEF p
  <2>3. Fits(r, GoesTo(r, p)) /\ GoesTo(r, p).todo = {} /\ GoesTo(r, p).at = p
    BY <2>1, <2>2, GoesToFits DEF Places, Steps
  <2> QED BY <2>1, <2>2, <2>3, KeptMoves DEF After, Asking
<1>2. CASE Reads(r)
  BY <1>2, ReadsMoves DEF After, Asking
<1>3. CASE Erase(r)
  <2>1. Moves(r) /\ run'[r].todo = {} /\ run[r].at = "erase"
    BY <1>3, EraseMoves
  <2>2. ~child'.there \/ run'[r].at \in {"failing", "capture", "none", "discard"}
    BY <1>3, EraseMoves
  <2>3. run'[r].at \notin Asking
    <3>1. \/ run'[r] = Again(r)
          \/ run'[r].at \in {"none", "activate", "reserve", "failing", "capture", "discard"}
      BY <1>3, EraseMoves
    <3> QED BY <2>1, <3>1, AgainIs DEF Asking
  <2> QED BY <2>1, <2>2, <2>3 DEF After
\* the other steps that go to a place
<1>4. ASSUME run[r].at \in Steps, child'.there = child.there,
             NEW p \in (Places \cup {"over"}) \ {"none", "asleep"},
             run[r].at # "calling" \/ run[r].todo = {}, Returns(r, GoesTo(r, p)),
             p \in After => run[r].at \in After, p \in Asking => run[r].at \in Asking
      PROVE  /\ Moves(r) /\ run[r].at \notin {"none", "asleep"}
             /\ run'[r].at \in After => ~child'.there
             /\ run'[r].at \in Asking => run[r].at \in Asking
             /\ run'[r].todo \subseteq run[r].todo
  <2>1. /\ Moves(r) /\ run'[r].todo = {}
        /\ run'[r].at = p \/ run'[r].at = "none" \/ run'[r] = Again(r)
    BY <1>4, PlaceMoves
  <2>2. Again(r).at \in {run[r].at, "clerk", "failing"} /\ (Again(r).at = "clerk" => run[r].at \in After)
    BY AgainIs DEF After
  <2> QED BY <1>0, <1>4, <2>1, <2>2 DEF After, Asking, Steps
<1>5. CASE Archive(r)
  <2>1. run[r].at = "archive" /\ (Returns(r, GoesTo(r, "schedule")) \/ Returns(r, GoesTo(r, "over")))
    BY <1>5 DEF Archive, Returns
  <2>2. child'.there = child.there
    BY <1>5 DEF Archive, TypeOK
  <2> QED BY <1>4, <2>1, <2>2 DEF After, Asking, Places, Steps
<1>6. CASE ScheduleCleanup(r)
  BY <1>6, ScheduleMoves, AgainIs DEF After, Asking
<1>7. CASE Prepare(r) \/ Discard(r)
  <2>1. /\ child'.there = child.there
        /\ \/ run[r].at = "prepare" /\ Returns(r, GoesTo(r, "capture"))
           \/ run[r].at = "discard" /\ Returns(r, GoesTo(r, "over"))
    BY <1>7 DEF Prepare, Discard, person
  <2> QED BY <1>4, <2>1 DEF After, Asking, Places, Steps
<1>8. CASE Reserve(r)
  <2>1. child'.there = child.there /\ run[r].at = "reserve"
        /\ (Returns(r, GoesTo(r, "failing")) \/ Returns(r, GoesTo(r, "clerk")))
    BY <1>8 DEF Reserve, person, Returns
  <2> QED BY <1>4, <2>1 DEF After, Asking, Places, Steps
<1>9. CASE BeginClerk(r)
  <2>1. child'.there = child.there /\ run[r].at = "clerk"
    BY <1>9 DEF BeginClerk, person
  <2>2. CASE Returns(r, GoesTo(r, "failing"))
    BY <1>4, <2>1, <2>2 DEF After, Asking, Places, Steps
  <2>3. CASE run' = [run EXCEPT ![r].at = "calling", ![r].todo = run[r].snapshot.users]
    <3>1. run[r].snapshot.users \in SUBSET Users
      BY DEF TypeOK, Snapshot
    <3> QED BY <1>0, <1>9, <2>1, <2>3, <3>1, BeginMoves DEF After, Asking
  <2> QED BY <1>9, <2>2, <2>3 DEF BeginClerk, Returns
<1>10. CASE CallClerk(r)
  <2>1. child'.there = child.there /\ run[r].at = "calling"
    BY <1>10 DEF CallClerk, person
  <2>2. CASE run[r].todo = {} /\ Returns(r, GoesTo(r, "release"))
    BY <1>4, <2>1, <2>2 DEF After, Asking, Places, Steps
  <2>3. CASE \E u \in run[r].todo : run' = [run EXCEPT ![r].todo = @ \ {u}]
    <3>1. PICK u \in run[r].todo : run' = [run EXCEPT ![r].todo = @ \ {u}]
      BY <2>3
    <3> QED BY <1>0, <2>1, <3>1, CallMoves DEF After, Asking
  <2> QED BY <1>10, <2>2, <2>3 DEF CallClerk, Returns
<1>11. CASE Release(r)
  <2> DEFINE p == IF Cleanup(r) THEN "over" ELSE "activate"
  <2>1. child'.there = child.there /\ run[r].at = "release" /\ Returns(r, GoesTo(r, p))
    BY <1>11 DEF Release, person
  <2>2. p \in {"over", "activate"}
    OBVIOUS
  <2> HIDE DEF p
  <2> QED BY <1>4, <2>1, <2>2 DEF After, Asking, Places, Steps
<1>12. CASE Activate(r)
  <2>1. child'.there = child.there /\ run[r].at = "activate" /\ Returns(r, GoesTo(r, "over"))
    BY <1>12 DEF Activate, person
  <2> QED BY <1>4, <2>1 DEF After, Asking, Places, Steps
<1>13. CASE StepFails(r)
  <2>1. child'.there = child.there /\ run[r].at \in Steps /\ run' = [run EXCEPT ![r] = Again(r)]
    BY <1>13 DEF StepFails, person
  <2>2. Moves(r) /\ run'[r] = Again(r) /\ run'[r].todo = {}
    BY <2>1, AgainMoves
  <2>3. Again(r).at \in {run[r].at, "clerk", "failing"} /\ (Again(r).at = "clerk" => run[r].at \in After)
    BY AgainIs DEF After
  <2> QED BY <1>0, <2>1, <2>2, <2>3 DEF After, Asking, Steps
<1>14. CASE Report(r)
  <2>1. run[r].at = "failing" /\ Kept(r, GoesTo(r, "over"))
    BY <1>14 DEF Report
  <2>2. Fits(r, GoesTo(r, "over")) /\ GoesTo(r, "over").todo = {} /\ GoesTo(r, "over").at = "none"
    BY <2>1, GoesToFits DEF Places, Steps
  <2> QED BY <2>1, <2>2, KeptMoves DEF After, Asking
<1> QED BY <1>1, <1>2, <1>3, <1>5, <1>6, <1>7, <1>8, <1>9, <1>10, <1>11, <1>12, <1>13, <1>14
        DEF RunStep

----------------------------------------------------------------------------
(* What a step does to logins, Clerk's users and the fence between them *)

Guarded == IdentityOK /\ NoGhostLogin /\ Outlasts

\* No step of a run binds a login or takes down a fence.
Keeps == login' \subseteq login /\ \A u \in Users : fence[u] # "none" => fence'[u] # "none"

LEMMA ReservedIs ==
  ASSUME IdentityOK, NEW U \in SUBSET Users
  PROVE  /\ Reserved(U) \in [Users -> Fences]
         /\ \A u \in U : Reserved(U)[u] # "none"
         /\ \A u \in Users : fence[u] # "none" => Reserved(U)[u] # "none"
BY DEF IdentityOK, Reserved, Fences

LEMMA ReleasedIs ==
  ASSUME IdentityOK, NEW U
  PROVE  /\ Released(U) \in [Users -> Fences]
         /\ \A u \in Users : fence[u] # "none" => Released(U)[u] # "none"
BY DEF IdentityOK, Released, Fences

LEMMA FenceRaised ==
  ASSUME Guarded, NEW U \in SUBSET Users, NEW L \in SUBSET Users,
         fence' = Reserved(U), clerk' = clerk, stale' = stale, login' = login \ L
  PROVE  Guarded' /\ Keeps /\ \A u \in U : fence'[u] # "none"
<1>1. IdentityOK
  BY DEF Guarded
<1> QED BY <1>1, ReservedIs DEF Guarded, IdentityOK, NoGhostLogin, Outlasts, Keeps

LEMMA UserErased ==
  ASSUME Guarded, NEW u \in Users, u \notin login, fence[u] # "none", EraseUser(u)
  PROVE  Guarded' /\ Keeps /\ (clerk \ clerk') \cap login = {}
<1>1. clerk \subseteq Users /\ stale \subseteq Users \ clerk /\ login \subseteq clerk
      /\ \A v \in stale : fence[v] # "none"
  BY DEF Guarded, IdentityOK, NoGhostLogin, Outlasts
<1>2. clerk' = clerk \ {u} /\ login' = login /\ fence' = fence
      /\ stale' = IF u \in clerk THEN stale \cup {u} ELSE stale
  BY DEF EraseUser
<1>3. IdentityOK' /\ NoGhostLogin'
  BY <1>1, <1>2 DEF Guarded, IdentityOK, NoGhostLogin
<1>4. Outlasts'
  BY <1>1, <1>2 DEF Outlasts
<1> QED BY <1>2, <1>3, <1>4 DEF Guarded, Keeps

\* The steps whose check finds no login behind the users they name
LEMMA Checked ==
  ASSUME Guarded, NEW U \in SUBSET Users, ~Rebound(U), fence' = Reserved(U),
         UNCHANGED <<clerk, stale, login>>
  PROVE  Guarded' /\ Keeps /\ \A u \in U : u \notin login' /\ fence'[u] # "none"
<1>1. login' = login \ {} /\ \A u \in U : u \notin login
  BY DEF Rebound
<1>2. Guarded' /\ Keeps /\ \A u \in U : fence'[u] # "none"
  BY <1>1, FenceRaised, {} \in SUBSET Users
<1> QED BY <1>1, <1>2

LEMMA StepGuarded ==
  ASSUME TypeOK, Calls, Guarded, NEW r \in Runs, RunStep(r)
  PROVE  /\ Guarded' /\ Keeps /\ child'.users \subseteq login'
         /\ (clerk \ clerk') \cap login = {}
         /\ BeginClerk(r) => \A u \in run'[r].todo : u \notin login' /\ fence'[u] # "none"
<1> DEFINE U == run[r].snapshot.users
<1>0. U \in SUBSET Users /\ child.users \in SUBSET Users /\ child.users \subseteq login
  BY DEF TypeOK, Snapshot, IdentityOK
<1>1. ASSUME UNCHANGED identity, child'.users = child.users
      PROVE  /\ Guarded' /\ Keeps /\ child'.users \subseteq login'
             /\ (clerk \ clerk') \cap login = {}
  BY <1>0, <1>1 DEF identity, Guarded, IdentityOK, NoGhostLogin, Outlasts, Keeps
<1>2. CASE UNCHANGED <<identity, person>> /\ ~BeginClerk(r)
  BY <1>1, <1>2 DEF person
<1>3. CASE ErasePerson /\ At(r, "erase")
  <2>1. /\ fence' = Reserved(child.users) /\ login' = login \ child.users /\ child'.users = {}
        /\ clerk' = clerk /\ stale' = stale
    BY <1>3 DEF ErasePerson
  <2>2. Guarded' /\ Keeps
    BY <1>0, <2>1, FenceRaised
  <2>3. ~BeginClerk(r)
    BY <1>3 DEF BeginClerk, At
  <2> QED BY <2>1, <2>2, <2>3
<1>4. CASE /\ ~Rebound(U) /\ fence' = Reserved(U) /\ UNCHANGED <<clerk, stale, login>>
           /\ child' = child
           /\ ~BeginClerk(r) \/ run' = [run EXCEPT ![r].at = "calling", ![r].todo = U]
  <2>1. Guarded' /\ Keeps /\ \A u \in U : u \notin login' /\ fence'[u] # "none"
    BY <1>0, <1>4, Checked
  <2>2. ASSUME BeginClerk(r) PROVE run'[r].todo = U
    BY <1>0, <1>4, <2>2, BeginMoves
  <2> QED BY <1>0, <1>4, <2>1, <2>2
<1>5. CASE BeginClerk(r) /\ UNCHANGED identity /\ Kept(r, GoesTo(r, "failing"))
  <2>1. run[r].at = "clerk" /\ child' = child
    BY <1>5 DEF BeginClerk, At, person
  <2>2. Fits(r, GoesTo(r, "failing")) /\ GoesTo(r, "failing").todo = {}
    BY <2>1, GoesToFits DEF Places
  <2>3. run'[r].todo = {}
    BY <1>5, <2>2, KeptMoves
  <2> QED BY <1>1, <1>5, <2>1, <2>3
<1>6. CASE CallClerk(r)
  <2>1. ~BeginClerk(r) /\ child' = child
    BY <1>6 DEF CallClerk, BeginClerk, At, person
  <2>2. CASE UNCHANGED identity
    BY <1>1, <2>1, <2>2
  <2>3. CASE \E u \in run[r].todo : EraseUser(u)
    <3>1. PICK u \in run[r].todo : EraseUser(u)
      BY <2>3
    <3>2. u \in Users /\ u \notin login /\ fence[u] # "none"
      BY <3>1 DEF Calls, TypeOK
    <3>3. Guarded' /\ Keeps /\ (clerk \ clerk') \cap login = {}
      BY <3>1, <3>2, UserErased
    <3>4. login' = login
      BY <3>1 DEF EraseUser
    <3> QED BY <1>0, <2>1, <3>3, <3>4
  <2> QED BY <1>6, <2>2, <2>3 DEF CallClerk
<1>7. CASE Release(r)
  <2>1. fence' = Released(U) /\ UNCHANGED <<clerk, stale, login>> /\ child' = child /\ ~BeginClerk(r)
    BY <1>7 DEF Release, BeginClerk, At, person
  <2>2. IdentityOK
    BY DEF Guarded
  <2>3. IdentityOK' /\ NoGhostLogin' /\ Outlasts' /\ Keeps
    BY <2>1, <2>2, ReleasedIs DEF Guarded, IdentityOK, NoGhostLogin, Outlasts, Keeps
  <2> QED BY <1>0, <2>1, <2>3 DEF Guarded
<1>8. CASE Erase(r)
  <2>1. At(r, "erase") /\ ~BeginClerk(r)
    BY <1>8 DEF Erase, BeginClerk, At
  <2> QED BY <1>2, <1>3, <1>8, <2>1 DEF Erase
<1>9. CASE Reserve(r)
  <2>1. ~BeginClerk(r) /\ UNCHANGED person /\ UNCHANGED <<clerk, stale, login>>
    BY <1>9 DEF Reserve, BeginClerk, At
  <2> QED BY <1>2, <1>4, <1>9, <2>1 DEF Reserve, person, identity
<1>10. CASE BeginClerk(r)
  <2>1. UNCHANGED person /\ UNCHANGED <<clerk, stale, login>>
    BY <1>10 DEF BeginClerk
  <2> QED BY <1>4, <1>5, <1>10, <2>1 DEF BeginClerk, person, identity
<1>11. CASE Archive(r)
  <2>1. ~BeginClerk(r) /\ UNCHANGED identity
    BY <1>11 DEF Archive, BeginClerk, At
  <2>2. child'.users = child.users
    BY <1>11 DEF Archive, TypeOK
  <2> QED BY <1>1, <2>1, <2>2
<1>12. CASE \/ Wake(r) \/ Reads(r) \/ ScheduleCleanup(r) \/ Prepare(r) \/ Discard(r)
            \/ Activate(r) \/ StepFails(r) \/ Report(r)
  <2>1. UNCHANGED <<identity, person>>
    BY <1>12 DEF Wake, Reads, ScheduleCleanup, Prepare, Discard, Activate, StepFails, Report
  <2> QED BY <1>2, <1>10, <2>1
<1> QED BY <1>6, <1>7, <1>8, <1>9, <1>10, <1>11, <1>12 DEF RunStep

----------------------------------------------------------------------------
(* The types, and the parts about runs and their revocations *)

ChildRow == [there : BOOLEAN, archived : 0..day \cup {Never}, users : SUBSET Users]
Scalars ==
  /\ day \in 0..MaxDay /\ rows \in 0..MaxChanges
  /\ revocations \in 0..MaxRevocations
  /\ consent \in [revoked : 0..revocations, since : 0..day]
  /\ promised \in BOOLEAN /\ request \in 0..revocations
  /\ child \in ChildRow
  /\ notice \in [Revocations -> {"none", "prepared", "ready"}]
  /\ erased \subseteq Users /\ stranded \in BOOLEAN /\ reported \in BOOLEAN

LEMMA TypeParts ==
  ASSUME TypeOK
  PROVE  Scalars /\ IdentityOK /\ child.users \subseteq login /\ run \in [Runs -> RunRow]
<1>1. child \in [there : BOOLEAN, archived : 0..day \cup {Never}, users : SUBSET login] /\ login \subseteq Users
  BY DEF TypeOK, IdentityOK
<1>2. child \in ChildRow /\ child.users \subseteq login
  BY <1>1 DEF ChildRow
<1> QED BY <1>2 DEF TypeOK, Scalars, RunRow

LEMMA TypesNext ==
  ASSUME Scalars', IdentityOK', child'.users \subseteq login', run' \in [Runs -> RunRow]
  PROVE  TypeOK'
<1>1. child' \in [there : BOOLEAN, archived : 0..day' \cup {Never}, users : SUBSET login']
  BY DEF Scalars, ChildRow
<1> QED BY <1>1 DEF TypeOK, Scalars, RunRow

\* The runs of a state in which the consent is what it was
LEMMA RunsDue ==
  ASSUME TypeOK, Known, Due, UNCHANGED <<consent, revocations>>,
         \A q \in Runs : \/ run'[q] = run[q] \/ Falls(q) \/ OverRun(run'[q])
                         \/ SameRun(q, run'[q]) /\ run[q].at # "none"
  PROVE  Known' /\ Due'
<1>0. revocations \in Nat /\ consent.since \in 0..day /\ day \in Nat /\ Grace \in Nat
  BY DaysAssumption DEF TypeOK
<1>1. Known'
  BY <1>0 DEF Known, Falls, OverRun, SameRun
<1>2. Due'
  <2> SUFFICES ASSUME NEW q \in Runs, run'[q].at # "none", run'[q].of # 0,
                      run'[q].of = consent.revoked
               PROVE  run'[q].wake >= consent.since + Grace
    BY DEF Due
  <2>1. CASE Falls(q)
    <3>1. run'[q].wake = day + Grace
      BY <2>1 DEF Falls, Sleep
    <3> QED BY <1>0, <3>1
  <2>2. CASE run'[q] = run[q] \/ (SameRun(q, run'[q]) /\ run[q].at # "none")
    BY <2>2 DEF SameRun, Due
  <2> QED BY <2>1, <2>2 DEF OverRun
<1> QED BY <1>1, <1>2

\* Falling asleep disturbs nothing else.
Rest == run' \in [Runs -> RunRow] /\ \A q \in Runs : run'[q] = run[q] \/ Falls(q)

LEMMA RestUnchanged ==
  ASSUME TypeOK, run' = run
  PROVE  Rest
BY TypeParts DEF Rest

LEMMA RestKeeps ==
  ASSUME TInv, Rest, day' = day \/ (day' \in Nat /\ day' >= day), child'.there = child.there,
         \A u \in Users \ login : \A r \in Runs :
            u \in run[r].todo => u \notin login' /\ fence'[u] # "none"
  PROVE  Calls' /\ Awake' /\ Kinds' /\ Follows'
<1>0. Calls /\ Awake /\ Kinds /\ Follows /\ run \in [Runs -> RunRow] /\ day \in Nat
  BY DEF TInv, TypeOK, RunRow
<1>1. \A r \in Runs : run'[r] = run[r] \/ Falls(r)
  BY DEF Rest
<1>2. Follows' /\ Kinds'
  BY <1>0, <1>1 DEF Follows, Kinds, Falls, After, Asking
<1>3. Awake'
  <2> SUFFICES ASSUME NEW r \in Runs, run'[r].at \notin {"none", "asleep"}
               PROVE  day' >= run'[r].wake
    BY DEF Awake
  <2>1. run'[r] = run[r] /\ day >= run[r].wake
    BY <1>0, <1>1 DEF Falls, Awake
  <2>2. run[r].wake \in Int
    BY <1>0 DEF RunRow
  <2>3. day' \in Nat /\ day' >= day
    BY <1>0
  <2> QED BY <1>0, <2>1, <2>2, <2>3
<1>4. Calls'
  <2> SUFFICES ASSUME NEW r \in Runs
               PROVE  /\ run'[r].todo # {} => run'[r].at = "calling"
                      /\ \A u \in run'[r].todo : u \notin login' /\ fence'[u] # "none"
    BY DEF Calls
  <2>1. CASE Falls(r)
    BY <2>1 DEF Falls
  <2>2. CASE run'[r] = run[r]
    <3>1. run[r].todo \subseteq Users \ login
      BY <1>0 DEF Calls, RunRow
    <3> QED BY <1>0, <2>2, <3>1 DEF Calls
  <2> QED BY <1>1, <2>1, <2>2
<1> QED BY <1>2, <1>3, <1>4

\* Signing up, an expiring token and an elapsing fence
LEMMA ElsewhereGuarded ==
  ASSUME TInv, NEW u \in Users, SignUp(u) \/ TokenExpires(u) \/ FenceElapses(u, Busy)
  PROVE  /\ Guarded' /\ login \subseteq login' /\ clerk' = clerk
         /\ \A v \in Users \ login : \A r \in Runs :
               v \in run[r].todo => v \notin login' /\ fence'[v] # "none"
<1>0. Guarded /\ Calls
  BY DEF TInv, Guarded, TypeOK
<1>1. CASE SignUp(u)
  BY <1>0, <1>1 DEF SignUp, Guarded, IdentityOK, NoGhostLogin, Outlasts, Calls
<1>2. CASE TokenExpires(u)
  BY <1>0, <1>2 DEF TokenExpires, Guarded, IdentityOK, NoGhostLogin, Outlasts, Calls
<1>3. CASE FenceElapses(u, Busy)
  <2>1. /\ fence' = [fence EXCEPT ![u] = "none"] /\ clerk' = clerk /\ stale' = stale /\ login' = login
        /\ u \notin stale /\ \A r \in Runs : u \notin run[r].todo
    BY <1>3 DEF FenceElapses, Busy
  <2> QED BY <1>0, <2>1 DEF Guarded, IdentityOK, NoGhostLogin, Outlasts, Calls, Fences
<1> QED BY <1>1, <1>2, <1>3

LEMMA RevokeIs ==
  ASSUME TInv, Revoke
  PROVE  Scalars' /\ Known' /\ Due' /\ Late' /\ child' = child /\ (consent.revoked # 0 => consent' = consent)
<1>0. TypeOK /\ Scalars /\ Known /\ Due /\ Late
  BY TypeParts DEF TInv
<1>1. /\ UNCHANGED <<day, promised, child, stranded, rows, erased, run, notice, reported>>
      /\ request' = consent'.revoked
  BY DEF Revoke
<1>2. CASE UNCHANGED <<consent, revocations>>
  BY <1>0, <1>1, <1>2 DEF Scalars, ChildRow, Known, Due, Late
<1>3. CASE /\ consent.revoked = 0 /\ revocations < MaxRevocations
           /\ revocations' = revocations + 1
           /\ consent' = [revoked |-> revocations + 1, since |-> day]
  <2>1. revocations' \in 0..MaxRevocations /\ revocations' \in 0..revocations'
        /\ day \in 0..day /\ revocations' \in Nat /\ revocations \in Nat
    BY <1>0, <1>3, BoundAssumption DEF Scalars
  <2>2. consent' \in [revoked : 0..revocations', since : 0..day']
        /\ request' \in 0..revocations'
    BY <1>1, <1>3, <2>1
  <2>3. Scalars'
    BY <1>0, <1>1, <2>1, <2>2 DEF Scalars, ChildRow
  <2>4. \A r \in Runs : run[r].of \in Nat /\ run[r].of <= revocations
    BY <1>0, TypeParts DEF Known, RunRow
  <2>5. Known' /\ Due'
    BY <1>1, <1>3, <2>1, <2>4 DEF Known, Due
  <2>6. Late'
    BY <1>0, <1>1, <1>3 DEF Late
  <2> QED BY <1>1, <1>3, <2>3, <2>5, <2>6
<1> QED BY <1>2, <1>3 DEF Revoke

LEMMA RestoreIs ==
  ASSUME TInv, Restore
  PROVE  Scalars' /\ Known' /\ Due' /\ Late' /\ child'.there = child.there /\ child'.users = child.users
<1>0. TypeOK /\ Scalars /\ Known /\ Due
  BY TypeParts DEF TInv
<1>1. /\ UNCHANGED <<day, request, revocations, rows, erased, run, notice, reported>>
      /\ consent' = [revoked |-> 0, since |-> 0] /\ promised' = FALSE /\ stranded' = FALSE
      /\ child' = [child EXCEPT !.archived = Never]
  BY DEF Restore
<1>2. child' \in [there : BOOLEAN, archived : 0..day' \cup {Never}, users : SUBSET Users]
      /\ child'.there = child.there /\ child'.users = child.users /\ child'.archived = Never
  BY <1>0, <1>1 DEF Scalars, ChildRow
<1>3. consent' \in [revoked : 0..revocations', since : 0..day']
  BY <1>0, <1>1 DEF Scalars
<1>4. Scalars'
  BY <1>0, <1>1, <1>2, <1>3 DEF Scalars, ChildRow
<1>5. Known' /\ Due' /\ Late'
  BY <1>0, <1>1, <1>2 DEF Known, Due, Late
<1> QED BY <1>2, <1>4, <1>5

LEMMA DispatchIs ==
  ASSUME TInv, Dispatch
  PROVE  /\ Scalars' /\ Rest /\ UNCHANGED <<consent, child, revocations, day>>
         /\ \/ reported' = TRUE
            \/ \E q \in Runs : \/ run[q].at = "asleep" /\ run[q].of = request
                               \/ run'[q].at = "asleep" /\ run'[q].of = request
<1>0. TypeOK /\ Scalars /\ Awake /\ run \in [Runs -> RunRow]
  BY TypeParts DEF TInv
<1>1. /\ UNCHANGED <<day, consent, revocations, child, stranded, rows, erased, notice>>
      /\ request' = 0 /\ promised' = (consent.revoked = request)
  BY DEF Dispatch
<1>2. promised' \in BOOLEAN
  BY <1>1, Zenon
<1>3. reported' \in BOOLEAN
  BY <1>0 DEF Dispatch, Scalars
<1>4. Scalars'
  BY <1>0, <1>1, <1>2, <1>3 DEF Scalars, ChildRow
<1>5. CASE Room(request) /\ run' = Launched(run, request)
  <2>1. request \in 0..revocations
    BY <1>0 DEF Scalars
  <2>2. /\ run' \in [Runs -> RunRow] /\ \A q \in Runs : run'[q] = run[q] \/ Falls(q)
        /\ \E q \in Runs : \/ run[q].at = "asleep" /\ run[q].of = request
                           \/ run'[q].at = "asleep" /\ run'[q].of = request
    BY <1>0, <1>5, <2>1, LaunchedIs
  <2> QED BY <1>1, <1>4, <2>2 DEF Rest
<1>6. CASE reported' = TRUE /\ UNCHANGED run
  BY <1>0, <1>1, <1>4, <1>6, RestUnchanged
<1> QED BY <1>5, <1>6 DEF Dispatch

LEMMA RunStepIs ==
  ASSUME TInv, NEW r \in Runs, RunStep(r)
  PROVE  /\ Scalars' /\ Late' /\ day' = day
         /\ UNCHANGED <<consent, revocations, promised, request>>
         /\ child'.there => child'.users = child.users /\ child.there
<1>0. TypeOK /\ Scalars /\ Late /\ Due /\ Kinds /\ Awake /\ run \in [Runs -> RunRow]
  BY TypeParts DEF TInv
<1>1. CASE /\ UNCHANGED <<day, person, request>> /\ reported' \in BOOLEAN
           /\ notice' \in [Revocations -> {"none", "prepared", "ready"}]
  BY <1>0, <1>1 DEF person, Scalars, ChildRow, Late
<1>2. CASE ErasePerson /\ UNCHANGED <<day, request, notice, reported>>
  <2>1. /\ child' = [there |-> FALSE, archived |-> Never, users |-> {}] /\ rows' = 0
        /\ erased' = child.users /\ UNCHANGED <<consent, revocations, promised, stranded>>
    BY <1>2 DEF ErasePerson
  <2>2. child' \in [there : BOOLEAN, archived : 0..day' \cup {Never}, users : SUBSET Users]
    BY <2>1
  <2>3. child.users \subseteq Users /\ 0 \in 0..MaxChanges
    BY <1>0, BoundAssumption DEF Scalars, ChildRow
  <2> QED BY <1>0, <1>2, <2>1, <2>2, <2>3 DEF Scalars, ChildRow, Late
<1>3. CASE /\ UNCHANGED <<day, consent, revocations, promised, rows, erased, request, notice, reported>>
           /\ At(r, "archive") /\ Stands(r) /\ child' = [child EXCEPT !.archived = day]
           /\ stranded' \in BOOLEAN
  <2>1. day \in Nat /\ day \in 0..day
    BY <1>0 DEF Scalars
  <2>2. /\ child' \in [there : BOOLEAN, archived : 0..day' \cup {Never}, users : SUBSET Users]
        /\ child'.archived = day /\ child'.there = child.there /\ child'.users = child.users
    BY <1>0, <1>3, <2>1 DEF Scalars, ChildRow
  <2>3. run[r].of # 0 /\ run[r].of = consent.revoked /\ day >= run[r].wake
    BY <1>0, <1>3 DEF Stands, At, Kinds, Asking, Awake
  <2>4. run[r].wake >= consent.since + Grace
    BY <1>0, <1>3, <2>3 DEF Due, At
  <2>5. day >= consent.since + Grace
    <3>1. run[r].wake \in Int /\ consent.since \in Int /\ Grace \in Int
      BY <1>0, DaysAssumption DEF RunRow, Scalars
    <3> QED BY <2>1, <2>3, <2>4, <3>1
  <2> QED BY <1>0, <1>3, <2>2, <2>3, <2>5 DEF Scalars, ChildRow, Late
<1>4. CASE UNCHANGED <<day, person, request, notice, reported>>
  BY <1>0, <1>1, <1>4 DEF Scalars
<1>5. CASE \/ Wake(r) \/ StepFails(r) \/ Reads(r) \/ ScheduleCleanup(r) \/ Reserve(r)
           \/ BeginClerk(r) \/ CallClerk(r) \/ Release(r)
  <2>1. UNCHANGED <<day, person, request, notice, reported>>
    BY <1>5 DEF Wake, StepFails, Reads, ScheduleCleanup, Reserve, BeginClerk, CallClerk, Release
  <2> QED BY <1>4, <2>1
<1>6. CASE Report(r)
  BY <1>0, <1>1, <1>6 DEF Report, Scalars
<1>7. CASE Prepare(r) \/ Discard(r) \/ Activate(r)
  <2>1. UNCHANGED <<day, person, request, reported>>
    BY <1>7 DEF Prepare, Discard, Activate
  <2>2. notice' \in [Revocations -> {"none", "prepared", "ready"}]
    BY <1>0, <1>7 DEF Prepare, Discard, Activate, Scalars
  <2> QED BY <1>0, <1>1, <2>1, <2>2 DEF Scalars
<1>8. CASE Archive(r)
  <2>1. stranded' \in BOOLEAN
    BY <1>0, <1>8 DEF Archive, Scalars
  <2> QED BY <1>3, <1>4, <1>8, <2>1 DEF Archive, person, identity
<1>9. CASE Erase(r)
  BY <1>2, <1>4, <1>9 DEF Erase
<1> QED BY <1>5, <1>6, <1>7, <1>8, <1>9 DEF RunStep

LEMMA InitTypes == Init => TInv
<1> SUFFICES ASSUME Init PROVE TInv
  OBVIOUS
<1>1. IdentityOK /\ NoGhostLogin /\ Outlasts
  BY DEF Init, IdentityInit, IdentityOK, NoGhostLogin, Outlasts, Fences
<1>2. run = [r \in Runs |-> NotStarted] /\ NotStarted.at = "none" /\ NotStarted.todo = {} /\ NotStarted.of = 0
  BY NotStartedIs DEF Init
<1>3. run \in [Runs -> RunRow]
  BY <1>2, NotStartedIs
<1>4. promised \in BOOLEAN
  BY DEF Init
<1>5. reported \in BOOLEAN
  BY DEF Init
<1>6. day = 0 /\ rows = 0 /\ revocations = 0 /\ request = 0 /\ day \in 0..MaxDay /\ rows \in 0..MaxChanges
      /\ revocations \in 0..MaxRevocations /\ request \in 0..revocations
  BY DaysAssumption, BoundAssumption DEF Init
<1>7. consent.revoked = 0 /\ consent \in [revoked : 0..revocations, since : 0..day]
  BY <1>6 DEF Init
<1>8. child \in ChildRow /\ child.archived = Never /\ child.users \subseteq login /\ child.there
  BY DEF Init, IdentityInit, ChildRow
<1>9. notice \in [Revocations -> {"none", "prepared", "ready"}] /\ erased \subseteq Users
      /\ stranded \in BOOLEAN
  BY DEF Init
<1>10. TypeOK
  <2>1. child \in [there : BOOLEAN, archived : 0..day \cup {Never}, users : SUBSET login]
    BY <1>8 DEF ChildRow
  <2> QED BY <1>1, <1>3, <1>4, <1>5, <1>6, <1>7, <1>9, <2>1 DEF TypeOK, RunRow
<1>11. Calls /\ Awake /\ Known /\ Due /\ Kinds /\ Late /\ Follows
  BY <1>2, <1>6, <1>7, <1>8 DEF Calls, Awake, Known, Due, Kinds, Late, Follows, After, Asking
<1> QED BY <1>1, <1>10, <1>11 DEF TInv

LEMMA StepTypes == TInv /\ [Next]_vars => TInv'
<1> SUFFICES ASSUME TInv, [Next]_vars PROVE TInv'
  OBVIOUS
<1>0. /\ TypeOK /\ Scalars /\ Calls /\ Guarded /\ Awake /\ Known /\ Due /\ Kinds /\ Late /\ Follows
      /\ child.users \subseteq login /\ run \in [Runs -> RunRow]
  BY TypeParts DEF TInv, Guarded
\* outside the runs
<1>1. ASSUME Rest, Scalars', Guarded', Known', Due', Late', child'.users \subseteq login',
             day' = day \/ (day' \in Nat /\ day' >= day), child'.there = child.there,
             \A u \in Users \ login : \A r \in Runs :
               u \in run[r].todo => u \notin login' /\ fence'[u] # "none"
      PROVE  TInv'
  <2>1. Calls' /\ Awake' /\ Kinds' /\ Follows'
    BY <1>1, RestKeeps
  <2>2. TypeOK'
    BY <1>1, TypesNext DEF Rest, Guarded
  <2> QED BY <1>1, <2>1, <2>2 DEF TInv, Guarded
<1>2. ASSUME UNCHANGED identity
      PROVE  /\ Guarded' /\ login' = login
             /\ \A u \in Users \ login : \A r \in Runs :
                  u \in run[r].todo => u \notin login' /\ fence'[u] # "none"
  BY <1>0, <1>2 DEF identity, Guarded, IdentityOK, NoGhostLogin, Outlasts, Calls
\* with the consent and the archive as they were
<1>3. ASSUME Rest, UNCHANGED <<consent, revocations, child>>
      PROVE  Known' /\ Due' /\ Late'
  BY <1>0, <1>3, RunsDue DEF Rest, Late
<1>4. CASE Revoke
  <2>1. UNCHANGED <<identity, day, run>> /\ child' = child
    BY <1>4 DEF Revoke
  <2> QED BY <1>0, <1>1, <1>2, <1>4, <2>1, RevokeIs, RestUnchanged
<1>5. CASE Restore
  <2>1. UNCHANGED <<identity, day, run>>
    BY <1>5 DEF Restore
  <2> QED BY <1>0, <1>1, <1>2, <1>5, <2>1, RestoreIs, RestUnchanged
<1>6. CASE Dispatch
  <2>1. UNCHANGED identity
    BY <1>6 DEF Dispatch
  <2> QED BY <1>0, <1>1, <1>2, <1>3, <1>6, <2>1, DispatchIs
<1>7. CASE DispatchLost
  <2>1. request' = 0 /\ UNCHANGED <<identity, day, person, run, notice, reported>>
    BY <1>7 DEF DispatchLost
  <2>2. Scalars'
    BY <1>0, <2>1 DEF Scalars, ChildRow, person
  <2> QED BY <1>0, <1>1, <1>2, <1>3, <2>1, <2>2, RestUnchanged DEF person
<1>8. CASE Changes
  <2>1. /\ rows' = rows + 1 /\ rows < MaxChanges
        /\ UNCHANGED <<identity, day, consent, revocations, promised, child, stranded, erased, request,
                       run, notice, reported>>
    BY <1>8 DEF Changes
  <2>2. rows' \in 0..MaxChanges
    BY <1>0, <2>1, BoundAssumption DEF Scalars
  <2>3. Scalars'
    BY <1>0, <2>1, <2>2 DEF Scalars, ChildRow
  <2> QED BY <1>0, <1>1, <1>2, <1>3, <2>1, <2>3, RestUnchanged
<1>9. CASE Tick
  <2>1. day' = day + 1 /\ day < MaxDay /\ UNCHANGED <<identity, person, request, run, notice, reported>>
    BY <1>9 DEF Tick
  <2>2. day \in Nat /\ day' \in Nat /\ day' >= day /\ day' \in 0..MaxDay /\ 0..day \subseteq 0..day'
    BY <1>0, <2>1, DaysAssumption DEF Scalars
  <2>3. consent' \in [revoked : 0..revocations', since : 0..day']
    BY <1>0, <2>1, <2>2 DEF Scalars, person
  <2>4. child' \in [there : BOOLEAN, archived : 0..day' \cup {Never}, users : SUBSET Users]
    BY <1>0, <2>1, <2>2 DEF Scalars, ChildRow, person
  <2>5. Scalars'
    BY <1>0, <2>1, <2>2, <2>3, <2>4 DEF Scalars, ChildRow, person
  <2> QED BY <1>0, <1>1, <1>2, <1>3, <2>1, <2>2, <2>5, RestUnchanged DEF person
<1>10. CASE Elsewhere
  <2>1. UNCHANGED <<day, person, request, run, notice, reported>>
    BY <1>10 DEF Elsewhere
  <2>2. /\ Guarded' /\ login \subseteq login'
        /\ \A u \in Users \ login : \A r \in Runs :
             u \in run[r].todo => u \notin login' /\ fence'[u] # "none"
    BY <1>10, ElsewhereGuarded DEF Elsewhere
  <2>3. Scalars'
    BY <1>0, <2>1 DEF Scalars, ChildRow, person
  <2> QED BY <1>0, <1>1, <1>3, <2>1, <2>2, <2>3, RestUnchanged DEF person
<1>11. ASSUME NEW r \in Runs, RunStep(r) PROVE TInv'
  <2>1. Moves(r) /\ (run[r].at = "asleep" => day >= run[r].wake) /\ run[r].at # "none"
    BY <1>0, <1>11, StepMoves
  <2>2. /\ run'[r].at \in After => ~child'.there
        /\ run'[r].at \in Asking => run[r].at \in Asking \/ ~Cleanup(r)
        /\ run'[r].todo \subseteq run[r].todo \/ BeginClerk(r)
    BY <1>0, <1>11, StepMoves
  <2>3. Guarded' /\ Keeps /\ child'.users \subseteq login'
    BY <1>0, <1>11, StepGuarded
  <2>4. BeginClerk(r) => \A u \in run'[r].todo : u \notin login' /\ fence'[u] # "none"
    BY <1>0, <1>11, StepGuarded
  <2>5. /\ Scalars' /\ Late' /\ day' = day /\ UNCHANGED <<consent, revocations>>
        /\ child'.there => child.there
    BY <1>11, RunStepIs
  <2>6. run' \in [Runs -> RunRow] /\ \A q \in Runs : q # r => run'[q] = run[q] \/ Falls(q)
    BY <2>1 DEF Moves
  <2>7. SameRun(r, run'[r]) \/ OverRun(run'[r])
    BY <2>1 DEF Moves
  <2>8. TypeOK'
    BY <2>3, <2>5, <2>6, TypesNext DEF Guarded
  <2>9. Known' /\ Due'
    BY <1>0, <2>1, <2>5, <2>6, <2>7, RunsDue
  <2>10. Awake'
    BY <1>0, <2>1, <2>5, <2>6, <2>7 DEF Awake, SameRun, OverRun, Falls
  <2>11. Follows' /\ Kinds'
    BY <1>0, <2>2, <2>5, <2>6, <2>7
       DEF Follows, Kinds, Falls, After, Asking, SameRun, OverRun, Cleanup
  <2>12. Calls'
    <3> SUFFICES ASSUME NEW q \in Runs
                 PROVE  /\ run'[q].todo # {} => run'[q].at = "calling"
                        /\ \A u \in run'[q].todo : u \notin login' /\ fence'[u] # "none"
      BY DEF Calls
    <3>1. \A u \in run[q].todo : u \in Users /\ u \notin login' /\ fence'[u] # "none"
      BY <1>0, <2>3 DEF Calls, Keeps, RunRow
    <3>2. CASE q # r
      <4>1. CASE run'[q] = run[q]
        BY <1>0, <3>1, <4>1 DEF Calls
      <4>2. CASE Falls(q)
        BY <4>2 DEF Falls
      <4> QED BY <2>6, <3>2, <4>1, <4>2
    <3>3. CASE q = r
      BY <2>1, <2>2, <2>4, <3>1, <3>3 DEF Moves
    <3> QED BY <3>2, <3>3
  <2> QED BY <2>3, <2>5, <2>8, <2>9, <2>10, <2>11, <2>12 DEF TInv, Guarded
<1>12. CASE UNCHANGED vars
  <2>1. UNCHANGED <<identity, day, consent, revocations, child, run>> /\ Scalars'
    BY <1>0, <1>12 DEF vars, person, Scalars, ChildRow
  <2> QED BY <1>0, <1>1, <1>2, <1>3, <2>1, RestUnchanged
<1> QED BY <1>4, <1>5, <1>6, <1>7, <1>8, <1>9, <1>10, <1>11, <1>12 DEF Next

THEOREM InvHolds == Spec => []TInv
<1>1. Init => TInv
  BY InitTypes
<1>2. TInv /\ [Next]_vars => TInv'
  BY StepTypes
<1> QED BY <1>1, <1>2, PTL DEF Spec

\* The state of the model keeps its types; the child's users keep their logins
\* until the transaction erases both.
THEOREM TypeCorrect == Spec => []TypeOK
<1>1. TInv => TypeOK
  BY DEF TInv
<1> QED BY <1>1, InvHolds, PTL

\* No token signs up an erased Clerk user again, whichever function erased it.
THEOREM NoGhosts == Spec => []NoGhostLogin
<1>1. TInv => NoGhostLogin
  BY DEF TInv
<1> QED BY <1>1, InvHolds, PTL

\* Clerk is called about users whom the check found without a login, and who
\* have none until the calls are over.
THEOREM LoginsSpared == Spec => NoLiveLoginErased
<1> DEFINE A == (clerk \ clerk') \cap login = {}
<1>1. TInv /\ [Next]_vars => [A]_vars
  <2> SUFFICES ASSUME TInv, Next PROVE A
    OBVIOUS
  <2>0. TypeOK /\ Calls /\ Guarded
    BY DEF TInv, Guarded, TypeOK
  <2>1. CASE UNCHANGED clerk
    BY <2>1
  <2>2. ASSUME NEW r \in Runs, RunStep(r) PROVE A
    BY <2>0, <2>2, StepGuarded
  <2>3. CASE Revoke \/ Dispatch \/ DispatchLost \/ Restore \/ Changes \/ Tick
    BY <2>1, <2>3 DEF Revoke, Dispatch, DispatchLost, Restore, Changes, Tick, identity
  <2>4. CASE Elsewhere
    BY <2>1, <2>4, ElsewhereGuarded DEF Elsewhere
  <2> QED BY <2>1, <2>2, <2>3, <2>4 DEF Next
<1> QED BY <1>1, InvHolds, PTL DEF Spec, NoLiveLoginErased

\* A child is archived by a run of the revocation that stands, which has slept
\* through its grace period, and erased by such a run or when it has been
\* archived for the retention period: restoring empties the archive, and a new
\* revocation has a number that no run knows.
THEOREM RestorationWins == Spec => RestoreWins
<1> DEFINE A == (child.there /\ ~child'.there) \/ (~Archived /\ Archived')
                  => consent.revoked # 0 /\ day >= consent.since + Grace
<1>1. TInv /\ [Next]_vars => [A]_vars
  <2> SUFFICES ASSUME TInv, Next, (child.there /\ ~child'.there) \/ (~Archived /\ Archived')
               PROVE  consent.revoked # 0 /\ day >= consent.since + Grace
    OBVIOUS
  <2>0. TypeOK /\ Scalars /\ Late /\ Late' /\ run \in [Runs -> RunRow]
    BY TypeParts, StepTypes DEF TInv
  <2>1. ~UNCHANGED child
    BY DEF Archived
  <2>2. ~Restore
    BY <2>0 DEF Restore, Archived, Scalars, ChildRow
  <2>3. PICK r \in Runs : RunStep(r)
    BY <2>1, <2>2 DEF Next, Revoke, Dispatch, DispatchLost, Changes, Tick, Elsewhere, person
  <2>4. UNCHANGED <<consent, day>> /\ day \in Nat /\ consent.since \in Nat /\ Grace \in Nat
    BY <2>0, <2>3, RunStepIs, DaysAssumption DEF Scalars
  \* whichever run of the standing revocation it is
  <2>5. ASSUME Stands(r), run[r].at \in {"archive", "erase"}, run[r].of # 0
        PROVE  consent.revoked # 0 /\ day >= consent.since + Grace
    <3>1. run[r].of = consent.revoked /\ day >= run[r].wake /\ run[r].wake >= consent.since + Grace
      BY <2>5 DEF Stands, TInv, Awake, Due
    <3>2. run[r].wake \in Int
      BY <2>0 DEF RunRow
    <3> QED BY <2>4, <2>5, <3>1, <3>2
  <2>6. CASE Archive(r)
    <3>1. run[r].at = "archive" /\ Stands(r)
      BY <2>1, <2>6 DEF Archive, At
    <3>2. run[r].of # 0
      BY <3>1 DEF TInv, Kinds, Asking
    <3> QED BY <2>5, <3>1, <3>2
  <2>7. CASE Erase(r)
    <3>1. run[r].at = "erase" /\ Eligible(r)
      BY <2>1, <2>7 DEF Erase, At, person
    <3>2. CASE Cleanup(r)
      <4>1. /\ child.archived # Never /\ child.archived <= day - Retention /\ consent.revoked # 0
            /\ child.archived >= consent.since + Grace
        BY <2>0, <3>1, <3>2 DEF Eligible, Late
      <4>2. child.archived \in Int /\ Retention \in Nat
        BY <2>0, <4>1, DaysAssumption DEF Scalars, ChildRow
      <4> QED BY <2>4, <4>1, <4>2
    <3>3. CASE ~Cleanup(r)
      BY <2>5, <3>1, <3>3 DEF Eligible, Cleanup
    <3> QED BY <3>2, <3>3
  <2>8. CASE ~Archive(r) /\ ~Erase(r)
    BY <2>1, <2>3, <2>8 DEF RunStep, Wake, StepFails, Reads, Report, ScheduleCleanup, Prepare, Discard,
          Reserve, BeginClerk, CallClerk, Release, Activate, person
  <2> QED BY <2>6, <2>7, <2>8
<1> QED BY <1>1, InvHolds, PTL DEF Spec, RestoreWins

----------------------------------------------------------------------------
(* What every step of a run leaves to the others *)

LEMMA StepLeaves ==
  ASSUME TInv, NEW r \in Runs, RunStep(r)
  PROVE  /\ \A q \in Runs : q # r /\ run[q].at # "none" => run'[q] = run[q]
         /\ run'[r].at # "none" => run'[r].of = run[r].of
         /\ reported => reported'
         /\ clerk' \subseteq clerk
         /\ ErasePerson \/ erased' = erased
<1>0. TypeOK /\ Calls /\ Awake /\ Follows
  BY DEF TInv
<1>1. Moves(r)
  BY <1>0, StepMoves
<1>2. \A q \in Runs : q # r /\ run[q].at # "none" => run'[q] = run[q]
  BY <1>1 DEF Moves, Falls
<1>3. run'[r].at # "none" => run'[r].of = run[r].of
  BY <1>1 DEF Moves, SameRun, OverRun
<1>4. CASE CallClerk(r)
  <2>1. reported' = reported /\ erased' = erased
    BY <1>4 DEF CallClerk, person
  <2>2. clerk' \subseteq clerk
    BY <1>4 DEF CallClerk, EraseUser, identity
  <2> QED BY <1>2, <1>3, <2>1, <2>2
<1>5. CASE Erase(r)
  <2>1. reported' = reported
    BY <1>5 DEF Erase
  <2>2. clerk' = clerk /\ (ErasePerson \/ erased' = erased)
    BY <1>5 DEF Erase, ErasePerson, identity, person
  <2> QED BY <1>2, <1>3, <2>1, <2>2
<1>6. CASE Report(r)
  BY <1>2, <1>3, <1>6 DEF Report, identity, person
<1>7. CASE ~CallClerk(r) /\ ~Erase(r) /\ ~Report(r)
  <2>1. reported' = reported /\ clerk' = clerk /\ erased' = erased
    BY <1>7 DEF RunStep, Wake, StepFails, Reads, Archive, ScheduleCleanup, Prepare, Discard,
          Reserve, BeginClerk, Release, Activate, identity, person
  <2> QED BY <1>2, <1>3, <2>1
<1> QED BY <1>4, <1>5, <1>6, <1>7

\* A run that goes to a place, or is executed again, stays in a set of places
\* with both.
LEMMA StaysIn ==
  ASSUME TInv, NEW r \in Runs, NEW p \in Places \ {"none", "asleep"}, NEW P,
         run[r].at \in Steps, run[r].at # "calling" \/ run[r].todo = {},
         Returns(r, GoesTo(r, p)),
         p \in P, "failing" \in P, run[r].at \in P, run[r].at = "calling" => "clerk" \in P
  PROVE  run'[r].at \in P
<1>0. TypeOK /\ Calls
  BY DEF TInv
<1>1. run'[r].at = p \/ run'[r] = Again(r)
  <2>1. p # "over" /\ p \in (Places \cup {"over"}) \ {"none", "asleep"}
    BY DEF Places, Steps
  <2> QED BY <1>0, <2>1, PlaceMoves
<1> QED BY <1>0, <1>1, AgainIs

----------------------------------------------------------------------------
(* Notices are true *)

Noticing == {"prepare", "capture", "erase", "discard", "reserve", "clerk", "calling", "release",
             "activate", "failing"}

Notices ==
  \A g \in Revocations :
    /\ notice[g] = "ready" => ~child.there
    /\ notice[g] = "prepared" =>
         reported \/ \E r \in Runs : run[r].of = g /\ run[r].at \in Noticing

LEMMA NoticeStays ==
  ASSUME TInv, NEW g \in Revocations, NEW r \in Runs, RunStep(r),
         run[r].of = g, run[r].at \in Noticing, notice'[g] = "prepared"
  PROVE  reported' \/ (run'[r].of = g /\ run'[r].at \in Noticing)
<1>0. TypeOK /\ Calls /\ ~Cleanup(r)
  BY DEF TInv, Revocations, Cleanup
<1>1. SUFFICES ASSUME ~reported' PROVE run'[r].at \in Noticing
  BY StepLeaves DEF Noticing
<1> USE DEF At
<1>13. ASSUME NEW p \in Noticing, run[r].at \in Steps, run[r].at # "calling" \/ run[r].todo = {},
              Returns(r, GoesTo(r, p))
       PROVE  run'[r].at \in Noticing
  <2>1. "failing" \in Noticing /\ "clerk" \in Noticing
    BY DEF Noticing
  <2>2. p \in Places \ {"none", "asleep"}
    BY DEF Noticing, Places, Steps
  <2> QED BY <1>13, <2>1, <2>2, StaysIn
<1>2. CASE Reads(r)
  BY <1>0, <1>2, ReadsMoves DEF Noticing
<1>3. CASE Prepare(r)
  BY <1>3, <1>13 DEF Prepare, Noticing, Places, Steps
<1>4. CASE Erase(r)
  <2>1. run'[r] = Again(r) \/ run'[r].at \in {"activate", "reserve", "failing", "capture", "discard"}
    BY <1>0, <1>4, EraseMoves
  <2> QED BY <1>0, <1>4, <2>1, AgainIs DEF Noticing, Erase
<1>5. CASE Discard(r) \/ Activate(r)
  <2>1. notice' = [notice EXCEPT ![g] = "none"] \/ notice' = [notice EXCEPT ![g] = "ready"]
    BY <1>5 DEF Discard, Activate
  <2> QED BY <1>0, <2>1 DEF TypeOK
<1>6. CASE Reserve(r)
  <2>1. Returns(r, GoesTo(r, "failing")) \/ Returns(r, GoesTo(r, "clerk"))
    BY <1>6 DEF Reserve, Returns
  <2> QED BY <1>6, <2>1, <1>13 DEF Reserve, Noticing, Places, Steps
<1>7. CASE BeginClerk(r)
  <2>1. CASE Returns(r, GoesTo(r, "failing"))
    BY <1>7, <2>1, <1>13 DEF BeginClerk, Noticing, Places, Steps
  <2>2. CASE run' = [run EXCEPT ![r].at = "calling", ![r].todo = run[r].snapshot.users]
    <3>1. run[r].snapshot.users \in SUBSET Users
      BY <1>0 DEF TypeOK, Snapshot
    <3> QED BY <1>0, <2>2, <3>1, BeginMoves DEF Noticing
  <2> QED BY <1>7, <2>1, <2>2 DEF BeginClerk, Returns
<1>8. CASE CallClerk(r)
  <2>1. CASE run[r].todo = {} /\ Returns(r, GoesTo(r, "release"))
    BY <1>8, <2>1, <1>13 DEF CallClerk, Noticing, Places, Steps
  <2>2. CASE \E u \in run[r].todo : run' = [run EXCEPT ![r].todo = @ \ {u}]
    <3>1. PICK u \in run[r].todo : run' = [run EXCEPT ![r].todo = @ \ {u}]
      BY <2>2
    <3>2. run[r].at = "calling"
      BY <1>8 DEF CallClerk
    <3> QED BY <1>0, <3>1, <3>2, CallMoves DEF Noticing
  <2> QED BY <1>8, <2>1, <2>2 DEF CallClerk, Returns
<1>9. CASE Release(r)
  <2>1. run[r].at = "release" /\ Returns(r, GoesTo(r, "activate"))
    BY <1>0, <1>9 DEF Release
  <2> QED BY <2>1, <1>13 DEF Noticing, Places, Steps
<1>10. CASE StepFails(r)
  <2>1. run'[r] = Again(r)
    BY <1>0, <1>10, AgainMoves DEF StepFails
  <2> QED BY <1>0, <2>1, AgainIs DEF Noticing
<1>11. CASE Report(r)
  BY <1>1, <1>11 DEF Report
<1>12. CASE Wake(r) \/ Archive(r) \/ ScheduleCleanup(r)
  BY <1>12 DEF Wake, Archive, ScheduleCleanup, Noticing
<1> QED BY <1>2, <1>3, <1>4, <1>5, <1>6, <1>7, <1>8, <1>9, <1>10, <1>11, <1>12 DEF RunStep

LEMMA NoticeStep == TInv /\ Notices /\ [Next]_vars => Notices'
<1> SUFFICES ASSUME TInv, Notices, [Next]_vars, NEW g \in Revocations
             PROVE  /\ notice'[g] = "ready" => ~child'.there
                    /\ notice'[g] = "prepared" =>
                         reported' \/ \E r \in Runs : run'[r].of = g /\ run'[r].at \in Noticing
  BY DEF Notices
<1>0. TypeOK /\ Calls /\ Awake /\ Follows
  BY DEF TInv
<1>1. ASSUME UNCHANGED notice, child'.there => child.there, reported => reported',
             \A r \in Runs : run[r].at # "none" => run'[r] = run[r]
      PROVE  /\ notice'[g] = "ready" => ~child'.there
             /\ notice'[g] = "prepared" =>
                  reported' \/ \E r \in Runs : run'[r].of = g /\ run'[r].at \in Noticing
  BY <1>1 DEF Notices, Noticing
<1>2. CASE Dispatch
  <2>1. UNCHANGED <<notice, child>> /\ Rest
    BY <1>2, DispatchIs DEF Dispatch
  <2>2. reported => reported'
    BY <1>2 DEF Dispatch
  <2> QED BY <1>1, <2>1, <2>2 DEF Rest, Falls
<1>3. CASE Restore
  BY <1>1, <1>3, RestoreIs DEF Restore
<1>4. CASE Revoke \/ DispatchLost \/ Changes \/ Tick \/ Elsewhere \/ UNCHANGED vars
  <2>1. UNCHANGED <<notice, child, reported, run>>
    BY <1>4 DEF Revoke, DispatchLost, Changes, Tick, Elsewhere, vars, person
  <2> QED BY <1>1, <2>1
<1>5. ASSUME NEW r \in Runs, RunStep(r)
      PROVE  /\ notice'[g] = "ready" => ~child'.there
             /\ notice'[g] = "prepared" =>
                  reported' \/ \E q \in Runs : run'[q].of = g /\ run'[q].at \in Noticing
  <2>1. /\ \A q \in Runs : q # r /\ run[q].at # "none" => run'[q] = run[q]
        /\ reported => reported'
    BY <1>5, StepLeaves
  <2>2. child'.there => child.there
    BY <1>5, RunStepIs
  \* who changes a notice
  <2>3. \/ notice'[g] = notice[g]
        \/ Activate(r) /\ notice'[g] = "ready"
        \/ Discard(r) /\ notice'[g] = "none"
        \/ Prepare(r) /\ run[r].of = g
    <3>1. CASE Activate(r) \/ Discard(r) \/ Prepare(r)
      BY <1>0, <3>1 DEF Activate, Discard, Prepare, TypeOK
    <3>2. CASE UNCHANGED notice
      BY <3>2
    <3>3. Activate(r) \/ Discard(r) \/ Prepare(r) \/ UNCHANGED notice
      BY <1>5 DEF RunStep, Wake, StepFails, Reads, Report, Archive, ScheduleCleanup, Erase, Reserve,
            BeginClerk, CallClerk, Release
    <3> QED BY <3>1, <3>2, <3>3
  <2>4. ASSUME notice'[g] = "ready" PROVE ~child'.there
    <3>1. CASE notice'[g] = notice[g]
      BY <2>2, <2>4, <3>1 DEF Notices
    <3>2. CASE Activate(r)
      BY <1>0, <2>2, <3>2 DEF Activate, At, Follows, After
    <3>3. CASE Prepare(r) /\ run[r].of = g
      <4>1. notice[g] = "ready"
        BY <1>0, <2>4, <3>3 DEF Prepare, TypeOK
      <4> QED BY <2>2, <4>1 DEF Notices
    <3> QED BY <2>3, <2>4, <3>1, <3>2, <3>3
  <2>5. ASSUME notice'[g] = "prepared"
        PROVE  reported' \/ \E q \in Runs : run'[q].of = g /\ run'[q].at \in Noticing
    <3>1. CASE Prepare(r) /\ run[r].of = g
      <4>1. run[r].at \in Noticing
        BY <3>1 DEF Prepare, At, Noticing
      <4> QED BY <1>5, <2>5, <3>1, <4>1, NoticeStays
    <3>2. CASE notice'[g] = notice[g]
      <4>1. reported \/ \E q \in Runs : run[q].of = g /\ run[q].at \in Noticing
        BY <2>5, <3>2 DEF Notices
      <4>2. CASE reported
        BY <2>1, <4>2
      <4>3. ASSUME NEW q \in Runs, run[q].of = g, run[q].at \in Noticing
            PROVE  reported' \/ (run'[q].of = g /\ run'[q].at \in Noticing)
        <5>1. CASE q = r
          BY <1>5, <2>5, <4>3, <5>1, NoticeStays
        <5>2. CASE q # r
          BY <2>1, <4>3, <5>2 DEF Noticing
        <5> QED BY <5>1, <5>2
      <4> QED BY <4>1, <4>2, <4>3
    <3> QED BY <2>3, <2>5, <3>1, <3>2
  <2> QED BY <2>4, <2>5
<1> QED BY <1>2, <1>3, <1>4, <1>5 DEF Next

\* A notice is published by a run that comes after the erasure, its own or
\* another's; one that is prepared has a run of its revocation that publishes or
\* discards it, or fails and is reported.
THEOREM NoticesTrue == Spec => []NoticeTrue
<1>1. Init => Notices
  BY DEF Init, Notices
<1>2. TInv /\ Notices /\ [Next]_vars => Notices'
  BY NoticeStep
<1>3. Notices => NoticeTrue
  BY DEF Notices, NoticeTrue, Ended, Noticing
<1> QED BY <1>1, <1>2, <1>3, InvHolds, PTL DEF Spec

----------------------------------------------------------------------------
(* A withdrawal the guardian was told of takes effect *)

\* The places of a run that will end the account
Effective == {"asleep", "check", "choose", "archive", "prepare", "capture", "erase", "failing"}
Effects(r) == run[r].of = consent.revoked /\ run[r].at \in Effective

Promise ==
  promised /\ child.there /\ ~Archived =>
    consent.revoked # 0 /\ (reported \/ \E r \in Runs : Effects(r))

LEMMA EffectStays ==
  ASSUME TInv, NEW r \in Runs, RunStep(r), Effects(r), consent.revoked # 0, child.there,
         child'.there, ~Archived, ~Archived'
  PROVE  reported' \/ Effects(r)'
<1>0. TypeOK /\ Calls /\ Awake /\ ~Cleanup(r) /\ child.archived = Never /\ Stands(r)
      /\ run[r].at \in Effective
  BY DEF TInv, Cleanup, Effects, Archived, Stands
<1>1. SUFFICES ASSUME ~reported' PROVE run'[r].at \in Effective
  <2>1. consent' = consent /\ (run'[r].at # "none" => run'[r].of = run[r].of)
    BY RunStepIs, StepLeaves
  <2> QED BY <2>1 DEF Effects, Effective
<1> USE DEF At
<1>2. CASE Wake(r)
  <2>1. run[r].at = "asleep" /\ Kept(r, GoesTo(r, "check"))
    BY <1>0, <1>2 DEF Wake
  <2>2. Fits(r, GoesTo(r, "check")) /\ GoesTo(r, "check").at = "check"
    BY <1>0, <2>1, GoesToFits DEF Places, Steps
  <2> QED BY <1>0, <2>1, <2>2, KeptMoves DEF Effective
<1>3. CASE Reads(r)
  BY <1>0, <1>3, ReadsMoves DEF Effective
<1>4. CASE Archive(r)
  <2>1. child' = [child EXCEPT !.archived = day]
    BY <1>0, <1>4 DEF Archive
  <2>2. day \in Nat /\ day # Never
    BY <1>0, NeverAssumption DEF TypeOK
  <2>3. Archived'
    BY <1>0, <2>1, <2>2 DEF Archived, TypeOK
  <2> QED BY <2>3
<1>5. CASE Prepare(r)
  <2>1. run[r].at = "prepare" /\ run[r].at \in Steps /\ Returns(r, GoesTo(r, "capture"))
    BY <1>5 DEF Prepare, Steps
  <2>2. run'[r].at = "capture" \/ run'[r] = Again(r)
    BY <1>0, <2>1, PlaceMoves DEF Places, Steps
  <2> QED BY <1>0, <2>1, <2>2, AgainIs DEF Effective
<1>6. CASE Erase(r)
  <2>1. Eligible(r)
    BY <1>0 DEF Eligible
  <2>2. run'[r].at \in {"failing", "capture"}
    BY <1>0, <1>6, <2>1, EraseMoves
  <2> QED BY <2>2 DEF Effective
<1>7. CASE StepFails(r)
  <2>1. run'[r] = Again(r)
    BY <1>0, <1>7, AgainMoves DEF StepFails
  <2> QED BY <1>0, <2>1, AgainIs DEF Effective
<1>8. CASE Report(r)
  BY <1>1, <1>8 DEF Report
<1>9. CASE \/ ScheduleCleanup(r) \/ Discard(r) \/ Reserve(r) \/ BeginClerk(r) \/ CallClerk(r)
           \/ Release(r) \/ Activate(r)
  BY <1>0, <1>9 DEF ScheduleCleanup, Discard, Reserve, BeginClerk, CallClerk, Release, Activate, Effective
<1> QED BY <1>2, <1>3, <1>4, <1>5, <1>6, <1>7, <1>8, <1>9 DEF RunStep

LEMMA PromiseStep == TInv /\ Promise /\ [Next]_vars => Promise'
<1> SUFFICES ASSUME TInv, Promise, [Next]_vars, promised', child'.there, ~Archived'
             PROVE  consent'.revoked # 0 /\ (reported' \/ \E r \in Runs : Effects(r)')
  BY DEF Promise
<1>0. TypeOK /\ Scalars
  BY TypeParts DEF TInv
<1>1. CASE Dispatch
  <2>1. request # 0 /\ UNCHANGED consent /\ consent.revoked = request
    BY <1>1 DEF Dispatch
  <2>2. CASE reported' = TRUE
    BY <2>1, <2>2
  <2>3. ASSUME NEW q \in Runs, run[q].at = "asleep", run[q].of = request PROVE Effects(q)'
    <3>1. run'[q] = run[q]
      BY <1>1, <2>3, DispatchIs DEF Rest, Falls
    <3> QED BY <2>1, <2>3, <3>1 DEF Effects, Effective
  <2>4. ASSUME NEW q \in Runs, run'[q].at = "asleep", run'[q].of = request PROVE Effects(q)'
    BY <2>1, <2>4 DEF Effects, Effective
  <2>5. \/ reported' = TRUE
        \/ \E q \in Runs : \/ run[q].at = "asleep" /\ run[q].of = request
                           \/ run'[q].at = "asleep" /\ run'[q].of = request
    BY <1>1, DispatchIs
  <2> QED BY <2>1, <2>2, <2>3, <2>4, <2>5
<1>2. CASE Restore
  BY <1>2 DEF Restore
<1>3. CASE Revoke
  <2>1. UNCHANGED <<promised, child, run, reported>>
    BY <1>3 DEF Revoke
  <2>2. consent.revoked # 0 /\ (reported \/ \E r \in Runs : Effects(r))
    BY <2>1 DEF Promise, Archived
  <2>3. consent' = consent
    BY <1>3, <2>2, RevokeIs
  <2> QED BY <2>1, <2>2, <2>3 DEF Effects
<1>4. CASE DispatchLost \/ Changes \/ Tick \/ Elsewhere \/ UNCHANGED vars
  <2>1. UNCHANGED <<promised, child, consent, run, reported>>
    BY <1>4 DEF DispatchLost, Changes, Tick, Elsewhere, vars, person
  <2> QED BY <2>1 DEF Promise, Archived, Effects
<1>5. ASSUME NEW q \in Runs, RunStep(q)
      PROVE  consent'.revoked # 0 /\ (reported' \/ \E r \in Runs : Effects(r)')
  <2>1. /\ UNCHANGED <<consent, promised>> /\ child.there
        /\ (reported => reported')
        /\ \A r \in Runs : r # q /\ run[r].at # "none" => run'[r] = run[r]
    BY <1>5, RunStepIs, StepLeaves
  <2>2. ~Archived
    <3>1. CASE Archive(q)
      BY <1>0, <2>1, <3>1 DEF Archive, Archived, Scalars, ChildRow
    <3>2. CASE Erase(q)
      <4>1. ErasePerson => ~child'.there
        BY DEF ErasePerson
      <4>2. child' = child
        BY <3>2, <4>1 DEF Erase, person
      <4> QED BY <4>2 DEF Archived
    <3>3. CASE ~Archive(q) /\ ~Erase(q)
      <4>1. child' = child
        BY <1>5, <3>3 DEF RunStep, Wake, StepFails, Reads, Report, ScheduleCleanup, Prepare, Discard,
              Reserve, BeginClerk, CallClerk, Release, Activate, person
      <4> QED BY <4>1 DEF Archived
    <3> QED BY <3>1, <3>2, <3>3
  <2>3. consent.revoked # 0 /\ (reported \/ \E r \in Runs : Effects(r))
    BY <2>1, <2>2 DEF Promise
  <2>4. CASE reported
    BY <2>1, <2>3, <2>4
  <2>5. ASSUME NEW r \in Runs, Effects(r) PROVE reported' \/ Effects(r)'
    <3>1. CASE r = q
      BY <1>5, <2>1, <2>2, <2>3, <2>5, <3>1, EffectStays
    <3>2. CASE r # q
      BY <2>1, <2>5, <3>2 DEF Effects, Effective
    <3> QED BY <3>1, <3>2
  <2> QED BY <2>1, <2>3, <2>4, <2>5
<1> QED BY <1>1, <1>2, <1>3, <1>4, <1>5 DEF Next

----------------------------------------------------------------------------
(* An archived child is erased after the retention period *)

\* The runs that will erase it, or fail
CleansUp(r) ==
  \/ run[r].at \in {"schedule", "failing"}
  \/ /\ Cleanup(r) /\ run[r].at \in {"asleep", "capture", "erase"}
     /\ run[r].wake >= child.archived + Retention

Cleaned == Archived /\ ~stranded => reported \/ \E r \in Runs : CleansUp(r)

LEMMA CleansOn ==
  ASSUME TInv, NEW r \in Runs, RunStep(r), CleansUp(r), Archived, child' = child
  PROVE  reported' \/ \E q \in Runs : CleansUp(q)'
<1>0. /\ TypeOK /\ Scalars /\ Calls /\ Awake /\ Follows /\ run \in [Runs -> RunRow]
      /\ child.there /\ child'.there
      /\ day \in Nat /\ child.archived \in 0..day /\ Retention \in Nat
  <2>1. TypeOK /\ Scalars /\ Calls /\ Awake /\ Follows /\ run \in [Runs -> RunRow]
    BY TypeParts DEF TInv
  <2> QED BY <2>1, DaysAssumption DEF Archived, Scalars, ChildRow
<1>1. Moves(r)
  BY <1>0, StepMoves
<1>2. ASSUME run'[r].at \in {"schedule", "failing"} PROVE CleansUp(r)'
  BY <1>2 DEF CleansUp
<1>3. ASSUME run[r].at \notin {"schedule", "failing"}, run'[r].at \in {"capture", "erase"}
      PROVE  CleansUp(r)'
  <2>1. run'[r].of = run[r].of /\ run'[r].wake = run[r].wake
    BY <1>1, <1>3 DEF Moves, SameRun, OverRun
  <2> QED BY <1>3, <2>1 DEF CleansUp, Cleanup
<1> USE DEF At
<1>4. CASE Wake(r)
  <2>1. run[r].at = "asleep" /\ Kept(r, GoesTo(r, "capture"))
    BY <1>4 DEF Wake, CleansUp
  <2>2. Fits(r, GoesTo(r, "capture")) /\ GoesTo(r, "capture").at = "capture"
    BY <1>0, <2>1, GoesToFits DEF Places, Steps
  <2>3. run'[r].at = "capture"
    BY <1>0, <2>1, <2>2, KeptMoves
  <2> QED BY <1>3, <2>1, <2>3
<1>5. CASE Reads(r)
  <2>1. run[r].at = "capture" /\ run'[r].at = "erase"
    BY <1>0, <1>5, ReadsMoves DEF CleansUp
  <2> QED BY <1>3, <2>1
<1>6. CASE ScheduleCleanup(r)
  <2>1. PICK q \in Runs : \/ /\ run[q].at = "asleep" /\ Cleanup(q)
                             /\ run[q].wake >= day + Retention
                          \/ /\ run'[q].at = "asleep" /\ Cleanup(q)'
                             /\ run'[q].wake >= day + Retention
    BY <1>0, <1>6, ScheduleMoves
  <2>2. ASSUME NEW w \in Int, w >= day + Retention PROVE w >= child.archived + Retention
    BY <1>0, <2>2
  <2>3. run[q].wake \in Int /\ run'[q].wake \in Int
    BY <1>0, <1>1 DEF Moves, RunRow
  <2>4. CASE run[q].at = "asleep" /\ Cleanup(q) /\ run[q].wake >= day + Retention
    <3>1. q # r
      BY <1>6, <2>4 DEF ScheduleCleanup
    <3>2. run'[q] = run[q]
      BY <2>4, <3>1, StepLeaves
    <3> QED BY <2>2, <2>3, <2>4, <3>2 DEF CleansUp, Cleanup
  <2>5. CASE run'[q].at = "asleep" /\ Cleanup(q)' /\ run'[q].wake >= day + Retention
    BY <2>2, <2>3, <2>5 DEF CleansUp
  <2> QED BY <2>1, <2>4, <2>5
\* a cleanup that has slept through the retention period finds it over
<1>7. CASE Erase(r)
  <2>1. run[r].at = "erase" /\ Cleanup(r) /\ run[r].wake >= child.archived + Retention
    BY <1>7 DEF Erase, CleansUp
  <2>2. day >= run[r].wake /\ run[r].wake \in Int
    BY <1>0, <2>1 DEF Awake, RunRow
  <2>3. child.archived # Never /\ consent.revoked # 0
    BY DEF TInv, Late, Archived
  <2>4. Eligible(r)
    BY <1>0, <2>1, <2>2, <2>3 DEF Eligible
  <2>5. run'[r].at \in {"failing", "capture"}
    BY <1>0, <1>7, <2>1, <2>4, EraseMoves
  <2> QED BY <1>2, <1>3, <2>1, <2>5
<1>8. CASE StepFails(r)
  <2>1. run'[r] = Again(r) /\ run[r].at \in {"schedule", "capture", "erase"}
    BY <1>0, <1>8, AgainMoves DEF StepFails, CleansUp, Steps
  <2>2. run'[r].at \in {run[r].at, "failing"}
    BY <1>0, <2>1, AgainIs
  <2> QED BY <1>2, <1>3, <2>1, <2>2
<1>9. CASE Report(r)
  BY <1>9 DEF Report
<1>10. CASE \/ Archive(r) \/ Prepare(r) \/ Discard(r) \/ Reserve(r) \/ BeginClerk(r)
            \/ CallClerk(r) \/ Release(r) \/ Activate(r)
  BY <1>10 DEF Archive, Prepare, Discard, Reserve, BeginClerk, CallClerk, Release, Activate, CleansUp
<1> QED BY <1>4, <1>5, <1>6, <1>7, <1>8, <1>9, <1>10 DEF RunStep

LEMMA CleanedStep == TInv /\ Cleaned /\ [Next]_vars => Cleaned'
<1> SUFFICES ASSUME TInv, Cleaned, [Next]_vars, Archived', ~stranded'
             PROVE  reported' \/ \E r \in Runs : CleansUp(r)'
  BY DEF Cleaned
<1>0. TypeOK /\ Scalars
  BY TypeParts DEF TInv
<1>1. ASSUME UNCHANGED <<child, stranded>>, reported => reported',
             \A r \in Runs : run[r].at # "none" => run'[r] = run[r]
      PROVE  reported' \/ \E r \in Runs : CleansUp(r)'
  <2>1. reported \/ \E r \in Runs : CleansUp(r)
    BY <1>1 DEF Cleaned, Archived
  <2>2. ASSUME NEW r \in Runs, CleansUp(r) PROVE CleansUp(r)'
    <3>1. run'[r] = run[r]
      BY <1>1, <2>2 DEF CleansUp
    <3> QED BY <1>1, <2>2, <3>1 DEF CleansUp, Cleanup
  <2> QED BY <1>1, <2>1, <2>2
<1>2. CASE Dispatch
  <2>1. UNCHANGED <<child, stranded>> /\ Rest
    BY <1>2, DispatchIs DEF Dispatch
  <2>2. reported => reported'
    BY <1>2 DEF Dispatch
  <2> QED BY <1>1, <2>1, <2>2 DEF Rest, Falls
<1>3. CASE Restore
  <2>1. child'.archived = Never
    BY <1>0, <1>3 DEF Restore, Scalars, ChildRow
  <2> QED BY <2>1 DEF Archived
<1>4. CASE Revoke \/ DispatchLost \/ Changes \/ Tick \/ Elsewhere \/ UNCHANGED vars
  <2>1. UNCHANGED <<child, stranded, reported, run>>
    BY <1>4 DEF Revoke, DispatchLost, Changes, Tick, Elsewhere, vars, person
  <2> QED BY <1>1, <2>1
<1>5. ASSUME NEW q \in Runs, RunStep(q)
      PROVE  reported' \/ \E r \in Runs : CleansUp(r)'
  <2>1. /\ reported => reported'
        /\ \A r \in Runs : r # q /\ run[r].at # "none" => run'[r] = run[r]
    BY <1>5, StepLeaves
  <2>2. CASE UNCHANGED <<child, stranded>>
    <3>1. Archived /\ (reported \/ \E r \in Runs : CleansUp(r))
      BY <2>2 DEF Cleaned, Archived
    <3>2. ASSUME NEW r \in Runs, CleansUp(r)
          PROVE  reported' \/ \E s \in Runs : CleansUp(s)'
      <4>1. CASE r = q
        BY <1>5, <2>2, <3>1, <3>2, <4>1, CleansOn
      <4>2. CASE r # q
        <5>1. run'[r] = run[r]
          BY <2>1, <3>2, <4>2 DEF CleansUp
        <5>2. CleansUp(r)'
          BY <2>2, <3>2, <5>1 DEF CleansUp, Cleanup
        <5> QED BY <5>2
      <4> QED BY <4>1, <4>2
    <3> QED BY <2>1, <3>1, <3>2
  \* the receipt of the archive is kept, and its run goes on to the cleanup's event
  <2>3. CASE Archive(q) /\ Kept(q, GoesTo(q, "schedule"))
    <3>1. TypeOK /\ Calls /\ run[q].at = "archive"
      BY <2>3 DEF TInv, Archive, At
    <3>2. Fits(q, GoesTo(q, "schedule")) /\ GoesTo(q, "schedule").at = "schedule"
      BY <3>1, GoesToFits DEF Places, Steps
    <3>3. run'[q].at = "schedule"
      BY <2>3, <3>1, <3>2, KeptMoves
    <3> QED BY <3>3 DEF CleansUp
  <2>4. CASE Erase(q)
    <3>1. ErasePerson => ~child'.there
      BY DEF ErasePerson
    <3>2. UNCHANGED <<child, stranded>>
      BY <2>4, <3>1 DEF Erase, person, Archived
    <3> QED BY <2>2, <3>2
  <2>5. CASE ~Archive(q) /\ ~Erase(q)
    <3>1. UNCHANGED <<child, stranded>>
      BY <1>5, <2>5 DEF RunStep, Wake, StepFails, Reads, Report, ScheduleCleanup, Prepare, Discard,
            Reserve, BeginClerk, CallClerk, Release, Activate, person
    <3> QED BY <2>2, <3>1
  <2>6. CASE Archive(q) /\ ~Kept(q, GoesTo(q, "schedule"))
    <3>1. UNCHANGED <<child, stranded>>
      BY <2>6 DEF Archive
    <3> QED BY <2>2, <3>1
  <2> QED BY <2>3, <2>4, <2>5, <2>6
<1> QED BY <1>2, <1>3, <1>4, <1>5 DEF Next

----------------------------------------------------------------------------
(* What was erased is erased at Clerk *)

Carries(r) ==
  \/ run[r].at = "failing"
  \/ run[r].at \in {"erase", "reserve", "clerk"} /\ ~child.there /\ run[r].snapshot.users = erased
  \/ /\ run[r].at = "calling" /\ run[r].snapshot.users = erased
     /\ erased \cap clerk \subseteq run[r].todo

Carried == reported \/ erased \cap clerk = {} \/ \E r \in Runs : Carries(r)

LEMMA CarriesStays ==
  ASSUME NEW r \in Runs, Carries(r), run'[r] = run[r], erased' = erased, clerk' \subseteq clerk,
         child'.there => child.there
  PROVE  Carries(r)'
BY DEF Carries

LEMMA CarriesAgain ==
  ASSUME TypeOK, NEW r \in Runs, Carries(r), run[r].at \in Steps, run'[r] = Again(r),
         erased' = erased, ~child'.there
  PROVE  Carries(r)'
<1>1. run'[r].snapshot = run[r].snapshot
      /\ (run'[r].at = "failing"
           \/ run'[r].at = IF run[r].at = "calling" THEN "clerk" ELSE run[r].at)
  BY AgainIs
<1>2. CASE run[r].at = "calling"
  BY <1>1, <1>2 DEF Carries
<1>3. CASE run[r].at # "calling"
  BY <1>1, <1>3 DEF Carries
<1> QED BY <1>2, <1>3

LEMMA CarriesOn ==
  ASSUME TInv, NEW r \in Runs, RunStep(r), Carries(r), erased' = erased
  PROVE  reported' \/ erased' \cap clerk' = {} \/ Carries(r)'
<1>0. TypeOK /\ Calls /\ Follows /\ (child'.there => child.there)
  BY RunStepIs DEF TInv
<1> USE DEF At
<1>1. CASE Report(r)
  BY <1>1 DEF Report
<1>2. SUFFICES ASSUME ~Report(r) PROVE erased' \cap clerk' = {} \/ Carries(r)'
  BY <1>1
<1>3. run[r].at # "failing"
  BY <1>2 DEF RunStep, Wake, StepFails, Reads, Archive, ScheduleCleanup, Prepare, Erase, Discard,
        Reserve, BeginClerk, CallClerk, Release, Activate, Steps
<1>4. ~child.there /\ ~child'.there /\ run[r].at \in {"erase", "reserve", "clerk", "calling"}
      /\ run[r].snapshot.users = erased
  BY <1>0, <1>3 DEF Carries, Follows, After
<1>5. ASSUME NEW p \in Places \ {"none", "asleep"}, run[r].at # "calling" \/ run[r].todo = {},
             Returns(r, GoesTo(r, p))
      PROVE  Carries(r)' \/ (run'[r].at = p /\ run'[r].snapshot = run[r].snapshot)
  <2>1. run[r].at \in Steps /\ p # "over" /\ p \in (Places \cup {"over"}) \ {"none", "asleep"}
    BY <1>4 DEF Places, Steps
  <2>2. run'[r] = Again(r) \/ (run'[r].at = p /\ run'[r].snapshot = run[r].snapshot)
    BY <1>0, <1>5, <2>1, PlaceMoves
  <2> QED BY <1>0, <1>4, <2>1, <2>2, CarriesAgain
<1>6. CASE Erase(r)
  <2>1. ~child.there /\ Kept(r, Erasing(r)) /\ UNCHANGED identity
    BY <1>4, <1>6 DEF Erase
  <2>2. Fits(r, Erasing(r))
    BY <1>0, <1>6, ErasingIs, NarrowsIf DEF Fits, OverRun, Calls, Erase
  <2>3. run'[r].at = Erasing(r).at /\ run'[r].snapshot = Erasing(r).snapshot
    BY <1>0, <2>1, <2>2, KeptMoves
  <2>4. CASE erased = {}
    BY <2>4
  <2>5. CASE erased # {}
    <3>1. Erasing(r).at = "reserve" /\ Erasing(r).snapshot.users = erased
      BY <1>0, <1>4, <2>5, ErasingIs
    <3> QED BY <1>4, <2>3, <3>1 DEF Carries
  <2> QED BY <2>4, <2>5
<1>7. CASE Reserve(r)
  <2>1. Returns(r, GoesTo(r, "failing")) \/ Returns(r, GoesTo(r, "clerk"))
    BY <1>7 DEF Reserve, Returns
  <2>2. Carries(r)' \/ (run'[r].at \in {"failing", "clerk"} /\ run'[r].snapshot = run[r].snapshot)
    BY <1>5, <1>7, <2>1 DEF Reserve, Places, Steps
  <2> QED BY <1>4, <2>2 DEF Carries
<1>8. CASE BeginClerk(r)
  <2>1. CASE Returns(r, GoesTo(r, "failing"))
    <3>1. Carries(r)' \/ run'[r].at = "failing"
      BY <1>5, <1>8, <2>1 DEF BeginClerk, Places, Steps
    <3> QED BY <3>1 DEF Carries
  <2>2. CASE run' = [run EXCEPT ![r].at = "calling", ![r].todo = run[r].snapshot.users]
    <3>1. run[r].snapshot.users \in SUBSET Users
      BY <1>0 DEF TypeOK, Snapshot
    <3>2. run'[r].at = "calling" /\ run'[r].todo = erased /\ run'[r].snapshot.users = erased
      BY <1>0, <1>4, <2>2, <3>1, BeginMoves
    <3> QED BY <3>2 DEF Carries
  <2> QED BY <1>8, <2>1, <2>2 DEF BeginClerk, Returns
<1>9. CASE CallClerk(r)
  <2>1. run[r].at = "calling" /\ erased \cap clerk \subseteq run[r].todo
    BY <1>3, <1>9 DEF CallClerk, Carries
  <2>2. CASE run[r].todo = {} /\ UNCHANGED identity
    BY <2>1, <2>2 DEF identity
  <2>3. CASE \E u \in run[r].todo : EraseUser(u) /\ run' = [run EXCEPT ![r].todo = @ \ {u}]
    <3>1. PICK u \in run[r].todo : EraseUser(u) /\ run' = [run EXCEPT ![r].todo = @ \ {u}]
      BY <2>3
    <3>2. run'[r].at = "calling" /\ run'[r].todo = run[r].todo \ {u} /\ run'[r].snapshot = run[r].snapshot
      BY <1>0, <2>1, <3>1, CallMoves
    <3>3. clerk' = clerk \ {u}
      BY <3>1 DEF EraseUser
    <3> QED BY <1>4, <2>1, <3>2, <3>3 DEF Carries
  <2> QED BY <1>9, <2>2, <2>3 DEF CallClerk
<1>10. CASE StepFails(r)
  <2>1. run'[r] = Again(r) /\ run[r].at \in Steps
    BY <1>0, <1>10, AgainMoves DEF StepFails
  <2> QED BY <1>0, <1>4, <2>1, CarriesAgain
<1>11. CASE \/ Wake(r) \/ Reads(r) \/ Archive(r) \/ ScheduleCleanup(r) \/ Prepare(r) \/ Discard(r)
            \/ Release(r) \/ Activate(r)
  BY <1>4, <1>11 DEF Wake, Reads, Archive, ScheduleCleanup, Prepare, Discard, Release, Activate
<1> QED BY <1>2, <1>6, <1>7, <1>8, <1>9, <1>10, <1>11 DEF RunStep

\* The run whose transaction it was has read the users that it erased.
LEMMA EraseCarried ==
  ASSUME TInv, NEW r \in Runs, Erase(r), child.there, ErasePerson
  PROVE  erased' = {} \/ Carries(r)'
<1>0. TypeOK /\ Calls
  BY DEF TInv
<1>1. /\ run[r].at = "erase" /\ run[r].at \in Steps /\ ~child'.there /\ erased' = child.users
  BY DEF Erase, At, Steps, ErasePerson
<1>2. run[r].snapshot = Current /\ Returns(r, Erasing(r))
  BY <1>0, <1>1 DEF Erase, person
<1>3. run[r].snapshot.users = erased'
  BY <1>0, <1>1, <1>2, CurrentIs
<1>4. Fits(r, Erasing(r))
  BY <1>0, <1>1, ErasingIs, NarrowsIf DEF Fits, OverRun, Calls
<1>5. \/ run'[r].at = Erasing(r).at /\ run'[r].snapshot = Erasing(r).snapshot
      \/ run'[r] = Again(r)
  BY <1>0, <1>1, <1>2, <1>4, ReturnsMoves
<1>6. CASE run'[r] = Again(r)
  <2>1. run'[r].snapshot = run[r].snapshot /\ run'[r].at \in {"failing", "erase"}
    BY <1>0, <1>1, <1>6, AgainIs
  <2> QED BY <1>1, <1>3, <2>1 DEF Carries
<1>7. CASE run'[r].at = Erasing(r).at /\ run'[r].snapshot = Erasing(r).snapshot /\ erased' # {}
  <2>1. Erasing(r).at = "reserve" /\ Erasing(r).snapshot.users = erased'
    BY <1>0, <1>3, <1>7, ErasingIs
  <2> QED BY <1>1, <1>7, <2>1 DEF Carries
<1> QED BY <1>5, <1>6, <1>7

LEMMA CarriedStep == TInv /\ Carried /\ [Next]_vars => Carried'
<1> SUFFICES ASSUME TInv, Carried, [Next]_vars
             PROVE  reported' \/ erased' \cap clerk' = {} \/ \E r \in Runs : Carries(r)'
  BY DEF Carried
<1>0. TypeOK /\ Scalars
  BY TypeParts DEF TInv
<1>1. ASSUME erased' = erased, reported => reported', clerk' = clerk, child'.there => child.there,
             \A r \in Runs : run[r].at # "none" => run'[r] = run[r]
      PROVE  reported' \/ erased' \cap clerk' = {} \/ \E r \in Runs : Carries(r)'
  <2>1. ASSUME NEW r \in Runs, Carries(r) PROVE Carries(r)'
    <3>1. run[r].at # "none"
      BY <2>1 DEF Carries
    <3> QED BY <1>1, <2>1, <3>1, CarriesStays
  <2> QED BY <1>1, <2>1 DEF Carried
<1>2. CASE Dispatch
  <2>1. UNCHANGED <<erased, clerk, child>> /\ Rest
    BY <1>2, DispatchIs DEF Dispatch, identity
  <2>2. reported => reported'
    BY <1>2 DEF Dispatch
  <2> QED BY <1>1, <2>1, <2>2 DEF Rest, Falls
<1>3. CASE Restore
  BY <1>1, <1>3, RestoreIs DEF Restore, identity
<1>4. CASE Revoke \/ DispatchLost \/ Changes \/ Tick \/ UNCHANGED vars
  <2>1. UNCHANGED <<erased, clerk, child, reported, run>>
    BY <1>4 DEF Revoke, DispatchLost, Changes, Tick, vars, person, identity
  <2> QED BY <1>1, <2>1
<1>5. CASE Elsewhere
  <2>1. UNCHANGED <<erased, child, reported, run>> /\ clerk' = clerk
    BY <1>5, ElsewhereGuarded DEF Elsewhere, person
  <2> QED BY <1>1, <2>1
<1>6. ASSUME NEW q \in Runs, RunStep(q)
      PROVE  reported' \/ erased' \cap clerk' = {} \/ \E r \in Runs : Carries(r)'
  <2>1. /\ (reported => reported') /\ clerk' \subseteq clerk /\ (ErasePerson \/ erased' = erased)
        /\ (child'.there => child.there)
        /\ \A r \in Runs : r # q /\ run[r].at # "none" => run'[r] = run[r]
    BY <1>6, RunStepIs, StepLeaves
  <2>2. CASE erased' = erased
    <3>1. ASSUME NEW r \in Runs, Carries(r)
          PROVE  reported' \/ erased' \cap clerk' = {} \/ Carries(r)'
      <4>1. CASE r = q
        BY <1>6, <2>2, <3>1, <4>1, CarriesOn
      <4>2. CASE r # q
        <5>1. run'[r] = run[r]
          BY <2>1, <3>1, <4>2 DEF Carries
        <5> QED BY <2>1, <2>2, <3>1, <5>1, CarriesStays
      <4> QED BY <4>1, <4>2
    <3> QED BY <2>1, <2>2, <3>1 DEF Carried
  <2>3. CASE ErasePerson /\ erased' # erased
    <3>1. Erase(q)
      <4>1. ~UNCHANGED person
        BY <2>3 DEF person
      <4>2. CASE Archive(q)
        BY <2>3, <4>2 DEF Archive
      <4>3. CASE ~Archive(q) /\ ~Erase(q)
        BY <1>6, <4>1, <4>3 DEF RunStep, Wake, StepFails, Reads, Report, ScheduleCleanup, Prepare,
              Discard, Reserve, BeginClerk, CallClerk, Release, Activate
      <4> QED BY <4>2, <4>3
    <3>2. child.there
      BY <2>3, <3>1 DEF Erase, person
    <3>3. erased' = {} \/ Carries(q)'
      BY <2>3, <3>1, <3>2, EraseCarried
    <3> QED BY <3>3
  <2> QED BY <2>1, <2>2, <2>3
<1> QED BY <1>2, <1>3, <1>4, <1>5, <1>6 DEF Next

\* A child whose withdrawal the guardian was told of is erased, the archived one by
\* its cleanup, or the failure is reported, or the archive's receipt was lost: a
\* run of the standing revocation cannot lose its standing without a restoration,
\* an archive whose receipt is kept has a cleanup that sleeps through the retention
\* period, and the run whose transaction erased the child keeps the users that are
\* left to erase at Clerk.
THEOREM WithdrawalsKept == Spec => []WithdrawalKept
<1>1. Init => Promise /\ Cleaned /\ Carried
  BY DEF Init, Promise, Cleaned, Carried, Archived
<1>2. TInv /\ Promise /\ Cleaned /\ Carried /\ [Next]_vars => Promise' /\ Cleaned' /\ Carried'
  BY PromiseStep, CleanedStep, CarriedStep
<1>3. Promise /\ Cleaned /\ Carried => WithdrawalKept
  <2> SUFFICES ASSUME Promise, Cleaned, Carried, Ended, ~reported
               PROVE  /\ promised => ~child.there \/ Forgotten
                      /\ erased \cap clerk = {}
    BY DEF WithdrawalKept
  <2>1. \A r \in Runs : run[r].at = "none"
    BY DEF Ended
  <2>2. erased \cap clerk = {}
    BY <2>1 DEF Carried, Carries
  <2>3. promised /\ child.there => Archived
    BY <2>1 DEF Promise, Effects, Effective
  <2>4. Archived => stranded
    BY <2>1 DEF Cleaned, CleansUp
  <2> QED BY <2>2, <2>3, <2>4 DEF Forgotten
<1> QED BY <1>1, <1>2, <1>3, InvHolds, PTL DEF Spec

----------------------------------------------------------------------------
(* DurableErasure is implemented *)

\* The users of the child, or those it had
Own == IF child.there THEN child.users ELSE erased

\* Runs know of no others, nobody is owed anything before the erasure, and the
\* withdrawal that the route has to send is the one that stands, if one does.
Scoped ==
  /\ \A r \in Runs : run[r].snapshot.users \subseteq Own /\ run[r].todo \subseteq Own
  /\ child.there => erased = {}
  /\ request # 0 => consent.revoked \in {0, request}

LEMMA InitScoped == Init => Scoped
BY DEF Init, Scoped, Own, NotStarted, Nothing

\* Events start runs that know of nobody.
LEMMA RestScoped ==
  ASSUME Scoped, Rest, child'.there = child.there, child'.users = child.users, erased' = erased,
         request' # 0 => consent'.revoked \in {0, request'}
  PROVE  Scoped'
<1>1. Own' = Own
  BY DEF Own
<1> SUFFICES ASSUME NEW r \in Runs
             PROVE  run'[r].snapshot.users \subseteq Own /\ run'[r].todo \subseteq Own
  BY <1>1 DEF Scoped
<1>2. CASE run'[r] = run[r]
  BY <1>2 DEF Scoped
<1>3. CASE Falls(r)
  BY <1>3 DEF Falls, Nothing
<1> QED BY <1>2, <1>3 DEF Rest

\* What a run's step does to the account
LEMMA AccountMoves ==
  ASSUME TInv, NEW r \in Runs, RunStep(r)
  PROVE  \/ UNCHANGED person
         \/ /\ Archive(r) /\ Stands(r) /\ run[r].of # 0 /\ Archived'
            /\ child' = [child EXCEPT !.archived = day]
            /\ UNCHANGED <<consent, revocations, promised, rows, erased>>
         \/ /\ Erase(r) /\ ErasePerson /\ child.there /\ consent.revoked # 0
<1>0. TypeOK
  BY DEF TInv
<1>1. CASE Archive(r)
  <2>1. CASE child' = [child EXCEPT !.archived = day] /\ Stands(r)
    <3>1. run[r].of # 0
      BY <1>1 DEF TInv, Kinds, Asking, Archive, At
    <3>2. day \in Nat /\ day # Never
      BY <1>0, NeverAssumption DEF TypeOK
    <3>3. Archived'
      BY <1>0, <2>1, <3>2 DEF Archived, TypeOK, Stands
    <3> QED BY <1>1, <2>1, <3>1, <3>3 DEF Archive
  <2>2. CASE UNCHANGED <<child, stranded>>
    BY <1>1, <2>2 DEF Archive, person
  <2> QED BY <1>1, <2>1, <2>2 DEF Archive
<1>2. CASE Erase(r)
  <2>1. CASE child.there /\ Eligible(r) /\ ErasePerson
    <3>1. consent.revoked # 0
      BY <2>1 DEF Eligible, Stands, Cleanup
    <3> QED BY <1>2, <2>1, <3>1
  <2> QED BY <1>2, <2>1 DEF Erase
<1>3. CASE ~Archive(r) /\ ~Erase(r)
  BY <1>3 DEF RunStep, Wake, StepFails, Reads, Report, ScheduleCleanup, Prepare, Discard,
        Reserve, BeginClerk, CallClerk, Release, Activate
<1> QED BY <1>1, <1>2, <1>3

\* What it adds to the users it erases are those of its snapshot.
LEMMA TodoMoves ==
  ASSUME TInv, NEW r \in Runs, RunStep(r)
  PROVE  run'[r].todo \subseteq run[r].todo \cup run[r].snapshot.users
<1>0. TypeOK /\ Calls /\ Awake /\ Follows
  BY DEF TInv
<1>1. CASE BeginClerk(r)
  <2>1. run[r].at = "clerk"
    BY <1>1 DEF BeginClerk, At
  <2>2. CASE Kept(r, GoesTo(r, "failing"))
    BY <1>0, <2>1, <2>2, GoesToFits, KeptMoves DEF Places
  <2>3. CASE run' = [run EXCEPT ![r].at = "calling", ![r].todo = run[r].snapshot.users]
    <3>1. run[r].snapshot.users \in SUBSET Users
      BY <1>0 DEF TypeOK, Snapshot
    <3>2. run'[r].todo = run[r].snapshot.users
      BY <1>0, <2>3, <3>1, BeginMoves
    <3> QED BY <3>2
  <2> QED BY <1>1, <2>2, <2>3 DEF BeginClerk
<1>2. CASE ~BeginClerk(r)
  BY <1>0, <1>2, StepMoves
<1> QED BY <1>1, <1>2

LEMMA ScopedStep == TInv /\ Scoped /\ [Next]_vars => Scoped'
<1> SUFFICES ASSUME TInv, Scoped, [Next]_vars PROVE Scoped'
  OBVIOUS
<1>0. TypeOK /\ Calls /\ Awake /\ Follows
  BY DEF TInv
<1>1. CASE Revoke
  <2>1. UNCHANGED <<child, erased, run>> /\ request' = consent'.revoked
    BY <1>1 DEF Revoke
  <2> QED BY <1>0, <2>1, RestScoped, RestUnchanged
<1>2. CASE Dispatch
  <2>1. UNCHANGED <<child, erased>> /\ request' = 0 /\ Rest
    BY <1>2, DispatchIs DEF Dispatch
  <2> QED BY <2>1, RestScoped
<1>3. CASE DispatchLost \/ Changes \/ Tick \/ Elsewhere \/ UNCHANGED vars
  <2>1. UNCHANGED <<child, erased, run, consent>> /\ (request' # 0 => request' = request)
    BY <1>3 DEF DispatchLost, Changes, Tick, Elsewhere, vars, person
  <2> QED BY <1>0, <2>1, RestScoped, RestUnchanged DEF Scoped
<1>4. CASE Restore
  <2>1. UNCHANGED <<erased, run>> /\ consent'.revoked = 0
    BY <1>4 DEF Restore
  <2> QED BY <1>0, <1>4, <2>1, RestoreIs, RestScoped, RestUnchanged
<1>5. ASSUME NEW r \in Runs, RunStep(r) PROVE Scoped'
  <2>1. /\ \A q \in Runs : q # r => run'[q] = run[q] \/ Falls(q)
        /\ Narrows(r, run'[r])
    BY <1>0, <1>5, StepMoves DEF Moves
  <2>2. run'[r].todo \subseteq run[r].todo \cup run[r].snapshot.users
    BY <1>5, TodoMoves
  <2>3. Current.users \subseteq Own
    BY <1>0, CurrentIs DEF Current, Own, Nothing
  <2>4. Own' = Own /\ (child'.there => erased' = {})
    <3>1. CASE UNCHANGED person
      BY <3>1 DEF person, Own, Scoped
    <3>2. CASE ErasePerson /\ child.there
      BY <3>2 DEF ErasePerson, Own
    <3>3. CASE child' = [child EXCEPT !.archived = day] /\ erased' = erased
      BY <1>0, <3>3 DEF Own, TypeOK, Scoped
    <3> QED BY <1>5, <3>1, <3>2, <3>3, AccountMoves
  <2>5. run'[r].snapshot.users \subseteq Own /\ run'[r].todo \subseteq Own
    BY <2>1, <2>2, <2>3 DEF Scoped, Narrows
  <2>6. ASSUME NEW q \in Runs, q # r
        PROVE  run'[q].snapshot.users \subseteq Own /\ run'[q].todo \subseteq Own
    BY <2>1, <2>6 DEF Scoped, Falls, Nothing
  <2>7. request' # 0 => consent'.revoked \in {0, request'}
    BY <1>5, RunStepIs DEF Scoped
  <2> QED BY <2>4, <2>5, <2>6, <2>7 DEF Scoped
<1> QED BY <1>1, <1>2, <1>3, <1>4, <1>5 DEF Next

\* What is promised and owed has somebody at work on it, in every state.
Answers == TInv /\ Scoped /\ Promise /\ Cleaned /\ Carried

LEMMA AnswersStep == Answers /\ [Next]_vars => Answers'
BY StepTypes, ScopedStep, PromiseStep, CleanedStep, CarriedStep DEF Answers

LEMMA AnswersHold == Spec => []Answers
<1>1. Init => Answers
  BY InitTypes, InitScoped DEF Init, Answers, Promise, Cleaned, Carried, Archived
<1> QED BY <1>1, AnswersStep, PTL DEF Spec

LEMMA Answered == Answers => Promises!Answerable
<1> SUFFICES ASSUME Answers PROVE Promises!Answerable
  OBVIOUS
<1>1. promised /\ child.there /\ ~Archived => consent.revoked # 0 /\ (~Ended \/ reported)
  BY DEF Answers, Promise, Effects, Effective, Ended
<1>2. erased \cap clerk # {} => ~Ended \/ reported
  BY DEF Answers, Carried, Carries, Ended
<1>3. promised /\ Archived /\ ~stranded => consent.revoked # 0 /\ (~Ended \/ reported)
  BY DEF Answers, TInv, Late, Archived, Cleaned, CleansUp, Ended
<1> QED BY <1>1, <1>2, <1>3 DEF Promises!Answerable, Forgotten

\* What a step of the implementation is to the account
Kind ==
  \/ Promises!Order \/ Promises!Promise \/ Promises!TakeBack \/ Promises!Hide \/ Promises!Erase
  \/ \E u \in Users : Promises!Follow(u) \/ Promises!Return(u)
  \/ UNCHANGED Promises!account

LEMMA KindOfStep ==
  ASSUME Answers, Answers', [Next]_vars
  PROVE  Kind
<1>0. TInv /\ TypeOK /\ Calls /\ Follows /\ Scoped /\ Promise /\ Late
  BY DEF Answers, TInv
<1>1. ASSUME UNCHANGED <<child, stranded, consent, promised, erased, clerk, login>> PROVE Kind
  BY <1>1 DEF Kind, Promises!account, Archived, Forgotten
<1>2. CASE Revoke
  <2>1. UNCHANGED <<child, stranded, promised, erased, clerk, login>> /\ child.there
    BY <1>2 DEF Revoke, identity
  <2>2. CASE consent.revoked = 0
    <3>1. consent'.revoked # 0
      BY <1>0, <1>2, <2>2 DEF Revoke, TypeOK
    <3>2. Archived' = Archived /\ Forgotten' = Forgotten
      BY <2>1 DEF Archived, Forgotten
    <3> QED BY <2>1, <3>1, <3>2 DEF Kind, Promises!Order
  <2>3. CASE consent.revoked # 0
    BY <1>1, <1>2, <2>1, <2>3 DEF Revoke
  <2> QED BY <2>2, <2>3
<1>3. CASE Dispatch
  <2>1. UNCHANGED <<child, consent, erased, clerk, login>> /\ request # 0
        /\ promised' = (consent.revoked = request) /\ Archived' = Archived /\ Forgotten' = Forgotten
    BY <1>3 DEF Dispatch, identity, Archived, Forgotten
  <2>2. CASE consent.revoked = request /\ child.there /\ ~Forgotten
    BY <2>1, <2>2 DEF Kind, Promises!Promise
  <2>3. CASE ~(consent.revoked = request /\ child.there /\ ~Forgotten)
    <3>1. promised /\ child.there => consent.revoked = request
      BY <1>0, <2>1 DEF Promise, Scoped, Late, Archived
    <3>2. ~(promised /\ child.there /\ ~Forgotten) /\ ~(promised' /\ child'.there /\ ~Forgotten')
      BY <2>1, <2>3, <3>1
    <3> QED BY <2>1, <3>2 DEF Kind, Promises!account
  <2> QED BY <2>2, <2>3
<1>4. CASE Restore
  <2>1. /\ UNCHANGED <<erased, clerk, login>> /\ child.there
        /\ consent'.revoked = 0 /\ promised' = FALSE
    BY <1>4 DEF Restore, identity
  <2>2. child'.there /\ ~Archived'
    BY <1>0, <1>4 DEF Restore, Archived, TypeOK
  <2> QED BY <2>1, <2>2 DEF Kind, Promises!TakeBack
<1>5. CASE DispatchLost \/ Changes \/ Tick \/ UNCHANGED vars
  BY <1>1, <1>5 DEF DispatchLost, Changes, Tick, vars, identity, person
<1>6. CASE Elsewhere
  <2>1. UNCHANGED <<child, stranded, consent, promised, erased>>
    BY <1>6 DEF Elsewhere, person
  <2>2. PICK u \in Users : SignUp(u) \/ TokenExpires(u) \/ FenceElapses(u, Busy)
    BY <1>6 DEF Elsewhere
  <2>3. CASE SignUp(u)
    <3>1. login' = login \cup {u} /\ clerk' = clerk /\ login' \subseteq clerk'
      BY <2>3 DEF SignUp, Answers, TInv, NoGhostLogin
    <3>2. Archived' = Archived /\ Forgotten' = Forgotten
      BY <2>1 DEF Archived, Forgotten
    <3> QED BY <2>1, <3>1, <3>2 DEF Kind, Promises!Return
  <2>4. CASE TokenExpires(u) \/ FenceElapses(u, Busy)
    BY <1>1, <2>1, <2>4 DEF TokenExpires, FenceElapses
  <2> QED BY <2>2, <2>3, <2>4
<1>7. ASSUME NEW r \in Runs, RunStep(r) PROVE Kind
  <2>1. CASE Erase(r) /\ ErasePerson /\ child.there /\ consent.revoked # 0
    <3>1. /\ child' = [there |-> FALSE, archived |-> Never, users |-> {}]
          /\ erased' = child.users /\ login' = login \ child.users
          /\ UNCHANGED <<clerk, consent, promised>>
      BY <2>1 DEF ErasePerson
    <3>2. ~child'.there /\ ~Archived' /\ child.users \subseteq login
      BY <1>0, <3>1 DEF Archived, TypeOK
    <3> QED BY <2>1, <3>1, <3>2 DEF Kind, Promises!Erase
  <2>2. CASE /\ Archive(r) /\ Stands(r) /\ run[r].of # 0 /\ Archived'
             /\ child' = [child EXCEPT !.archived = day]
             /\ UNCHANGED <<consent, promised, erased>>
    <3>1. child.there /\ child'.there /\ consent.revoked # 0
      BY <2>2 DEF Stands, Archived
    <3>2. UNCHANGED <<clerk, login>>
      BY <2>2 DEF Archive, identity
    <3>3. CASE UNCHANGED <<child, stranded>>
      BY <1>1, <2>2, <3>2, <3>3
    <3>4. CASE child.archived = Never
      <4>1. ~Archived /\ ~Forgotten
        BY <3>4 DEF Archived, Forgotten
      <4>2. (promised' /\ child'.there /\ ~Forgotten') \in {promised /\ child.there /\ ~Forgotten, FALSE}
        BY <2>2, <3>1, <4>1
      <4> QED BY <2>2, <3>1, <3>2, <4>2 DEF Kind, Promises!Hide
    <3> QED BY <2>2, <3>3, <3>4 DEF Archive
  <2>3. CASE UNCHANGED person /\ CallClerk(r) /\ \E u \in run[r].todo : EraseUser(u)
    <3>1. PICK u \in run[r].todo : EraseUser(u)
      BY <2>3
    <3>2. u \in Users /\ u \notin login /\ ~child.there
      BY <1>0, <2>3 DEF CallClerk, At, Calls, TypeOK, Follows, After
    <3>3. u \in erased
      BY <1>0, <3>2 DEF Scoped, Own
    <3>4. clerk' = clerk \ {u} /\ UNCHANGED <<login, child, stranded, consent, promised, erased>>
      BY <2>3, <3>1 DEF EraseUser, person
    <3>5. Archived' = Archived /\ Forgotten' = Forgotten
      BY <3>4 DEF Archived, Forgotten
    <3> QED BY <3>2, <3>3, <3>4, <3>5 DEF Kind, Promises!Follow
  <2>4. CASE UNCHANGED person /\ ~(CallClerk(r) /\ \E u \in run[r].todo : EraseUser(u))
    <3>1. UNCHANGED <<clerk, login>>
      <4>1. CASE Erase(r)
        BY <1>0, <2>4, <4>1 DEF Erase, ErasePerson, person, identity, TypeOK
      <4>2. CASE ~Erase(r)
        BY <1>7, <2>4, <4>2 DEF RunStep, Wake, StepFails, Reads, Report, Archive, ScheduleCleanup,
              Prepare, Discard, Reserve, BeginClerk, CallClerk, Release, Activate, identity
      <4> QED BY <4>1, <4>2
    <3> QED BY <1>1, <2>4, <3>1 DEF person
  <2> QED BY <1>0, <1>7, <2>1, <2>2, <2>3, <2>4, AccountMoves
<1> QED BY <1>2, <1>3, <1>4, <1>5, <1>6, <1>7 DEF Next

\* A report is not taken back.
LEMMA ReportsStay ==
  ASSUME TInv, [Next]_vars
  PROVE  reported => reported'
<1>1. CASE Revoke \/ Dispatch \/ DispatchLost \/ Restore \/ Changes \/ Tick \/ Elsewhere \/ UNCHANGED vars
  BY <1>1 DEF Revoke, Dispatch, DispatchLost, Restore, Changes, Tick, Elsewhere, vars
<1>2. ASSUME NEW r \in Runs, RunStep(r) PROVE reported => reported'
  BY <1>2, StepLeaves
<1> QED BY <1>1, <1>2 DEF Next

\* Route, durable functions and transactions together implement what
\* DurableErasure promises: a child is archived or erased under a standing
\* withdrawal only, no promise lapses in silence, and Clerk forgets the users of
\* the child and no others.
THEOREM KeepsPromise == Spec => ImplementsDurableErasure
<1>1. Init => Promises!Init
  <2> SUFFICES ASSUME Init PROVE Promises!Init
    OBVIOUS
  <2>1. Ended /\ child.there = TRUE /\ child.archived = Never /\ consent.revoked = 0
    BY DEF Init, Ended, NotStarted
  <2>2. Archived = FALSE /\ (consent.revoked # 0) = FALSE /\ (~Ended) = FALSE
        /\ (promised /\ child.there /\ ~Forgotten) = FALSE
    BY <2>1 DEF Init, Archived
  <2> QED BY <2>1, <2>2 DEF Init, IdentityInit, Promises!Init
<1>2. Answers /\ Answers' /\ [Next]_vars => [Promises!Next]_(Promises!vars)
  <2> SUFFICES ASSUME Answers, Answers', [Next]_vars PROVE Promises!Next
    OBVIOUS
  <2>1. Kind
    BY KindOfStep
  <2>2. (~Ended)' \in BOOLEAN /\ reported' \in BOOLEAN
    BY DEF Answers, TInv, TypeOK
  <2>3. reported => reported'
    BY ReportsStay DEF Answers
  <2>4. Promises!Answerable'
    BY Answered, PTL
  <2> QED BY <2>1, <2>2, <2>3, <2>4 DEF Kind, Promises!Next
<1> QED BY <1>1, <1>2, AnswersHold, PTL DEF Spec, ImplementsDurableErasure, Promises!Spec
=============================================================================
