----------------------- MODULE AccountDeletion_proofs -----------------------
(* Proofs about the deletion of an account, for any users, requests and runs, *)
(* any grace period and any numbers of retries and changes.                    *)
EXTENDS AccountDeletion, TLAPS

----------------------------------------------------------------------------
(* The inductive invariant *)

\* Whoever waits for Clerk's answer is in the step that calls, about users who
\* have no login and are fenced.
Calls ==
  \A r \in Runs :
    /\ run[r].todo # {} => run[r].at = "calling"
    /\ \A u \in run[r].todo : u \notin login /\ fence[u] # "none"

\* The fence outlasts the tokens of an erased user.
Outlasts == \A u \in stale : fence[u] # "none"

\* A request is answered on the day it comes.
Timely == \A q \in Requests : request[q] \in {"first", "again"} => day + Grace <= MaxDay

\* A run that has woken slept until its day.
Awake == \A r \in Runs : run[r].at \notin {"none", "asleep"} => day >= run[r].wake

\* What comes after the erasure is done once the organization is gone.
After == {"teardown", "reserve", "clerk", "calling", "release"}
Follows == \A r \in Runs : run[r].at \in After => ~org.there

TInv == TypeOK /\ Calls /\ NoGhostLogin /\ Outlasts /\ Timely /\ Awake /\ Follows

----------------------------------------------------------------------------
(* Records of runs *)

RunRow == [at : Places, wake : 0..MaxDay, tries : 0..Retries, snapshot : Snapshot,
           second : BOOLEAN, todo : SUBSET Users]

LEMMA NothingIs == Nothing \in Snapshot
BY DEF Nothing, Snapshot

LEMMA CurrentIs ==
  ASSUME TypeOK
  PROVE  Current \in Snapshot /\ (org.there => Current = [there |-> TRUE, users |-> members, rows |-> rows])
<1>1. members \subseteq Users /\ rows \in Nat
  BY TimeAssumption DEF TypeOK, IdentityOK
<1> QED BY <1>1, NothingIs DEF Current, Snapshot

LEMMA NotStartedIs == NotStarted \in RunRow
BY NothingIs, TimeAssumption DEF NotStarted, RunRow, Places

\* Fields of a record that has been given a place, a count or a snapshot.
LEMMA Placed ==
  ASSUME NEW x \in RunRow, NEW p \in Places
  PROVE  /\ [x EXCEPT !.at = p] \in RunRow
         /\ [x EXCEPT !.at = p].at = p
         /\ [x EXCEPT !.at = p].wake = x.wake
         /\ [x EXCEPT !.at = p].todo = x.todo
         /\ [x EXCEPT !.at = p].snapshot = x.snapshot
         /\ [x EXCEPT !.at = p].tries = x.tries
BY DEF RunRow

LEMMA Counted ==
  ASSUME NEW x \in RunRow, NEW n \in 0..Retries
  PROVE  /\ [x EXCEPT !.tries = n] \in RunRow
         /\ [x EXCEPT !.tries = n].at = x.at
         /\ [x EXCEPT !.tries = n].wake = x.wake
         /\ [x EXCEPT !.tries = n].todo = x.todo
         /\ [x EXCEPT !.tries = n].snapshot = x.snapshot
BY DEF RunRow

LEMMA GoesToIs ==
  ASSUME TypeOK, NEW r \in Runs, NEW p \in Places
  PROVE  /\ GoesTo(r, p) \in RunRow
         /\ GoesTo(r, p).at = p
         /\ GoesTo(r, p).wake = run[r].wake
         /\ GoesTo(r, p).todo = IF p = "over" THEN {} ELSE run[r].todo
         /\ GoesTo(r, p).snapshot = IF p = "over" THEN Nothing ELSE run[r].snapshot
<1>1. run[r] \in RunRow /\ run[r].wake \in 0..MaxDay
  BY DEF TypeOK, RunRow
<1>2. CASE p = "over"
  <2>1. GoesTo(r, p) = [NotStarted EXCEPT !.at = "over", !.wake = run[r].wake]
    BY <1>2 DEF GoesTo
  <2> QED BY <1>1, <1>2, <2>1, NotStartedIs DEF RunRow, Places, NotStarted
<1>3. CASE p # "over"
  BY <1>1, <1>3, Placed DEF GoesTo
<1> QED BY <1>2, <1>3

LEMMA AgainIs ==
  ASSUME TypeOK, NEW r \in Runs
  PROVE  /\ Again(r) \in RunRow
         /\ Again(r).wake = run[r].wake
         /\ Again(r).todo = {}
         /\ Again(r).snapshot \in {run[r].snapshot, Nothing}
         /\ \/ Again(r).at = "failing"
            \/ /\ Again(r).at = IF run[r].at = "calling" THEN "clerk" ELSE run[r].at
               /\ Again(r).snapshot = run[r].snapshot
<1>1. run[r] \in RunRow /\ run[r].wake \in 0..MaxDay /\ run[r].tries \in 0..Retries
  BY DEF TypeOK, RunRow
<1>2. CASE run[r].tries < Retries
  <2> DEFINE l == IF run[r].at = "calling" THEN "clerk" ELSE run[r].at
  <2> DEFINE n == run[r].tries + 1
  <2>1. Again(r) = [run[r] EXCEPT !.tries = n, !.todo = {}, !.at = l]
    BY <1>1, <1>2 DEF Again, RunRow
  <2>2. n \in 0..Retries
    BY <1>1, <1>2, TimeAssumption
  <2>3. l \in Places
    BY <1>1 DEF RunRow, Places, Steps
  <2> HIDE DEF n
  <2>4. /\ Again(r) \in RunRow /\ Again(r).wake = run[r].wake /\ Again(r).todo = {}
        /\ Again(r).at = l /\ Again(r).snapshot = run[r].snapshot
    <3> HIDE DEF l
    <3> QED BY <1>1, <2>1, <2>2, <2>3 DEF RunRow
  <2> QED BY <2>4
<1>3. CASE ~(run[r].tries < Retries)
  <2>1. Again(r) = [NotStarted EXCEPT !.at = "failing", !.wake = run[r].wake]
    BY <1>3 DEF Again
  <2> QED BY <1>1, <2>1, NotStartedIs DEF RunRow, Places, NotStarted
<1> QED BY <1>2, <1>3
LEMMA Pictured ==
  ASSUME NEW x \in RunRow, NEW s \in Snapshot
  PROVE  /\ [x EXCEPT !.snapshot = s] \in RunRow
         /\ [x EXCEPT !.snapshot = s].at = x.at
         /\ [x EXCEPT !.snapshot = s].wake = x.wake
         /\ [x EXCEPT !.snapshot = s].todo = x.todo
         /\ [x EXCEPT !.snapshot = s].snapshot = s
BY DEF RunRow

LEMMA PicturedUsers ==
  ASSUME NEW x \in RunRow, NEW U \in SUBSET Users
  PROVE  /\ [x EXCEPT !.snapshot.users = U] \in RunRow
         /\ [x EXCEPT !.snapshot.users = U].at = x.at
         /\ [x EXCEPT !.snapshot.users = U].wake = x.wake
         /\ [x EXCEPT !.snapshot.users = U].snapshot.users = U
         /\ [x EXCEPT !.snapshot.users = U].todo = x.todo
<1> DEFINE s == [x.snapshot EXCEPT !.users = U]
<1>1. s \in Snapshot /\ s.users = U
  BY DEF RunRow, Snapshot
<1>2. [x EXCEPT !.snapshot.users = U] = [x EXCEPT !.snapshot = s]
  BY DEF RunRow
<1> QED BY <1>1, <1>2, Pictured

LEMMA PicturedRows ==
  ASSUME NEW x \in RunRow, NEW n \in Nat \cup {NoRows}
  PROVE  /\ [x EXCEPT !.snapshot.rows = n] \in RunRow
         /\ [x EXCEPT !.snapshot.rows = n].at = x.at
         /\ [x EXCEPT !.snapshot.rows = n].wake = x.wake
         /\ [x EXCEPT !.snapshot.rows = n].snapshot.users = x.snapshot.users
         /\ [x EXCEPT !.snapshot.rows = n].todo = x.todo
<1> DEFINE s == [x.snapshot EXCEPT !.rows = n]
<1>1. s \in Snapshot /\ s.users = x.snapshot.users
  BY DEF RunRow, Snapshot
<1>2. [x EXCEPT !.snapshot.rows = n] = [x EXCEPT !.snapshot = s]
  BY DEF RunRow
<1> QED BY <1>1, <1>2, Pictured

----------------------------------------------------------------------------
(* What a step does to its run *)

Moves(r) ==
  /\ run' \in [Runs -> RunRow]
  /\ \A q \in Runs : q # r => run'[q] = run[q]
  /\ run'[r].wake = run[r].wake
  /\ run'[r].at \notin {"none", "asleep"}
  /\ run'[r].todo # {} => run'[r].at = "calling"

\* A run learns of no users but those of the account.
Narrows(r) == run'[r].snapshot.users \subseteq run[r].snapshot.users \cup Current.users

LEMMA NarrowsIf ==
  ASSUME NEW r \in Runs, run'[r].snapshot \in {run[r].snapshot, Nothing}
  PROVE  Narrows(r)
BY DEF Narrows, Nothing

\* A record that may replace the one of a run
Fits(r, x) ==
  x \in RunRow /\ x.wake = run[r].wake /\ x.at \notin {"none", "asleep"}
    /\ (x.todo # {} => x.at = "calling")

LEMMA RunReplaced ==
  ASSUME TypeOK, NEW r \in Runs, NEW x, Fits(r, x), run' = [run EXCEPT ![r] = x]
  PROVE  Moves(r) /\ run'[r] = x
<1>1. run \in [Runs -> RunRow]
  BY DEF TypeOK, RunRow
<1> QED BY <1>1 DEF Moves, Fits

LEMMA KeptFits ==
  ASSUME NEW r \in Runs, NEW x, Fits(r, x)
  PROVE  /\ Fits(r, [x EXCEPT !.tries = 0])
         /\ [x EXCEPT !.tries = 0].at = x.at
         /\ [x EXCEPT !.tries = 0].todo = x.todo
         /\ [x EXCEPT !.tries = 0].snapshot = x.snapshot
<1>1. 0 \in 0..Retries
  BY TimeAssumption
<1> QED BY <1>1, Counted DEF Fits

LEMMA AgainFits ==
  ASSUME TypeOK, NEW r \in Runs, run[r].at \in Steps
  PROVE  Fits(r, Again(r))
BY AgainIs DEF Fits, Steps

LEMMA GoesToFits ==
  ASSUME TypeOK, Calls, NEW r \in Runs, NEW p \in Places, p \notin {"none", "asleep"},
         run[r].at # "calling" \/ run[r].todo = {}
  PROVE  Fits(r, GoesTo(r, p)) /\ GoesTo(r, p).todo = {}
<1>1. run[r].todo = {}
  BY DEF Calls
<1> QED BY <1>1, GoesToIs DEF Fits

\* A step of a run has returned, or is executed again.
LEMMA KeptMoves ==
  ASSUME TypeOK, NEW r \in Runs, NEW x, Fits(r, x), Kept(r, x)
  PROVE  /\ Moves(r)
         /\ run'[r].at = x.at /\ run'[r].todo = x.todo /\ run'[r].snapshot = x.snapshot
BY KeptFits, RunReplaced DEF Kept

LEMMA AgainMoves ==
  ASSUME TypeOK, NEW r \in Runs, run[r].at \in Steps, run' = [run EXCEPT ![r] = Again(r)]
  PROVE  Moves(r) /\ run'[r] = Again(r) /\ run'[r].todo = {}
BY AgainFits, RunReplaced, AgainIs

LEMMA ReturnsMoves ==
  ASSUME TypeOK, NEW r \in Runs, NEW x, Fits(r, x), run[r].at \in Steps, Returns(r, x)
  PROVE  /\ Moves(r)
         /\ \/ run'[r].at = x.at /\ run'[r].todo = x.todo /\ run'[r].snapshot = x.snapshot
            \/ run'[r] = Again(r) /\ run'[r].todo = {}
BY KeptMoves, AgainMoves DEF Returns

LEMMA ReadsMoves ==
  ASSUME TypeOK, Calls, NEW r \in Runs, Reads(r)
  PROVE  Moves(r) /\ run'[r].todo = {}
           /\ run'[r].at \in {"cancelled", "capture", "over", "delete"}
           /\ (run'[r].at = "over" => ~org.there \/ org.stamp = "cancelled")
           /\ Narrows(r)
<1>0. run[r].at # "calling" /\ Current \in Snapshot
  BY CurrentIs DEF Reads, At
<1>1. CASE org.there /\ Kept(r, [GoesTo(r, "cancelled") EXCEPT !.snapshot.users = members \cap {Owner}])
  <2>1. members \cap {Owner} \in SUBSET Users /\ members \cap {Owner} \subseteq Current.users
    BY <1>1, OwnerAssumption, CurrentIs
  <2>2. Fits(r, GoesTo(r, "cancelled")) /\ GoesTo(r, "cancelled").todo = {}
    BY <1>0, GoesToFits DEF Places, Steps
  <2>3. GoesTo(r, "cancelled").at = "cancelled"
    BY GoesToIs DEF Places, Steps
  <2> DEFINE x == [GoesTo(r, "cancelled") EXCEPT !.snapshot.users = members \cap {Owner}]
  <2>7. Fits(r, x) /\ x.todo = {} /\ x.at = "cancelled" /\ x.snapshot.users \subseteq Current.users
    BY <2>1, <2>2, <2>3, PicturedUsers DEF Fits
  <2>8. Kept(r, x)
    BY <1>1
  <2> HIDE DEF x
  <2> QED BY <2>7, <2>8, KeptMoves DEF Narrows
<1>2. CASE Kept(r, [GoesTo(r, "capture") EXCEPT !.snapshot.rows = Current.rows])
  <2>1. Current.rows \in Nat \cup {NoRows}
    BY <1>0 DEF Snapshot
  <2>2. Fits(r, GoesTo(r, "capture")) /\ GoesTo(r, "capture").todo = {}
    BY <1>0, GoesToFits DEF Places, Steps
  <2>3. GoesTo(r, "capture").at = "capture" /\ GoesTo(r, "capture").snapshot = run[r].snapshot
    BY GoesToIs DEF Places, Steps
  <2> DEFINE x == [GoesTo(r, "capture") EXCEPT !.snapshot.rows = Current.rows]
  <2>7. Fits(r, x) /\ x.todo = {} /\ x.at = "capture" /\ x.snapshot.users = run[r].snapshot.users
    BY <2>1, <2>2, <2>3, PicturedRows DEF Fits
  <2>8. Kept(r, x)
    BY <1>2
  <2> HIDE DEF x
  <2> QED BY <2>7, <2>8, KeptMoves DEF Narrows
<1>3. CASE Kept(r, GoesTo(r, "over")) /\ (~org.there \/ org.stamp = "cancelled")
  BY <1>0, <1>3, GoesToFits, GoesToIs, KeptMoves, NarrowsIf DEF Places, Steps
<1>4. Fits(r, GoesTo(r, "delete")) /\ GoesTo(r, "delete").todo = {}
      /\ GoesTo(r, "delete").at = "delete" /\ GoesTo(r, "delete").snapshot \in Snapshot
      /\ GoesTo(r, "delete").snapshot = run[r].snapshot
  BY <1>0, GoesToFits, GoesToIs DEF Places, Steps, RunRow
<1>5. CASE Kept(r, [GoesTo(r, "delete") EXCEPT !.snapshot = IF org.there THEN Current ELSE @])
  <2> DEFINE s == IF org.there THEN Current ELSE GoesTo(r, "delete").snapshot
  <2>1. s \in Snapshot
    BY <1>0, <1>4
  <2> DEFINE x == [GoesTo(r, "delete") EXCEPT !.snapshot = s]
  <2>7. Fits(r, x) /\ x.todo = {} /\ x.at = "delete" /\ x.snapshot = s
    BY <1>4, <2>1, Pictured DEF Fits
  <2>8. Kept(r, x)
    BY <1>5
  <2>9. s \in {Current, run[r].snapshot}
    BY <1>4
  <2> HIDE DEF x, s
  <2> QED BY <2>7, <2>8, <2>9, KeptMoves DEF Narrows
<1>6. CASE Kept(r, [GoesTo(r, "delete") EXCEPT !.snapshot = Current])
  <2> DEFINE x == [GoesTo(r, "delete") EXCEPT !.snapshot = Current]
  <2>7. Fits(r, x) /\ x.todo = {} /\ x.at = "delete" /\ x.snapshot = Current
    BY <1>0, <1>4, Pictured DEF Fits
  <2>8. Kept(r, x)
    BY <1>6
  <2> HIDE DEF x
  <2> QED BY <2>7, <2>8, KeptMoves DEF Narrows
<1> QED BY <1>1, <1>2, <1>3, <1>5, <1>6 DEF Reads

LEMMA DeleteMoves ==
  ASSUME TypeOK, Calls, NEW r \in Runs, Delete(r)
  PROVE  /\ Moves(r) /\ run'[r].todo = {} /\ (run'[r].at \in After => ~org'.there)
         /\ run'[r].at = "over" => org.stamp # "scheduled"
         /\ run'[r].snapshot \in {run[r].snapshot, Nothing}
<1>0. run[r].at = "delete" /\ run[r].at \in Steps /\ run[r].at \notin After
  BY DEF Delete, At, Steps, After
<1>1. ASSUME NEW p \in {"teardown", "over", "failing", "recapture"}
      PROVE  Fits(r, GoesTo(r, p)) /\ GoesTo(r, p).todo = {} /\ GoesTo(r, p).at = p
             /\ GoesTo(r, p).snapshot \in {run[r].snapshot, Nothing}
  BY <1>0, GoesToFits, GoesToIs DEF Places, Steps
<1>2. Again(r).at \in {"failing", "delete"} /\ Again(r).snapshot \in {run[r].snapshot, Nothing}
  BY <1>0, AgainIs
<1>3. CASE Erase /\ Returns(r, GoesTo(r, "teardown"))
  <2>1. ~org'.there
    BY <1>3 DEF Erase, TypeOK
  <2> QED BY <1>0, <1>1, <1>2, <1>3, <2>1, ReturnsMoves
<1>4. CASE Kept(r, [GoesTo(r, IF run[r].second THEN "failing" ELSE "recapture") EXCEPT !.second = TRUE])
  <2> DEFINE p == IF run[r].second THEN "failing" ELSE "recapture"
  <2> DEFINE x == [GoesTo(r, p) EXCEPT !.second = TRUE]
  <2>1. p \in {"failing", "recapture"}
    OBVIOUS
  <2>2. Kept(r, x)
    BY <1>4
  <2> HIDE DEF p
  <2>3. Fits(r, x) /\ x.todo = {} /\ x.at = p /\ x.snapshot \in {run[r].snapshot, Nothing}
    BY <1>1, <2>1 DEF Fits, RunRow
  <2> HIDE DEF x
  <2> QED BY <2>1, <2>2, <2>3, KeptMoves DEF After
<1>5. CASE org.stamp # "scheduled" /\ Kept(r, GoesTo(r, "over"))
  BY <1>1, <1>5, KeptMoves DEF After
<1>6. CASE ~org.there /\ UNCHANGED <<identity, account>> /\ Kept(r, GoesTo(r, "teardown"))
  BY <1>1, <1>6, KeptMoves DEF account
<1> QED BY <1>3, <1>4, <1>5, <1>6 DEF Delete

\* The steps that only go to a place or are executed again
LEMMA PlaceMoves ==
  ASSUME TypeOK, Calls, NEW r \in Runs, NEW p \in Places, p \notin {"none", "asleep"},
         run[r].at \in Steps, run[r].at # "calling" \/ run[r].todo = {},
         Returns(r, GoesTo(r, p))
  PROVE  /\ Moves(r) /\ run'[r].todo = {} /\ run'[r].snapshot \in {run[r].snapshot, Nothing}
         /\ \/ run'[r].at = p /\ (p # "over" => run'[r].snapshot = run[r].snapshot)
            \/ run'[r] = Again(r)
<1>1. Fits(r, GoesTo(r, p)) /\ GoesTo(r, p).todo = {}
  BY GoesToFits
<1>2. GoesTo(r, p).at = p /\ GoesTo(r, p).snapshot = IF p = "over" THEN Nothing ELSE run[r].snapshot
  BY GoesToIs
<1> QED BY <1>1, <1>2, ReturnsMoves, AgainIs

LEMMA BeginMoves ==
  ASSUME TypeOK, NEW r \in Runs, NEW U \in SUBSET Users, run[r].at # "none",
         run' = [run EXCEPT ![r].at = "calling", ![r].todo = U]
  PROVE  Moves(r) /\ run'[r].at = "calling" /\ run'[r].todo = U
           /\ run'[r].snapshot = run[r].snapshot
<1> DEFINE x == [run[r] EXCEPT !.at = "calling", !.todo = U]
<1>1. run[r] \in RunRow
  BY DEF TypeOK, RunRow
<1>2. Fits(r, x) /\ x.at = "calling" /\ x.todo = U /\ x.snapshot = run[r].snapshot
  BY <1>1 DEF Fits, RunRow, Places, Steps
<1>3. run' = [run EXCEPT ![r] = x]
  BY <1>1 DEF TypeOK, RunRow
<1> HIDE DEF x
<1> QED BY <1>2, <1>3, RunReplaced

LEMMA CallMoves ==
  ASSUME TypeOK, NEW r \in Runs, NEW u, run[r].at = "calling",
         run' = [run EXCEPT ![r].todo = @ \ {u}]
  PROVE  Moves(r) /\ run'[r].at = "calling" /\ run'[r].todo = run[r].todo \ {u}
           /\ run'[r].snapshot = run[r].snapshot
<1> DEFINE U == run[r].todo \ {u}
<1> DEFINE x == [run[r] EXCEPT !.todo = U]
<1>1. run[r] \in RunRow /\ U \in SUBSET Users
  BY DEF TypeOK, RunRow
<1>2. run' = [run EXCEPT ![r] = x]
  BY <1>1 DEF TypeOK, RunRow
<1> HIDE DEF U
<1>3. Fits(r, x) /\ x.at = "calling" /\ x.todo = U /\ x.snapshot = run[r].snapshot
  BY <1>1 DEF Fits, RunRow
<1> HIDE DEF x
<1>4. Moves(r) /\ run'[r] = x
  BY <1>2, <1>3, RunReplaced
<1> QED BY <1>3, <1>4 DEF U

LEMMA StepMoves ==
  ASSUME TypeOK, Calls, Follows, NEW r \in Runs, RunStep(r)
  PROVE  /\ Moves(r)
         /\ run[r].at \notin {"none", "over"}
         /\ run[r].at = "asleep" => day >= run[r].wake
         /\ run'[r].at \in After => ~org'.there
         /\ run'[r].at = "over" => ~org.there \/ org.stamp # "scheduled" \/ Report(r)
         /\ \/ run'[r].todo \subseteq run[r].todo
            \/ BeginClerk(r) /\ run'[r].todo \subseteq run[r].snapshot.users
         /\ Narrows(r)
<1> USE DEF At
<1>0. run[r].at \in After => ~org.there
  BY DEF Follows
<1>1. CASE Wake(r)
  <2>1. run[r].at = "asleep" /\ day >= run[r].wake /\ Returns(r, GoesTo(r, "exists"))
    BY <1>1 DEF Wake, Returns
  <2>2. Fits(r, GoesTo(r, "exists")) /\ GoesTo(r, "exists").todo = {} /\ GoesTo(r, "exists").at = "exists"
        /\ GoesTo(r, "exists").snapshot = run[r].snapshot
    BY <2>1, GoesToFits, GoesToIs DEF Places, Steps
  <2>3. Kept(r, GoesTo(r, "exists"))
    BY <1>1 DEF Wake
  <2> QED BY <2>1, <2>2, <2>3, KeptMoves, NarrowsIf DEF After
<1>2. CASE Reads(r)
  <2>1. run[r].at \in {"exists", "cancelled", "capture", "recapture"}
    BY <1>2 DEF Reads
  <2> QED BY <1>2, <2>1, ReadsMoves DEF After
<1>3. CASE Delete(r)
  <2>1. run[r].at = "delete"
    BY <1>3 DEF Delete
  <2> QED BY <1>3, <2>1, DeleteMoves, NarrowsIf
\* the steps after the erasure
<1>4. ASSUME run[r].at \in After, org' = org,
             NEW p \in Places, p \notin {"none", "asleep"},
             run[r].at # "calling" \/ run[r].todo = {}, Returns(r, GoesTo(r, p))
      PROVE  /\ Moves(r) /\ run[r].at \notin {"none", "over", "asleep"}
             /\ ~org.there /\ ~org'.there /\ run'[r].todo \subseteq run[r].todo /\ Narrows(r)
  BY <1>0, <1>4, PlaceMoves, NarrowsIf DEF After, Steps
<1>5. CASE Teardown(r)
  <2> DEFINE p == IF run[r].snapshot.users = {} THEN "over" ELSE "reserve"
  <2>1. p \in Places /\ p \notin {"none", "asleep"}
    BY DEF Places, Steps
  <2>2. run[r].at = "teardown" /\ Returns(r, GoesTo(r, p)) /\ org' = org
    BY <1>5 DEF Teardown, account
  <2> HIDE DEF p
  <2> QED BY <1>4, <2>1, <2>2 DEF After
<1>6. CASE Reserve(r)
  <2>1. org' = org /\ run[r].at = "reserve"
    BY <1>6 DEF Reserve, account
  <2>2. Returns(r, GoesTo(r, "failing")) \/ Returns(r, GoesTo(r, "clerk"))
    BY <1>6 DEF Reserve, Ensure, Returns
  <2> QED BY <1>4, <2>1, <2>2 DEF After, Places, Steps
<1>7. CASE BeginClerk(r)
  <2>1. org' = org /\ run[r].at = "clerk"
    BY <1>7 DEF BeginClerk, account
  <2>2. CASE Returns(r, GoesTo(r, "failing"))
    BY <1>4, <2>1, <2>2 DEF After, Places, Steps
  <2>3. CASE run' = [run EXCEPT ![r].at = "calling", ![r].todo = run[r].snapshot.users]
    <3>1. run[r].snapshot.users \in SUBSET Users
      BY DEF TypeOK, Snapshot
    <3> QED BY <1>0, <1>7, <2>1, <2>3, <3>1, BeginMoves, NarrowsIf DEF After
  <2> QED BY <1>7, <2>2, <2>3 DEF BeginClerk, Returns
<1>8. CASE CallClerk(r)
  <2>1. org' = org /\ run[r].at = "calling"
    BY <1>8 DEF CallClerk, account
  <2>2. PICK u \in run[r].todo : run' = [run EXCEPT ![r].todo = @ \ {u}]
    BY <1>8 DEF CallClerk
  <2> QED BY <1>0, <2>1, <2>2, CallMoves, NarrowsIf DEF After
<1>9. CASE ClerkDone(r)
  <2>1. org' = org /\ run[r].at = "calling" /\ run[r].todo = {} /\ Returns(r, GoesTo(r, "release"))
    BY <1>9 DEF ClerkDone, account, Returns
  <2> QED BY <1>4, <2>1 DEF After, Places, Steps
<1>10. CASE Release(r)
  <2>1. org' = org /\ run[r].at = "release" /\ Returns(r, GoesTo(r, "over"))
    BY <1>10 DEF Release, account
  <2> QED BY <1>4, <2>1 DEF After, Places, Steps
<1>11. CASE StepFails(r)
  <2>1. org' = org /\ run[r].at \in Steps /\ run' = [run EXCEPT ![r] = Again(r)]
    BY <1>11 DEF StepFails, account
  <2>2. Moves(r) /\ run'[r] = Again(r) /\ run'[r].todo = {}
    BY <2>1, AgainMoves
  <2>3. Again(r).at \in After => run[r].at \in After
    BY AgainIs DEF After
  <2>4. Again(r).at # "over" /\ Again(r).snapshot \in {run[r].snapshot, Nothing}
    BY <2>1, AgainIs DEF Steps
  <2> QED BY <1>0, <2>1, <2>2, <2>3, <2>4, NarrowsIf DEF Steps
<1>12. CASE Report(r)
  <2>1. run[r].at = "failing" /\ Kept(r, GoesTo(r, "over"))
    BY <1>12 DEF Report
  <2>2. Fits(r, GoesTo(r, "over")) /\ GoesTo(r, "over").todo = {} /\ GoesTo(r, "over").at = "over"
        /\ GoesTo(r, "over").snapshot = Nothing
    BY <2>1, GoesToFits, GoesToIs DEF Places, Steps
  <2> QED BY <1>12, <2>1, <2>2, KeptMoves, NarrowsIf DEF After
<1> QED BY <1>1, <1>2, <1>3, <1>5, <1>6, <1>7, <1>8, <1>9, <1>10, <1>11, <1>12 DEF RunStep

----------------------------------------------------------------------------
(* What a step does to logins, Clerk's users and the fence between them *)

Guarded == IdentityOK /\ NoGhostLogin /\ Outlasts

\* No step of a run binds a login or takes down a fence.
Keeps == login' \subseteq login /\ \A u \in Users : fence[u] # "none" => fence'[u] # "none"

LEMMA ReservedIs ==
  ASSUME IdentityOK, NEW U \in SUBSET Users
  PROVE  /\ Reserved(U) \in [Users -> Fences]
         /\ \A u \in U : Reserved(U)[u] # "none"
         /\ \A u \in Users : fence[u] # "none" => Reserved(U)[u] # "none"
BY DEF IdentityOK, Reserved, Fences

LEMMA ReleasedIs ==
  ASSUME IdentityOK, NEW U
  PROVE  /\ Released(U) \in [Users -> Fences]
         /\ \A u \in Users : fence[u] # "none" => Released(U)[u] # "none"
BY DEF IdentityOK, Released, Fences

LEMMA FenceRaised ==
  ASSUME Guarded, NEW U \in SUBSET Users, NEW L \in SUBSET Users,
         fence' = Reserved(U), clerk' = clerk, stale' = stale, login' = login \ L
  PROVE  Guarded' /\ Keeps /\ \A u \in U : fence'[u] # "none"
<1>1. IdentityOK
  BY DEF Guarded
<1> QED BY <1>1, ReservedIs DEF Guarded, IdentityOK, NoGhostLogin, Outlasts, Keeps

LEMMA UserErased ==
  ASSUME Guarded, NEW u \in Users, u \notin login, fence[u] # "none", EraseUser(u)
  PROVE  Guarded' /\ Keeps /\ (clerk \ clerk') \cap login = {}
<1>1. clerk \subseteq Users /\ stale \subseteq Users \ clerk /\ login \subseteq clerk
      /\ \A v \in stale : fence[v] # "none"
  BY DEF Guarded, IdentityOK, NoGhostLogin, Outlasts
<1>2. clerk' = clerk \ {u} /\ login' = login /\ fence' = fence
      /\ stale' = IF u \in clerk THEN stale \cup {u} ELSE stale
  BY DEF EraseUser
<1>3. IdentityOK' /\ NoGhostLogin'
  BY <1>1, <1>2 DEF Guarded, IdentityOK, NoGhostLogin
<1>4. Outlasts'
  BY <1>1, <1>2 DEF Outlasts
<1> QED BY <1>2, <1>3, <1>4 DEF Guarded, Keeps

\* The steps whose check finds no login behind the users they name
LEMMA Checked ==
  ASSUME Guarded, NEW U \in SUBSET Users, ~Rebound(U), fence' = Reserved(U),
         UNCHANGED <<clerk, stale, login>>
  PROVE  Guarded' /\ Keeps /\ \A u \in U : u \notin login' /\ fence'[u] # "none"
<1>1. login' = login \ {} /\ \A u \in U : u \notin login
  BY DEF Rebound
<1>2. Guarded' /\ Keeps /\ \A u \in U : fence'[u] # "none"
  BY <1>1, FenceRaised, {} \in SUBSET Users
<1> QED BY <1>1, <1>2

LEMMA StepGuarded ==
  ASSUME TypeOK, Calls, Guarded, NEW r \in Runs, RunStep(r)
  PROVE  /\ Guarded' /\ Keeps /\ members' \subseteq login'
         /\ (clerk \ clerk') \cap login = {}
         /\ BeginClerk(r) => \A u \in run'[r].todo : u \notin login' /\ fence'[u] # "none"
<1> DEFINE U == run[r].snapshot.users
<1>0. U \in SUBSET Users /\ members \subseteq Users /\ members \subseteq login
  BY DEF TypeOK, Snapshot, IdentityOK
<1>1. ASSUME UNCHANGED identity, members' = members, \A u \in run'[r].todo : u \in run[r].todo
      PROVE  /\ Guarded' /\ Keeps /\ members' \subseteq login'
             /\ (clerk \ clerk') \cap login = {}
             /\ \A u \in run'[r].todo : u \notin login' /\ fence'[u] # "none"
  BY <1>0, <1>1 DEF identity, Guarded, IdentityOK, NoGhostLogin, Outlasts, Keeps, Calls
<1>2. CASE UNCHANGED <<identity, account>> /\ ~BeginClerk(r)
  <2>1. UNCHANGED identity /\ members' = members
    BY <1>2 DEF account
  <2>2. Guarded' /\ Keeps /\ members' \subseteq login' /\ (clerk \ clerk') \cap login = {}
    BY <1>0, <2>1 DEF identity, Guarded, IdentityOK, NoGhostLogin, Outlasts, Keeps
  <2> QED BY <1>2, <2>2
<1>3. CASE Erase /\ At(r, "delete")
  <2>1. /\ fence' = Reserved(members) /\ login' = login \ members /\ members' = {}
        /\ clerk' = clerk /\ stale' = stale
    BY <1>3 DEF Erase
  <2>2. Guarded' /\ Keeps
    BY <1>0, <2>1, FenceRaised
  <2>3. ~BeginClerk(r)
    BY <1>3 DEF BeginClerk, At
  <2> QED BY <2>1, <2>2, <2>3
<1>4. CASE /\ ~Rebound(U) /\ fence' = Reserved(U) /\ UNCHANGED <<clerk, stale, login>>
           /\ members' = members
           /\ ~BeginClerk(r) \/ run' = [run EXCEPT ![r].at = "calling", ![r].todo = U]
  <2>1. Guarded' /\ Keeps /\ \A u \in U : u \notin login' /\ fence'[u] # "none"
    BY <1>0, <1>4, Checked
  <2>2. ASSUME BeginClerk(r) PROVE run'[r].todo = U
    BY <1>0, <1>4, <2>2, BeginMoves DEF BeginClerk, At
  <2> QED BY <1>0, <1>4, <2>1, <2>2
<1>5. CASE BeginClerk(r) /\ UNCHANGED identity /\ Kept(r, GoesTo(r, "failing"))
  <2>1. run[r].at = "clerk" /\ members' = members
    BY <1>5 DEF BeginClerk, At, account
  <2>2. Fits(r, GoesTo(r, "failing")) /\ GoesTo(r, "failing").todo = {}
    BY <2>1, GoesToFits DEF Places
  <2>3. run'[r].todo = {}
    BY <1>5, <2>2, KeptMoves
  <2> QED BY <1>1, <1>5, <2>1, <2>3
<1>6. CASE CallClerk(r)
  <2>1. PICK u \in run[r].todo : EraseUser(u)
    BY <1>6 DEF CallClerk
  <2>2. u \in Users /\ u \notin login /\ fence[u] # "none"
    BY <2>1 DEF Calls, TypeOK
  <2>3. ~BeginClerk(r) /\ members' = members
    BY <1>6 DEF CallClerk, BeginClerk, At, account
  <2>4. Guarded' /\ Keeps /\ (clerk \ clerk') \cap login = {}
    BY <2>1, <2>2, UserErased
  <2>5. login' = login
    BY <2>1 DEF EraseUser
  <2> QED BY <1>0, <2>3, <2>4, <2>5
<1>7. CASE Release(r)
  <2>1. fence' = Released(U) /\ UNCHANGED <<clerk, stale, login>> /\ members' = members /\ ~BeginClerk(r)
    BY <1>7 DEF Release, BeginClerk, At, account
  <2>2. IdentityOK
    BY DEF Guarded
  <2>3. IdentityOK' /\ NoGhostLogin' /\ Outlasts' /\ Keeps
    BY <2>1, <2>2, ReleasedIs DEF Guarded, IdentityOK, NoGhostLogin, Outlasts, Keeps
  <2> QED BY <1>0, <2>1, <2>3 DEF Guarded
<1>8. CASE Delete(r)
  <2>1. At(r, "delete") /\ ~BeginClerk(r)
    BY <1>8 DEF Delete, BeginClerk, At
  <2> QED BY <1>2, <1>3, <1>8, <2>1 DEF Delete
<1>9. CASE Reserve(r)
  <2>1. ~BeginClerk(r) /\ UNCHANGED account
    BY <1>9 DEF Reserve, BeginClerk, At
  <2> QED BY <1>2, <1>4, <1>9, <2>1 DEF Reserve, Ensure, account
<1>10. CASE BeginClerk(r)
  <2>1. UNCHANGED account
    BY <1>10 DEF BeginClerk
  <2> QED BY <1>4, <1>5, <1>10, <2>1 DEF BeginClerk, account
<1>11. CASE Wake(r) \/ Reads(r) \/ ClerkDone(r) \/ StepFails(r) \/ Teardown(r) \/ Report(r)
  <2>1. UNCHANGED <<identity, account>>
    BY <1>11 DEF Wake, Reads, ClerkDone, StepFails, Teardown, Report
  <2> QED BY <1>2, <1>10, <2>1
<1> QED BY <1>6, <1>7, <1>8, <1>9, <1>10, <1>11 DEF RunStep

----------------------------------------------------------------------------
(* The steps of the owner and of others *)

\* What they do to the runs: one may fall asleep.
Falls(r) ==
  /\ run[r].at = "none" /\ run'[r].at = "asleep"
  /\ run'[r].todo = {} /\ run'[r].snapshot = Nothing
Rest == run' \in [Runs -> RunRow] /\ \A r \in Runs : run'[r] = run[r] \/ Falls(r)

LEMMA RestUnchanged ==
  ASSUME TypeOK, run' = run
  PROVE  Rest
BY DEF Rest, TypeOK, RunRow

\* An event that is delivered has a run to wait for: the one it starts, or one
\* that sleeps and for which it is dropped.
LEMMA DeliveredIs ==
  ASSUME TypeOK, Awake, day + Grace <= MaxDay, Delivered
  PROVE  Rest /\ \E r \in Runs : run'[r].at = "asleep"
<1>0. run \in [Runs -> RunRow] /\ day \in Nat /\ Grace \in Nat
  BY TimeAssumption DEF TypeOK, RunRow
<1>1. CASE Deduplicated
  <2>1. run' = run
    BY <1>1 DEF Delivered
  <2>2. PICK r \in Runs : run[r].at # "none" /\ day < run[r].wake - Grace + Window
    BY <1>1 DEF Deduplicated
  <2>3. run[r].wake \in Nat /\ Window \in Nat /\ Window <= Grace
    BY <1>0, TimeAssumption DEF RunRow
  <2>4. ~(day >= run[r].wake)
    BY <1>0, <2>2, <2>3
  <2>5. run[r].at = "asleep"
    BY <2>2, <2>4 DEF Awake
  <2> QED BY <2>1, <2>5, RestUnchanged
<1>2. CASE ~Deduplicated
  <2> DEFINE n == day + Grace
  <2> DEFINE x == [NotStarted EXCEPT !.at = "asleep", !.wake = n]
  <2>1. (\E r \in Runs : run[r].at = "none") /\ run' = [run EXCEPT ![FreeRun] = x]
    BY <1>2 DEF Delivered
  <2>2. FreeRun \in Runs /\ run[FreeRun].at = "none"
    BY <2>1 DEF FreeRun
  <2>3. n \in 0..MaxDay
    BY <1>0, TimeAssumption
  <2> HIDE DEF n
  <2>4. x \in RunRow /\ x.at = "asleep" /\ x.todo = {} /\ x.snapshot = Nothing
    BY <2>3, NotStartedIs DEF RunRow, Places, NotStarted
  <2> HIDE DEF x
  <2>5. run' \in [Runs -> RunRow] /\ run'[FreeRun] = x /\ \A r \in Runs : r # FreeRun => run'[r] = run[r]
    BY <1>0, <2>1, <2>2, <2>4
  <2> QED BY <2>2, <2>4, <2>5 DEF Rest, Falls
<1> QED BY <1>1, <1>2

\* The parts about runs are as they were.
LEMMA RestKeeps ==
  ASSUME TInv, Rest, day' = day \/ (day' \in Nat /\ day' >= day), org'.there = org.there,
         \A u \in Users \ login : \A r \in Runs :
            u \in run[r].todo => u \notin login' /\ fence'[u] # "none"
  PROVE  Calls' /\ Awake' /\ Follows'
<1>0. Calls /\ Awake /\ Follows /\ run \in [Runs -> RunRow] /\ day \in Nat
  BY DEF TInv, TypeOK, RunRow
<1>1. \A r \in Runs : run'[r] = run[r] \/ Falls(r)
  BY DEF Rest
<1>2. Follows'
  BY <1>0, <1>1 DEF Follows, Falls, After
<1>3. Awake'
  <2> SUFFICES ASSUME NEW r \in Runs, run'[r].at \notin {"none", "asleep"}
               PROVE  day' >= run'[r].wake
    BY DEF Awake
  <2>1. run'[r] = run[r] /\ day >= run[r].wake
    BY <1>0, <1>1 DEF Falls, Awake
  <2>2. run[r].wake \in Nat
    BY <1>0 DEF RunRow
  <2>3. day' \in Nat /\ day' >= day
    BY <1>0
  <2> QED BY <1>0, <2>1, <2>2, <2>3
<1>4. Calls'
  <2> SUFFICES ASSUME NEW r \in Runs
               PROVE  /\ run'[r].todo # {} => run'[r].at = "calling"
                      /\ \A u \in run'[r].todo : u \notin login' /\ fence'[u] # "none"
    BY DEF Calls
  <2>1. CASE Falls(r)
    BY <2>1 DEF Falls
  <2>2. CASE run'[r] = run[r]
    <3>1. run[r].todo \subseteq Users \ login
      BY <1>0 DEF Calls, RunRow
    <3> QED BY <1>0, <2>2, <3>1 DEF Calls
  <2> QED BY <1>1, <2>1, <2>2
<1> QED BY <1>2, <1>3, <1>4

\* Signing up, an expiring token and an elapsing fence
LEMMA ElsewhereGuarded ==
  ASSUME TInv, NEW u \in Users, SignUp(u) \/ TokenExpires(u) \/ FenceElapses(u, Busy)
  PROVE  /\ Guarded' /\ login \subseteq login' /\ clerk' = clerk
         /\ \A v \in Users \ login : \A r \in Runs :
               v \in run[r].todo => v \notin login' /\ fence'[v] # "none"
<1>0. Guarded /\ Calls
  BY DEF TInv, Guarded, TypeOK
<1>1. CASE SignUp(u)
  BY <1>0, <1>1 DEF SignUp, Guarded, IdentityOK, NoGhostLogin, Outlasts, Calls
<1>2. CASE TokenExpires(u)
  BY <1>0, <1>2 DEF TokenExpires, Guarded, IdentityOK, NoGhostLogin, Outlasts, Calls
<1>3. CASE FenceElapses(u, Busy)
  <2>1. /\ fence' = [fence EXCEPT ![u] = "none"] /\ clerk' = clerk /\ stale' = stale /\ login' = login
        /\ u \notin stale /\ \A r \in Runs : u \notin run[r].todo
    BY <1>3 DEF FenceElapses, Busy
  <2> QED BY <1>0, <2>1 DEF Guarded, IdentityOK, NoGhostLogin, Outlasts, Calls, Fences
<1> QED BY <1>1, <1>2, <1>3

----------------------------------------------------------------------------
(* The types and the parts about runs and logins *)

Scalars ==
  /\ day \in 0..MaxDay
  /\ org \in [there : BOOLEAN, stamp : Stamps, due : 0..MaxDay]
  /\ promised \in BOOLEAN /\ rolledBack \in BOOLEAN /\ rows \in 0..MaxChanges
  /\ request \in [Requests -> RequestStates]
  /\ erased \in Snapshot /\ teardown \subseteq Nat /\ reported \subseteq Runs

LEMMA TypeParts ==
  TypeOK <=> /\ Scalars /\ IdentityOK /\ members \subseteq login /\ run \in [Runs -> RunRow]
BY DEF TypeOK, Scalars, RunRow

\* The organization's row after a stamp
LEMMA Stamped ==
  ASSUME NEW x \in [there : BOOLEAN, stamp : Stamps, due : 0..MaxDay], NEW n \in 0..MaxDay
  PROVE  /\ [x EXCEPT !.stamp = "scheduled", !.due = n]
              \in [there : BOOLEAN, stamp : Stamps, due : 0..MaxDay]
         /\ [x EXCEPT !.stamp = "scheduled", !.due = n].there = x.there
         /\ [x EXCEPT !.stamp = "scheduled", !.due = n].stamp = "scheduled"
         /\ [x EXCEPT !.stamp = "cancelled"] \in [there : BOOLEAN, stamp : Stamps, due : 0..MaxDay]
         /\ [x EXCEPT !.stamp = "cancelled"].there = x.there
BY DEF Stamps

LEMMA CancelledIs ==
  ASSUME TypeOK, Cancelled
  PROVE  /\ org' \in [there : BOOLEAN, stamp : Stamps, due : 0..MaxDay]
         /\ org'.there = org.there
         /\ org' = org \/ (org.there /\ org'.stamp = "cancelled")
<1>1. org \in [there : BOOLEAN, stamp : Stamps, due : 0..MaxDay]
  BY DEF TypeOK
<1>2. CASE UNCHANGED org
  BY <1>1, <1>2
<1>3. CASE org.there /\ org' = [org EXCEPT !.stamp = "cancelled"]
  BY <1>1, <1>3 DEF Stamps
<1> QED BY <1>2, <1>3 DEF Cancelled

\* What a rollback does to the row and to what the owner was told
LEMMA RollbackIs ==
  ASSUME TypeOK, NEW q \in Requests, DispatchFails(q) \/ Rollback(q)
  PROVE  /\ org' \in [there : BOOLEAN, stamp : Stamps, due : 0..MaxDay]
         /\ org'.there = org.there /\ promised' = promised /\ rolledBack' \in BOOLEAN
         /\ \/ UNCHANGED <<org, rolledBack>>
            \/ rolledBack' = TRUE /\ org.there /\ org'.stamp = "cancelled"
<1>1. org \in [there : BOOLEAN, stamp : Stamps, due : 0..MaxDay]
  BY DEF TypeOK
<1>2. rolledBack \in BOOLEAN
  BY DEF TypeOK
<1>3. CASE UNCHANGED <<org, promised, rolledBack>>
  BY <1>1, <1>2, <1>3
<1>4. CASE Rollback(q) /\ Cancelled /\ rolledBack' = (rolledBack \/ org' # org)
  <2>1. CASE org' = org
    <3>1. rolledBack' = rolledBack
      BY <1>2, <1>4, <2>1, Zenon
    <3> QED BY <1>1, <1>2, <1>4, <2>1, <3>1 DEF Rollback
  <2>2. CASE org' # org
    <3>1. rolledBack' = TRUE
      BY <1>4, <2>2, Zenon
    <3> QED BY <1>4, <2>2, <3>1, CancelledIs DEF Rollback
  <2> QED BY <2>1, <2>2
<1> QED BY <1>3, <1>4 DEF DispatchFails, Rollback, account

\* and the answer to it
LEMMA ToldIs ==
  ASSUME TypeOK, Told
  PROVE  /\ promised' \in BOOLEAN /\ rolledBack' \in BOOLEAN
         /\ org.stamp = "scheduled" => promised' = TRUE /\ rolledBack' = FALSE
         /\ org.stamp # "scheduled" => ~(promised' /\ ~rolledBack')
<1>1. promised \in BOOLEAN /\ rolledBack \in BOOLEAN
  BY DEF TypeOK
<1>2. CASE org.stamp = "scheduled"
  BY <1>2 DEF Told
<1>3. CASE org.stamp # "scheduled"
  BY <1>1, <1>3, Zenon DEF Told
<1> QED BY <1>2, <1>3

LEMMA ScheduleIs ==
  ASSUME TInv, NEW q \in Requests, Schedule(q)
  PROVE  Scalars' /\ org'.there = org.there /\ Timely'
           /\ (org' = org \/ org'.stamp = "scheduled")
<1>0. TypeOK /\ Timely /\ day + Grace <= MaxDay
  BY DEF TInv, Schedule
<1>1. day' = day /\ rows' = rows /\ erased' = erased /\ teardown' = teardown /\ reported' = reported
      /\ promised' = promised /\ rolledBack' = rolledBack
  BY DEF Schedule
<1>2. request' \in [Requests -> RequestStates]
  BY <1>0 DEF Schedule, TypeOK, RequestStates
<1>3. org \in [there : BOOLEAN, stamp : Stamps, due : 0..MaxDay]
  BY <1>0 DEF TypeOK
<1>4. org' \in [there : BOOLEAN, stamp : Stamps, due : 0..MaxDay] /\ org'.there = org.there
      /\ (org' = org \/ org'.stamp = "scheduled")
  <2>1. CASE org' = org
    BY <1>3, <2>1
  <2>2. CASE org' = [org EXCEPT !.stamp = "scheduled", !.due = day + Grace]
    <3> DEFINE n == day + Grace
    <3>1. n \in 0..MaxDay
      BY <1>0, TimeAssumption DEF TypeOK
    <3>2. org' = [org EXCEPT !.stamp = "scheduled", !.due = n]
      BY <2>2
    <3> HIDE DEF n
    <3> QED BY <1>3, <3>1, <3>2, Stamped
  <2> QED BY <2>1, <2>2 DEF Schedule
<1>5. Timely'
  BY <1>0, <1>1 DEF Timely
<1> QED BY <1>0, <1>1, <1>2, <1>4, <1>5 DEF Scalars, TypeOK

LEMMA RequestIs ==
  ASSUME TInv, NEW q \in Requests, RequestStep(q)
  PROVE  Scalars' /\ org'.there = org.there /\ Timely' /\ Rest
<1>0. TypeOK /\ Timely /\ Awake
  BY DEF TInv
<1>1. /\ day' = day /\ rows' = rows /\ erased' = erased /\ teardown' = teardown /\ reported' = reported
      /\ \E p \in {"answered", "rollback", "refused"} : request' = [request EXCEPT ![q] = p]
  BY <1>0 DEF RequestStep, Dispatch, DispatchFails, Rollback, account, TypeOK
<1>2. request' \in [Requests -> RequestStates]
  BY <1>0, <1>1 DEF TypeOK, RequestStates
<1>3. Timely'
  BY <1>0, <1>1 DEF Timely, TypeOK
<1>4. /\ org' \in [there : BOOLEAN, stamp : Stamps, due : 0..MaxDay]
      /\ promised' \in BOOLEAN /\ rolledBack' \in BOOLEAN /\ org'.there = org.there
  <2>1. CASE Dispatch(q)
    <3>1. org' = org /\ Told
      BY <2>1 DEF Dispatch
    <3>2. org \in [there : BOOLEAN, stamp : Stamps, due : 0..MaxDay]
      BY <1>0 DEF TypeOK
    <3> QED BY <1>0, <3>1, <3>2, ToldIs
  <2>2. CASE DispatchFails(q) \/ Rollback(q)
    <3>1. promised \in BOOLEAN
      BY <1>0 DEF TypeOK
    <3> QED BY <1>0, <2>2, <3>1, RollbackIs
  <2> QED BY <2>1, <2>2 DEF RequestStep
<1>5. Rest
  <2>1. CASE Delivered /\ request[q] \in {"first", "again"}
    <3>1. day + Grace <= MaxDay
      BY <1>0, <2>1 DEF Timely
    <3> QED BY <1>0, <2>1, <3>1, DeliveredIs
  <2>2. CASE run' = run
    BY <1>0, <2>2, RestUnchanged
  <2> QED BY <2>1, <2>2 DEF RequestStep, Dispatch, DispatchFails, Rollback
<1>6. rows' \in 0..MaxChanges /\ day' \in 0..MaxDay /\ erased' \in Snapshot /\ teardown' \subseteq Nat
      /\ reported' \subseteq Runs
  BY <1>0, <1>1 DEF TypeOK
<1> QED BY <1>2, <1>3, <1>4, <1>5, <1>6 DEF Scalars

LEMMA RunStepIs ==
  ASSUME TInv, NEW r \in Runs, RunStep(r)
  PROVE  /\ Scalars' /\ day' = day /\ request' = request
         /\ promised' = promised /\ rolledBack' = rolledBack
         /\ org'.there => org' = org
<1>0. TypeOK
  BY DEF TInv
<1>1. CASE UNCHANGED <<day, account, request>> /\ teardown' \subseteq Nat /\ reported' \subseteq Runs
  BY <1>0, <1>1 DEF account, TypeOK, Scalars
<1>2. CASE Erase /\ UNCHANGED <<day, request, teardown, reported>>
  <2>1. org' = [org EXCEPT !.there = FALSE] /\ erased' = Current /\ promised' = promised /\ rolledBack' = rolledBack /\ rows' = rows
    BY <1>2 DEF Erase
  <2>2. org' \in [there : BOOLEAN, stamp : Stamps, due : 0..MaxDay] /\ ~org'.there
    BY <1>0, <2>1 DEF TypeOK
  <2> QED BY <1>0, <1>2, <2>1, <2>2, CurrentIs DEF TypeOK, Scalars
<1>3. CASE Teardown(r)
  <2>1. run[r].snapshot.rows \in Nat \cup {NoRows}
    BY <1>0 DEF TypeOK, Snapshot
  <2>2. teardown' \subseteq Nat
    BY <1>0, <1>3, <2>1 DEF Teardown, TypeOK
  <2> QED BY <1>0, <1>1, <1>3, <2>2 DEF Teardown, TypeOK
<1>4. CASE Report(r)
  BY <1>0, <1>1, <1>4 DEF Report, TypeOK
<1>5. CASE \/ Wake(r) \/ Reads(r) \/ Reserve(r) \/ BeginClerk(r) \/ CallClerk(r) \/ ClerkDone(r)
           \/ Release(r) \/ StepFails(r)
  <2>1. UNCHANGED <<day, account, request, teardown, reported>>
    BY <1>5 DEF Wake, Reads, Reserve, BeginClerk, CallClerk, ClerkDone, Release, StepFails
  <2> QED BY <1>0, <1>1, <2>1 DEF TypeOK
<1>6. CASE Delete(r)
  BY <1>0, <1>1, <1>2, <1>6 DEF Delete, TypeOK
<1> QED BY <1>3, <1>4, <1>5, <1>6 DEF RunStep

LEMMA InitTypes == Init => TInv
<1> SUFFICES ASSUME Init PROVE TInv
  OBVIOUS
<1>1. IdentityOK /\ NoGhostLogin /\ Outlasts
  BY DEF Init, IdentityInit, IdentityOK, NoGhostLogin, Outlasts, Fences
<1>2. run = [r \in Runs |-> NotStarted] /\ NotStarted.at = "none" /\ NotStarted.todo = {}
  BY DEF Init, NotStarted
<1>3. run \in [Runs -> RunRow]
  BY <1>2, NotStartedIs
<1>4. promised \in BOOLEAN /\ rolledBack \in BOOLEAN
  BY DEF Init
<1>5. org \in [there : BOOLEAN, stamp : Stamps, due : 0..MaxDay] /\ day \in 0..MaxDay
      /\ rows \in 0..MaxChanges /\ members \subseteq login /\ request \in [Requests -> RequestStates]
  BY OwnerAssumption, TimeAssumption DEF Init, IdentityInit, Stamps, RequestStates
<1>6. erased \in Snapshot /\ teardown \subseteq Nat /\ reported \subseteq Runs
  BY NothingIs DEF Init
<1>7. TypeOK
  BY <1>1, <1>3, <1>4, <1>5, <1>6, TypeParts DEF Scalars
<1>8. Timely
  BY DEF Init, Timely
<1>9. Calls /\ Awake /\ Follows
  BY <1>2 DEF Calls, Awake, Follows, After
<1> QED BY <1>1, <1>7, <1>8, <1>9 DEF TInv

LEMMA StepTypes == TInv /\ [Next]_vars => TInv'
<1> SUFFICES ASSUME TInv, [Next]_vars PROVE TInv'
  OBVIOUS
<1>0. TypeOK /\ Calls /\ Guarded /\ Timely /\ Awake /\ Follows /\ members \subseteq login
  BY DEF TInv, TypeOK, Guarded
\* outside the runs
<1>1. ASSUME Rest, Scalars', Guarded', Timely', members' \subseteq login',
             day' = day \/ (day' \in Nat /\ day' >= day), org'.there = org.there,
             \A u \in Users \ login : \A r \in Runs :
               u \in run[r].todo => u \notin login' /\ fence'[u] # "none"
      PROVE  TInv'
  <2>1. Calls' /\ Awake' /\ Follows'
    BY <1>1, RestKeeps
  <2>2. TypeOK'
    BY <1>1 DEF Rest, Guarded, TypeOK, Scalars, RunRow
  <2> QED BY <1>1, <2>1, <2>2 DEF TInv, Guarded
<1>2. ASSUME UNCHANGED identity
      PROVE  /\ Guarded' /\ login' = login
             /\ \A u \in Users \ login : \A r \in Runs :
                  u \in run[r].todo => u \notin login' /\ fence'[u] # "none"
  BY <1>0, <1>2 DEF identity, Guarded, IdentityOK, NoGhostLogin, Outlasts, Calls
<1>3. ASSUME NEW q \in Requests, Schedule(q) PROVE TInv'
  <2>1. UNCHANGED <<identity, day, members, run>>
    BY <1>3 DEF Schedule
  <2> QED BY <1>0, <1>1, <1>2, <1>3, <2>1, ScheduleIs, RestUnchanged
<1>4. ASSUME NEW q \in Requests, RequestStep(q) PROVE TInv'
  <2>1. UNCHANGED <<identity, day, members>>
    BY <1>4 DEF RequestStep, Dispatch, DispatchFails, Rollback, account
  <2> QED BY <1>0, <1>1, <1>2, <1>4, <2>1, RequestIs
<1>5. CASE Cancel
  <2>1. /\ UNCHANGED <<identity, day, members, rows, request, run, erased, teardown, reported>>
        /\ Cancelled /\ promised' = FALSE /\ rolledBack' = FALSE
    BY <1>5 DEF Cancel
  <2>2. Scalars' /\ org'.there = org.there
    BY <1>0, <2>1, CancelledIs DEF Scalars, TypeOK
  <2>3. Timely'
    BY <1>0, <2>1 DEF Timely
  <2> QED BY <1>0, <1>1, <1>2, <2>1, <2>2, <2>3, RestUnchanged
<1>6. CASE Changes
  <2>1. /\ rows' = rows + 1 /\ rows < MaxChanges
        /\ UNCHANGED <<identity, day, org, promised, rolledBack, request, run, erased, teardown, reported>>
        /\ members' \subseteq login
    BY <1>0, <1>6 DEF Changes
  <2>2. rows' \in 0..MaxChanges
    BY <1>0, <2>1, TimeAssumption DEF TypeOK
  <2>3. Scalars' /\ Timely'
    BY <1>0, <2>1, <2>2 DEF Scalars, TypeOK, Timely
  <2> QED BY <1>0, <1>1, <1>2, <2>1, <2>3, RestUnchanged
<1>7. CASE Tick
  <2>1. /\ day' = day + 1 /\ UNCHANGED <<identity, account, request, run, teardown, reported>>
        /\ \A q \in Requests : request[q] \in {"idle", "answered", "refused"}
    BY <1>7 DEF Tick
  <2>2. PICK r \in Runs : day < run[r].wake
    BY <1>7 DEF Tick
  <2>3. day \in Nat /\ run[r].wake \in 0..MaxDay
    BY <1>0 DEF TypeOK
  <2>4. day' \in 0..MaxDay /\ day' \in Nat /\ day' >= day
    BY <2>1, <2>2, <2>3, TimeAssumption
  <2>5. Scalars'
    BY <1>0, <2>1, <2>4 DEF Scalars, TypeOK, account
  <2>6. Timely'
    BY <2>1 DEF Timely
  <2> QED BY <1>0, <1>1, <1>2, <2>1, <2>4, <2>5, <2>6, RestUnchanged DEF account
<1>8. CASE Elsewhere
  <2>1. UNCHANGED <<day, account, request, run, teardown, reported>>
    BY <1>8 DEF Elsewhere
  <2>2. /\ Guarded' /\ login \subseteq login'
        /\ \A u \in Users \ login : \A r \in Runs :
             u \in run[r].todo => u \notin login' /\ fence'[u] # "none"
    BY <1>8, ElsewhereGuarded DEF Elsewhere
  <2>3. Scalars' /\ Timely'
    BY <1>0, <2>1 DEF Scalars, TypeOK, account, Timely
  <2> QED BY <1>0, <1>1, <2>1, <2>2, <2>3, RestUnchanged DEF account
<1>9. ASSUME NEW r \in Runs, RunStep(r) PROVE TInv'
  <2>1. Moves(r) /\ (run[r].at = "asleep" => day >= run[r].wake)
    BY <1>0, <1>9, StepMoves
  <2>2. /\ run'[r].at \in After => ~org'.there
        /\ run[r].at # "none"
        /\ run'[r].todo \subseteq run[r].todo \/ BeginClerk(r)
    BY <1>0, <1>9, StepMoves
  <2>3. Guarded' /\ Keeps /\ members' \subseteq login'
    BY <1>0, <1>9, StepGuarded
  <2>4. BeginClerk(r) => \A u \in run'[r].todo : u \notin login' /\ fence'[u] # "none"
    BY <1>0, <1>9, StepGuarded
  <2>5. Scalars' /\ day' = day /\ request' = request /\ (org'.there => org' = org)
    BY <1>9, RunStepIs
  <2>6. run' \in [Runs -> RunRow] /\ run \in [Runs -> RunRow]
    BY <1>0, <2>1 DEF Moves, TypeOK, RunRow
  <2>7. TypeOK'
    BY <2>3, <2>5, <2>6 DEF Guarded, TypeOK, Scalars, RunRow
  <2>8. Timely'
    BY <1>0, <2>5 DEF Timely
  <2>9. Awake'
    BY <1>0, <2>1, <2>2, <2>5 DEF Awake, Moves
  <2>10. Follows'
    BY <1>0, <2>1, <2>2, <2>5 DEF Follows, Moves
  <2>11. Calls'
    <3> SUFFICES ASSUME NEW q \in Runs
                 PROVE  /\ run'[q].todo # {} => run'[q].at = "calling"
                        /\ \A u \in run'[q].todo : u \notin login' /\ fence'[u] # "none"
      BY DEF Calls
    <3>1. \A u \in run[q].todo : u \in Users /\ u \notin login' /\ fence'[u] # "none"
      BY <1>0, <2>3, <2>6 DEF Calls, Keeps, RunRow
    <3>2. CASE q # r
      BY <1>0, <2>1, <3>1, <3>2 DEF Moves, Calls
    <3>3. CASE q = r
      BY <2>1, <2>2, <2>4, <3>1, <3>3 DEF Moves
    <3> QED BY <3>2, <3>3
  <2> QED BY <2>3, <2>7, <2>8, <2>9, <2>10, <2>11 DEF TInv, Guarded
<1>10. CASE UNCHANGED vars
  BY <1>0, <1>10 DEF vars, account, identity, TInv, TypeOK, IdentityOK, NoGhostLogin, Calls, Outlasts,
        Timely, Awake, Follows
<1> QED BY <1>3, <1>4, <1>5, <1>6, <1>7, <1>8, <1>9, <1>10 DEF Next

THEOREM InvHolds == Spec => []TInv
<1>1. Init => TInv
  BY InitTypes
<1>2. TInv /\ [Next]_vars => TInv'
  BY StepTypes
<1> QED BY <1>1, <1>2, PTL DEF Spec

\* The state of the model keeps its types; the members of the organization keep
\* their logins until the transaction erases both.
THEOREM TypeCorrect == Spec => []TypeOK
<1>1. TInv => TypeOK
  BY DEF TInv
<1> QED BY <1>1, InvHolds, PTL

\* No token signs up an erased Clerk user again: the fence that
\* reservePendingClerkErasuresTx raises is renewed before Clerk is called and
\* outlasts the tokens.
THEOREM NoGhosts == Spec => []NoGhostLogin
<1>1. TInv => NoGhostLogin
  BY DEF TInv
<1> QED BY <1>1, InvHolds, PTL

\* The database is erased by one transaction only, whose claim needs the stamp.
THEOREM CancellationWins == Spec => CancelWins
<1> DEFINE A == org.there /\ ~org'.there => org.stamp = "scheduled"
<1>1. TInv /\ [Next]_vars => [A]_vars
  <2> SUFFICES ASSUME TInv, Next, org.there, ~org'.there PROVE org.stamp = "scheduled"
    OBVIOUS
  <2>0. TypeOK
    BY DEF TInv
  <2>1. ASSUME NEW q \in Requests, Schedule(q) \/ RequestStep(q) PROVE FALSE
    BY <2>1, ScheduleIs, RequestIs
  <2>2. CASE Cancel
    BY <2>0, <2>2, CancelledIs DEF Cancel
  <2>3. CASE Changes \/ Tick \/ Elsewhere
    BY <2>3 DEF Changes, Tick, Elsewhere, account
  <2>4. ASSUME NEW r \in Runs, RunStep(r) PROVE org.stamp = "scheduled"
    <3>1. CASE Delete(r)
      BY <3>1 DEF Delete, account
    <3>2. CASE UNCHANGED org
      BY <3>2
    <3>3. CASE ~Delete(r)
      <4>1. UNCHANGED org
        BY <2>4, <3>3 DEF RunStep, Wake, Reads, Teardown, Reserve, BeginClerk, CallClerk, ClerkDone,
              Release, StepFails, Report, account
      <4> QED BY <4>1
    <3> QED BY <3>1, <3>3
  <2> QED BY <2>1, <2>2, <2>3, <2>4 DEF Next
<1> QED BY <1>1, InvHolds, PTL DEF Spec, CancelWins

\* Clerk is called about users whom the check found without a login, and who
\* have none until the calls are over.
THEOREM LoginsSpared == Spec => NoLiveLoginErased
<1> DEFINE A == (clerk \ clerk') \cap login = {}
<1>1. TInv /\ [Next]_vars => [A]_vars
  <2> SUFFICES ASSUME TInv, Next PROVE A
    OBVIOUS
  <2>0. TypeOK /\ Calls /\ Guarded
    BY DEF TInv, Guarded, TypeOK
  <2>1. CASE UNCHANGED clerk
    BY <2>1
  <2>2. ASSUME NEW r \in Runs, RunStep(r) PROVE A
    BY <2>0, <2>2, StepGuarded
  <2>3. ASSUME NEW q \in Requests, Schedule(q) \/ RequestStep(q) PROVE UNCHANGED clerk
    BY <2>3 DEF Schedule, RequestStep, Dispatch, DispatchFails, Rollback, identity
  <2>4. CASE Cancel \/ Changes \/ Tick
    BY <2>1, <2>4 DEF Cancel, Changes, Tick, identity
  <2>5. CASE Elsewhere
    BY <2>1, <2>5, ElsewhereGuarded DEF Elsewhere
  <2> QED BY <2>1, <2>2, <2>3, <2>4, <2>5 DEF Next
<1> QED BY <1>1, InvHolds, PTL DEF Spec, NoLiveLoginErased

----------------------------------------------------------------------------
(* Somebody carries out what was scheduled *)

Alive == \E r \in Runs : run[r].at \notin {"none", "over"}

Binding == promised /\ ~rolledBack

\* What the owner was told is so, and a run is there to make it come true, unless
\* a rollback took it back.
Promise == org.there /\ Binding => org.stamp = "scheduled" /\ (reported # {} \/ Alive)


LEMMA PromiseStep == TInv /\ Promise /\ [Next]_vars => Promise'
<1> SUFFICES ASSUME TInv, Promise, [Next]_vars, org'.there, Binding'
             PROVE  org'.stamp = "scheduled" /\ (reported' # {} \/ Alive')
  BY DEF Promise
<1>0. TypeOK /\ Calls /\ Follows /\ Awake /\ Timely
  BY DEF TInv
<1>1. ASSUME Rest PROVE Alive => Alive'
  BY <1>1 DEF Alive, Rest, Falls
<1>2. ASSUME NEW q \in Requests, Schedule(q)
      PROVE  org'.stamp = "scheduled" /\ (reported' # {} \/ Alive')
  <2>1. UNCHANGED <<promised, rolledBack, run, reported>> /\ org'.there = org.there
    BY <1>2, ScheduleIs DEF Schedule
  <2>2. org' = org \/ org'.stamp = "scheduled"
    BY <1>2, ScheduleIs
  <2> QED BY <2>1, <2>2 DEF Promise, Binding, Alive
<1>3. ASSUME NEW q \in Requests, Dispatch(q)
      PROVE  org'.stamp = "scheduled" /\ (reported' # {} \/ Alive')
  <2>1. org' = org /\ org.stamp = "scheduled" /\ Delivered /\ request[q] \in {"first", "again"}
    BY <1>0, <1>3, ToldIs DEF Dispatch, Binding
  <2>2. day + Grace <= MaxDay
    BY <1>0, <2>1 DEF Timely
  <2>3. \E r \in Runs : run'[r].at = "asleep"
    BY <1>0, <2>1, <2>2, DeliveredIs
  <2> QED BY <2>1, <2>3 DEF Alive
<1>4. ASSUME NEW q \in Requests, DispatchFails(q) \/ Rollback(q)
      PROVE  org'.stamp = "scheduled" /\ (reported' # {} \/ Alive')
  <2>1. Rest
    BY <1>4, RequestIs DEF RequestStep
  <2>2. reported' = reported
    BY <1>4 DEF DispatchFails, Rollback
  <2>3. Binding /\ org' = org
    BY <1>0, <1>4, RollbackIs DEF Binding
  <2> QED BY <1>1, <2>1, <2>2, <2>3 DEF Promise
<1>5. CASE Cancel
  BY <1>5 DEF Cancel, Binding
<1>6. CASE Changes \/ Tick \/ Elsewhere \/ UNCHANGED vars
  <2>1. UNCHANGED <<org, promised, rolledBack, run, reported>>
    BY <1>6 DEF Changes, Tick, Elsewhere, vars, account
  <2> QED BY <2>1 DEF Promise, Binding, Alive
<1>7. ASSUME NEW r \in Runs, RunStep(r)
      PROVE  org'.stamp = "scheduled" /\ (reported' # {} \/ Alive')
  <2>1. Binding /\ org' = org /\ org.stamp = "scheduled" /\ (reported # {} \/ Alive)
    BY <1>7, RunStepIs DEF Promise, Binding
  <2>2. Moves(r) /\ (run'[r].at = "over" => ~org.there \/ org.stamp # "scheduled" \/ Report(r))
    BY <1>0, <1>7, StepMoves
  <2>3. CASE Report(r)
    BY <2>1, <2>3 DEF Report
  <2>4. CASE run'[r].at # "over"
    BY <2>1, <2>2, <2>4 DEF Moves, Alive
  <2> QED BY <2>1, <2>2, <2>3, <2>4
<1> QED BY <1>2, <1>3, <1>4, <1>5, <1>6, <1>7 DEF Next, RequestStep

\* A deletion the owner was told of is stamped and has a run: an event is
\* dropped for a run that still sleeps only, since the events of a day are
\* compared and a run sleeps longer, and a run ends in vain only if the
\* deletion was cancelled, the organization is gone or the failure is reported.
\* Of what cancels, the rollback of another request alone breaks the promise.
THEOREM PromiseKept == Spec => []ScheduleKept
<1>1. Init => Promise
  BY DEF Init, Promise, Binding
<1>2. TInv /\ Promise /\ [Next]_vars => Promise'
  BY PromiseStep
<1>3. Promise => ScheduleKept
  BY DEF Promise, Binding, ScheduleKept, Ended, Alive
<1> QED BY <1>1, <1>2, <1>3, InvHolds, PTL DEF Spec

----------------------------------------------------------------------------
(* Somebody carries through what was erased *)

\* How far a run is with what the database erased
Carries(r) ==
  \/ run[r].at = "failing"
  \/ run[r].at \in {"delete", "teardown"} /\ run[r].snapshot = erased
  \/ run[r].at \in {"reserve", "clerk"} /\ run[r].snapshot = erased /\ erased.rows \in teardown
  \/ /\ run[r].at = "calling" /\ run[r].snapshot = erased /\ erased.rows \in teardown
     /\ erased.users \cap clerk \subseteq run[r].todo
  \/ run[r].at \in {"release", "over"} /\ erased.users \cap clerk = {} /\ erased.rows \in teardown

Carried ==
  ~org.there => erased.rows # NoRows /\ (reported # {} \/ \E r \in Runs : Carries(r))

\* Steps of others leave that as it is.
LEMMA CarriesStays ==
  ASSUME NEW r \in Runs, Carries(r), run'[r] = run[r], erased' = erased,
         teardown \subseteq teardown', clerk' \subseteq clerk
  PROVE  Carries(r)'
BY DEF Carries

\* So does a step that has to be executed again.
LEMMA CarriesAgain ==
  ASSUME TypeOK, NEW r \in Runs, Carries(r), run[r].at \in Steps, run'[r] = Again(r),
         erased' = erased, teardown \subseteq teardown', clerk' = clerk
  PROVE  Carries(r)'
<1>1. CASE Again(r).at = "failing"
  BY <1>1 DEF Carries
<1>2. CASE /\ Again(r).at = IF run[r].at = "calling" THEN "clerk" ELSE run[r].at
           /\ Again(r).snapshot = run[r].snapshot
  <2>1. CASE run[r].at = "calling"
    BY <1>2, <2>1 DEF Carries
  <2>2. CASE run[r].at # "calling"
    BY <1>2, <2>2 DEF Carries
  <2> QED BY <2>1, <2>2
<1> QED BY <1>1, <1>2, AgainIs

\* A step that returns takes it further.
LEMMA CarriesOn ==
  ASSUME TInv, ~org.there, erased.rows # NoRows, NEW r \in Runs, Carries(r), RunStep(r)
  PROVE  Carries(r)' \/ reported' # {}
<1>0. TypeOK /\ Calls /\ erased \in Snapshot
  BY DEF TInv, TypeOK
<1> USE DEF At
<1>1. ASSUME run[r].at \in Steps, NEW p \in Places, p \notin {"none", "asleep"},
             run[r].at # "calling" \/ run[r].todo = {}, Returns(r, GoesTo(r, p)),
             erased' = erased, teardown \subseteq teardown', clerk' = clerk
      PROVE  \/ Carries(r)'
             \/ run'[r].at = p /\ (p # "over" => run'[r].snapshot = run[r].snapshot)
  BY <1>0, <1>1, PlaceMoves, CarriesAgain
<1>2. CASE StepFails(r)
  <2>1. /\ run[r].at \in Steps /\ run' = [run EXCEPT ![r] = Again(r)]
        /\ UNCHANGED <<erased, teardown, clerk>>
    BY <1>2 DEF StepFails, account, identity
  <2>2. run'[r] = Again(r)
    BY <1>0, <2>1, AgainMoves
  <2> QED BY <1>0, <2>1, <2>2, CarriesAgain
<1>3. CASE Report(r)
  BY <1>3 DEF Report
<1>4. CASE Delete(r)
  <2>1. /\ run[r].at = "delete" /\ run[r].snapshot = erased
        /\ UNCHANGED <<erased, teardown, clerk>> /\ Returns(r, GoesTo(r, "teardown"))
    BY <1>4 DEF Delete, Carries, account, identity, Returns
  <2>2. Carries(r)' \/ (run'[r].at = "teardown" /\ run'[r].snapshot = erased)
    BY <1>1, <2>1 DEF Places, Steps
  <2> QED BY <2>1, <2>2 DEF Carries
<1>5. CASE Teardown(r)
  <2> DEFINE p == IF run[r].snapshot.users = {} THEN "over" ELSE "reserve"
  <2>1. /\ run[r].at = "teardown" /\ run[r].snapshot = erased
        /\ UNCHANGED <<erased, clerk>> /\ Returns(r, GoesTo(r, p))
        /\ teardown' = teardown \cup ({run[r].snapshot.rows} \ {NoRows})
    BY <1>5 DEF Teardown, Carries, account, identity
  <2>2. erased.rows \in teardown' /\ teardown \subseteq teardown'
    BY <2>1
  <2>3. p \in Places /\ p \notin {"none", "asleep"} /\ (p = "over" => erased.users = {})
        /\ p \in {"over", "reserve"}
    BY <2>1 DEF Places, Steps
  <2> HIDE DEF p
  <2>4. Carries(r)' \/ (run'[r].at = p /\ (p # "over" => run'[r].snapshot = erased))
    BY <1>1, <2>1, <2>2, <2>3 DEF Steps
  <2> QED BY <2>1, <2>2, <2>3, <2>4 DEF Carries
<1>6. CASE Reserve(r)
  <2>1. /\ run[r].at = "reserve" /\ run[r].snapshot = erased /\ erased.rows \in teardown
        /\ UNCHANGED <<erased, teardown, clerk>>
    BY <1>6 DEF Reserve, Ensure, Carries, account, identity
  <2>2. ASSUME NEW p \in {"failing", "clerk"}, Returns(r, GoesTo(r, p)) PROVE Carries(r)'
    <3>1. Carries(r)' \/ (run'[r].at = p /\ run'[r].snapshot = erased)
      BY <1>1, <2>1, <2>2 DEF Places, Steps
    <3> QED BY <2>1, <2>2, <3>1 DEF Carries
  <2> QED BY <1>6, <2>2 DEF Reserve, Ensure, Returns
<1>7. CASE BeginClerk(r)
  <2>1. /\ run[r].at = "clerk" /\ run[r].snapshot = erased /\ erased.rows \in teardown
        /\ UNCHANGED <<erased, teardown, clerk>>
    BY <1>7 DEF BeginClerk, Carries, account, identity
  <2>2. CASE Kept(r, GoesTo(r, "failing"))
    <3>1. Carries(r)' \/ run'[r].at = "failing"
      BY <1>1, <2>1, <2>2 DEF Places, Steps, Returns
    <3> QED BY <3>1 DEF Carries
  <2>3. CASE run' = [run EXCEPT ![r].at = "calling", ![r].todo = run[r].snapshot.users]
    <3>1. run[r].snapshot.users \in SUBSET Users
      BY <1>0 DEF TypeOK, Snapshot
    <3>2. run'[r].at = "calling" /\ run'[r].todo = erased.users /\ run'[r].snapshot = erased
      BY <1>0, <2>1, <2>3, <3>1, BeginMoves
    <3> QED BY <2>1, <3>2 DEF Carries
  <2> QED BY <1>7, <2>2, <2>3 DEF BeginClerk
<1>8. CASE CallClerk(r)
  <2>1. /\ run[r].at = "calling" /\ run[r].snapshot = erased /\ erased.rows \in teardown
        /\ UNCHANGED <<erased, teardown>> /\ erased.users \cap clerk \subseteq run[r].todo
    BY <1>8 DEF CallClerk, Carries, account
  <2>2. PICK u \in run[r].todo : EraseUser(u) /\ run' = [run EXCEPT ![r].todo = @ \ {u}]
    BY <1>8 DEF CallClerk
  <2>3. run'[r].at = "calling" /\ run'[r].todo = run[r].todo \ {u} /\ run'[r].snapshot = erased
    BY <1>0, <2>1, <2>2, CallMoves
  <2>4. clerk' = clerk \ {u}
    BY <2>2 DEF EraseUser
  <2> QED BY <2>1, <2>3, <2>4 DEF Carries
<1>9. CASE ClerkDone(r)
  <2>1. /\ run[r].at = "calling" /\ run[r].todo = {} /\ erased.rows \in teardown
        /\ UNCHANGED <<erased, teardown, clerk>> /\ erased.users \cap clerk = {}
        /\ Returns(r, GoesTo(r, "release"))
    BY <1>9 DEF ClerkDone, Carries, account, identity, Returns
  <2>2. Carries(r)' \/ run'[r].at = "release"
    BY <1>1, <2>1 DEF Places, Steps
  <2> QED BY <2>1, <2>2 DEF Carries
<1>10. CASE Release(r)
  <2>1. /\ run[r].at = "release" /\ erased.rows \in teardown
        /\ UNCHANGED <<erased, teardown, clerk>> /\ erased.users \cap clerk = {}
        /\ Returns(r, GoesTo(r, "over"))
    BY <1>10 DEF Release, Carries, account
  <2>2. Carries(r)' \/ run'[r].at = "over"
    BY <1>1, <2>1 DEF Places, Steps
  <2> QED BY <2>1, <2>2 DEF Carries
<1>11. CASE Wake(r) \/ Reads(r)
  <2>1. run[r].at \in {"asleep", "exists", "cancelled", "capture", "recapture"}
    BY <1>11 DEF Wake, Reads
  <2> QED BY <2>1 DEF Carries
<1> QED BY <1>2, <1>3, <1>4, <1>5, <1>6, <1>7, <1>8, <1>9, <1>10, <1>11 DEF RunStep

\* The transaction's run names what it has erased, whether or not its receipt
\* comes back.
LEMMA EraseCarried ==
  ASSUME TInv, NEW r \in Runs, Delete(r), org.there, ~org'.there
  PROVE  erased'.rows # NoRows /\ Carries(r)'
<1>0. TypeOK /\ Calls
  BY DEF TInv
<1>1. /\ run[r].at = "delete" /\ run[r].snapshot = Current /\ erased' = Current
      /\ Returns(r, GoesTo(r, "teardown"))
  BY DEF Delete, At, Erase, account
<1>2. /\ Moves(r) /\ run'[r].todo = {}
      /\ \/ run'[r].at = "teardown" /\ run'[r].snapshot = run[r].snapshot
         \/ run'[r] = Again(r)
  BY <1>0, <1>1, PlaceMoves DEF Places, Steps
<1>3. erased'.rows # NoRows
  BY <1>0, <1>1, CurrentIs, TimeAssumption, NoRowsAssumption DEF TypeOK
<1>4. CASE run'[r] = Again(r)
  <2>1. \/ run'[r].at = "failing"
        \/ run'[r].at = "delete" /\ run'[r].snapshot = run[r].snapshot
    BY <1>0, <1>1, <1>4, AgainIs
  <2>2. run[r].snapshot = erased'
    BY <1>1
  <2> QED BY <1>3, <2>1, <2>2 DEF Carries
<1> QED BY <1>1, <1>2, <1>3, <1>4 DEF Carries

LEMMA CarriedStep == TInv /\ Carried /\ [Next]_vars => Carried'
<1> SUFFICES ASSUME TInv, Carried, [Next]_vars, ~org'.there
             PROVE  erased'.rows # NoRows /\ (reported' # {} \/ \E r \in Runs : Carries(r)')
  BY DEF Carried
<1>0. TypeOK /\ Calls /\ Follows /\ Guarded
  BY DEF TInv, TypeOK, Guarded
\* what others do
<1>1. ASSUME UNCHANGED <<erased, reported, teardown>>, clerk' \subseteq clerk, org'.there = org.there,
             \A r \in Runs : Carries(r) => run'[r] = run[r]
      PROVE  erased'.rows # NoRows /\ (reported' # {} \/ \E r \in Runs : Carries(r)')
  <2>1. erased.rows # NoRows /\ (reported # {} \/ \E r \in Runs : Carries(r))
    BY <1>1 DEF Carried
  <2> QED BY <1>1, <2>1, CarriesStays
<1>2. ASSUME Rest PROVE \A r \in Runs : Carries(r) => run'[r] = run[r]
  BY <1>2 DEF Rest, Falls, Carries
<1>3. ASSUME NEW q \in Requests, Schedule(q) \/ RequestStep(q)
      PROVE  erased'.rows # NoRows /\ (reported' # {} \/ \E r \in Runs : Carries(r)')
  <2>1. UNCHANGED <<erased, reported, teardown>> /\ clerk' = clerk
    BY <1>3 DEF Schedule, RequestStep, Dispatch, DispatchFails, Rollback, identity, account
  <2>2. org'.there = org.there
    BY <1>3, ScheduleIs, RequestIs
  <2>3. Rest
    BY <1>0, <1>3, RequestIs, RestUnchanged DEF Schedule
  <2> QED BY <1>1, <1>2, <2>1, <2>2, <2>3
<1>4. CASE Cancel
  <2>1. UNCHANGED <<erased, reported, teardown, run>> /\ clerk' = clerk /\ org'.there = org.there
    BY <1>0, <1>4, CancelledIs DEF Cancel, identity
  <2> QED BY <1>1, <2>1
<1>5. CASE Changes \/ Tick \/ UNCHANGED vars
  <2>1. UNCHANGED <<erased, reported, teardown, run, org>> /\ clerk' = clerk
    BY <1>5 DEF Changes, Tick, vars, identity, account
  <2> QED BY <1>1, <2>1
<1>6. CASE Elsewhere
  <2>1. UNCHANGED <<erased, reported, teardown, run, org>> /\ clerk' = clerk
    BY <1>6, ElsewhereGuarded DEF Elsewhere, account
  <2> QED BY <1>1, <2>1
<1>7. ASSUME NEW q \in Runs, RunStep(q)
      PROVE  erased'.rows # NoRows /\ (reported' # {} \/ \E r \in Runs : Carries(r)')
  <2>1. Moves(q)
    BY <1>0, <1>7, StepMoves
  <2>2. CASE org.there
    <3>1. Delete(q)
      <4>1. CASE UNCHANGED org
        BY <2>2, <4>1
      <4>2. Delete(q) \/ UNCHANGED org
        BY <1>7 DEF RunStep, Wake, Reads, Teardown, Reserve, BeginClerk, CallClerk, ClerkDone,
              Release, StepFails, Report, account
      <4> QED BY <4>1, <4>2
    <3> QED BY <2>2, <3>1, EraseCarried
  <2>3. CASE ~org.there
    <3>1. erased.rows # NoRows /\ (reported # {} \/ \E r \in Runs : Carries(r))
      BY <2>3 DEF Carried
    <3>2. /\ erased' = erased /\ teardown \subseteq teardown' /\ clerk' \subseteq clerk
          /\ (reported # {} => reported' # {})
      <4>1. CASE CallClerk(q)
        BY <4>1 DEF CallClerk, EraseUser, account
      <4>2. CASE ~CallClerk(q)
        BY <1>7, <2>3, <4>2 DEF RunStep, Wake, Reads, Delete, Teardown, Reserve, Ensure, BeginClerk,
              ClerkDone, Release, StepFails, Report, account, identity
      <4> QED BY <4>1, <4>2
    <3>3. ASSUME NEW r \in Runs, Carries(r) PROVE Carries(r)' \/ reported' # {}
      <4>1. CASE r = q
        BY <1>7, <2>3, <3>1, <3>3, <4>1, CarriesOn
      <4>2. CASE r # q
        BY <2>1, <3>2, <3>3, <4>2, CarriesStays DEF Moves
      <4> QED BY <4>1, <4>2
    <3> QED BY <3>1, <3>2, <3>3
  <2> QED BY <2>2, <2>3
<1> QED BY <1>3, <1>4, <1>5, <1>6, <1>7 DEF Next

\* What the database erased is erased at Clerk and in the stores, or the failure
\* is reported: the run whose transaction it was keeps the snapshot the
\* transaction compared, through lost receipts and steps executed again.
THEOREM ErasureCarried == Spec => []ErasureFollows
<1>1. Init => Carried
  BY DEF Init, Carried
<1>2. TInv /\ Carried /\ [Next]_vars => Carried'
  BY CarriedStep
<1>3. Carried => ErasureFollows
  BY DEF Carried, Carries, ErasureFollows, Ended
<1> QED BY <1>1, <1>2, <1>3, InvHolds, PTL DEF Spec

----------------------------------------------------------------------------
(* DurableErasure is implemented *)

\* The users of the account, or those it had
Own == IF org.there THEN members ELSE erased.users

\* Runs know of no others, and nobody is owed anything before the erasure.
Scoped ==
  /\ \A r \in Runs : run[r].snapshot.users \subseteq Own /\ run[r].todo \subseteq Own
  /\ org.there => erased.users = {}

LEMMA InitScoped == Init => Scoped
BY DEF Init, Scoped, Own, NotStarted, Nothing

\* Steps of others start runs that know of nobody, and the account only gains users.
LEMMA RestScoped ==
  ASSUME Scoped, Rest, org'.there = org.there, erased' = erased, members \subseteq members'
  PROVE  Scoped'
<1>1. Own \subseteq Own'
  BY DEF Own
<1>2. org'.there => erased'.users = {}
  BY DEF Scoped
<1> SUFFICES ASSUME NEW r \in Runs
             PROVE  run'[r].snapshot.users \subseteq Own' /\ run'[r].todo \subseteq Own'
  BY <1>2 DEF Scoped
<1>3. CASE run'[r] = run[r]
  BY <1>1, <1>3 DEF Scoped
<1>4. CASE Falls(r)
  BY <1>4 DEF Falls, Nothing
<1> QED BY <1>3, <1>4 DEF Rest

\* What a run's step does to the account
LEMMA AccountMoves ==
  ASSUME TInv, NEW r \in Runs, RunStep(r)
  PROVE  \/ UNCHANGED account
         \/ /\ Delete(r) /\ Erase /\ org.there /\ org.stamp = "scheduled"
            /\ org' = [org EXCEPT !.there = FALSE] /\ ~org'.there /\ erased' = Current
            /\ Current.users = members
<1>1. TypeOK
  BY DEF TInv
<1>2. CASE Erase /\ Delete(r) /\ org.there /\ org.stamp = "scheduled"
  <2>1. org' = [org EXCEPT !.there = FALSE] /\ erased' = Current
    BY <1>2 DEF Erase
  <2>2. ~org'.there
    BY <1>1, <2>1 DEF TypeOK
  <2> QED BY <1>1, <1>2, <2>1, <2>2, CurrentIs
<1>3. CASE Delete(r)
  BY <1>2, <1>3 DEF Delete
<1>4. CASE ~Delete(r)
  BY <1>4 DEF RunStep, Wake, Reads, Teardown, Reserve, BeginClerk, CallClerk, ClerkDone,
        Release, StepFails, Report
<1> QED BY <1>3, <1>4

LEMMA ScopedStep == TInv /\ Scoped /\ [Next]_vars => Scoped'
<1> SUFFICES ASSUME TInv, Scoped, [Next]_vars PROVE Scoped'
  OBVIOUS
<1>0. TypeOK /\ Calls /\ Follows
  BY DEF TInv
<1>1. ASSUME NEW q \in Requests, Schedule(q) \/ RequestStep(q) PROVE Scoped'
  <2>1. erased' = erased /\ members' = members
    BY <1>1 DEF Schedule, RequestStep, Dispatch, DispatchFails, Rollback, account
  <2>2. org'.there = org.there /\ Rest
    BY <1>0, <1>1, ScheduleIs, RequestIs, RestUnchanged DEF Schedule
  <2> QED BY <2>1, <2>2, RestScoped
<1>2. CASE Cancel
  <2>1. UNCHANGED <<erased, members, run>> /\ org'.there = org.there
    BY <1>0, <1>2, CancelledIs DEF Cancel
  <2> QED BY <1>0, <2>1, RestScoped, RestUnchanged
<1>3. CASE Changes \/ Tick \/ Elsewhere \/ UNCHANGED vars
  <2>1. UNCHANGED <<erased, org, run>> /\ members \subseteq members'
    BY <1>3 DEF Changes, Tick, Elsewhere, vars, account
  <2> QED BY <1>0, <2>1, RestScoped, RestUnchanged
<1>4. ASSUME NEW r \in Runs, RunStep(r) PROVE Scoped'
  <2>1. /\ \A q \in Runs : q # r => run'[q] = run[q]
        /\ Narrows(r) /\ run'[r].todo \subseteq run[r].todo \cup run[r].snapshot.users
    BY <1>0, <1>4, StepMoves DEF Moves
  <2>2. Current.users \subseteq Own
    BY <1>0, CurrentIs DEF Current, Own, Nothing
  <2>3. Own' = Own /\ (org'.there => erased'.users = {})
    <3>1. CASE UNCHANGED account
      BY <3>1 DEF account, Own, Scoped
    <3>2. CASE org.there /\ ~org'.there /\ erased' = Current /\ Current.users = members
      BY <3>2 DEF Own
    <3> QED BY <1>4, <3>1, <3>2, AccountMoves
  <2>4. run'[r].snapshot.users \subseteq Own' /\ run'[r].todo \subseteq Own'
    BY <2>1, <2>2, <2>3 DEF Scoped, Narrows
  <2>5. ASSUME NEW q \in Runs, q # r
        PROVE  run'[q].snapshot.users \subseteq Own' /\ run'[q].todo \subseteq Own'
    BY <2>1, <2>3, <2>5 DEF Scoped
  <2> QED BY <2>3, <2>4, <2>5 DEF Scoped
<1> QED BY <1>1, <1>2, <1>3, <1>4 DEF Next

\* What is promised and owed has somebody at work on it, in every state.
Answers == TInv /\ Scoped /\ Promise /\ Carried

LEMMA AnswersStep == Answers /\ [Next]_vars => Answers'
BY StepTypes, ScopedStep, PromiseStep, CarriedStep DEF Answers

LEMMA AnswersHold == Spec => []Answers
<1>1. Init => Answers
  BY InitTypes, InitScoped DEF Init, Answers, Promise, Binding, Carried
<1> QED BY <1>1, AnswersStep, PTL DEF Spec

LEMMA Answered == Answers => Promises!Answerable
<1> SUFFICES ASSUME Answers PROVE Promises!Answerable
  OBVIOUS
<1>1. org.there /\ promised /\ ~rolledBack => org.stamp = "scheduled" /\ (~Ended \/ reported # {})
  BY DEF Answers, Promise, Binding, Alive, Ended
<1>2. erased.users \cap clerk # {} => ~Ended \/ reported # {}
  <2>1. org.there => erased.users = {}
    BY DEF Answers, Scoped
  <2>2. ~org.there => ErasureFollows
    BY DEF Answers, Carried, Carries, ErasureFollows, Ended
  <2> QED BY <2>1, <2>2 DEF ErasureFollows
<1> QED BY <1>1, <1>2 DEF Promises!Answerable

\* What a step of the implementation is to the account.
Kind ==
  \/ Promises!Order \/ Promises!Promise \/ Promises!TakeBack \/ Promises!Hide \/ Promises!Erase
  \/ \E u \in Users : Promises!Follow(u) \/ Promises!Return(u)
  \/ UNCHANGED Promises!account

LEMMA KindOfStep ==
  ASSUME Answers, Answers', [Next]_vars
  PROVE  Kind
<1>0. TInv /\ TypeOK /\ Calls /\ Scoped /\ Promise
  BY DEF Answers, TInv
\* the promise on a row that keeps its stamp
<1>1. ASSUME UNCHANGED <<org, promised, rolledBack, erased, clerk, login>> PROVE Kind
  BY <1>1 DEF Kind, Promises!account
<1>2. ASSUME NEW q \in Requests, Schedule(q) PROVE Kind
  <2>1. UNCHANGED <<promised, rolledBack, erased, clerk, login>> /\ org'.there = org.there /\ org.there
        /\ (org' = org \/ org'.stamp = "scheduled")
    BY <1>0, <1>2, ScheduleIs DEF Schedule, identity
  <2>2. CASE org'.stamp = "scheduled"
    BY <2>1, <2>2 DEF Kind, Promises!Order
  <2> QED BY <1>1, <2>1, <2>2
<1>3. ASSUME NEW q \in Requests, Dispatch(q) PROVE Kind
  <2>1. UNCHANGED <<org, erased, clerk, login>> /\ Told
    BY <1>3 DEF Dispatch, identity
  <2>2. CASE org.there /\ org.stamp = "scheduled"
    BY <1>0, <2>1, <2>2, ToldIs DEF Kind, Promises!Promise
  <2>3. CASE ~(org.there /\ org.stamp = "scheduled")
    <3>1. ~(org.there /\ Binding) /\ ~(org'.there /\ promised' /\ ~rolledBack')
      BY <1>0, <2>1, <2>3, ToldIs DEF Promise
    <3> QED BY <2>1, <3>1 DEF Kind, Promises!account, Binding
  <2> QED BY <2>2, <2>3
<1>4. ASSUME org'.there = org.there, org.there, org'.stamp = "cancelled", ~(promised' /\ ~rolledBack'),
             UNCHANGED <<erased, clerk, login>>
      PROVE  Kind
  BY <1>4 DEF Kind, Promises!TakeBack
<1>5. ASSUME NEW q \in Requests, DispatchFails(q) \/ Rollback(q) PROVE Kind
  <2>1. UNCHANGED <<erased, clerk, login>>
    BY <1>5 DEF DispatchFails, Rollback, identity, account
  <2>2. CASE UNCHANGED <<org, promised, rolledBack>>
    BY <1>1, <2>1, <2>2
  <2>3. CASE rolledBack' = TRUE /\ org.there /\ org'.there = org.there /\ org'.stamp = "cancelled"
    BY <1>4, <2>1, <2>3
  <2> QED BY <1>0, <1>5, <2>2, <2>3, RollbackIs
<1>6. CASE Cancel
  <2>1. UNCHANGED <<erased, clerk, login>> /\ org.there /\ promised' = FALSE /\ rolledBack' = FALSE
    BY <1>6 DEF Cancel, identity
  <2>2. CASE org' = org /\ org.stamp # "scheduled"
    <3>1. ~Binding
      BY <1>0, <2>1, <2>2 DEF Promise
    <3> QED BY <2>1, <2>2, <3>1 DEF Kind, Promises!account, Binding
  <2>3. CASE org'.stamp = "cancelled" /\ org'.there = org.there
    BY <1>4, <2>1, <2>3
  <2> QED BY <1>0, <1>6, <2>1, <2>2, <2>3, CancelledIs DEF Cancel, Cancelled
<1>7. CASE Changes \/ Tick \/ UNCHANGED vars
  BY <1>1, <1>7 DEF Changes, Tick, vars, identity, account
<1>8. CASE Elsewhere
  <2>1. UNCHANGED <<org, promised, rolledBack, erased>>
    BY <1>8 DEF Elsewhere, account
  <2>2. PICK u \in Users : SignUp(u) \/ TokenExpires(u) \/ FenceElapses(u, Busy)
    BY <1>8 DEF Elsewhere
  <2>3. CASE SignUp(u)
    <3>1. login' = login \cup {u} /\ clerk' = clerk /\ login' \subseteq clerk'
      BY <2>3 DEF SignUp, Answers, TInv, NoGhostLogin
    <3> QED BY <2>1, <3>1 DEF Kind, Promises!Return
  <2>4. CASE TokenExpires(u) \/ FenceElapses(u, Busy)
    BY <1>1, <2>1, <2>4 DEF TokenExpires, FenceElapses
  <2> QED BY <2>2, <2>3, <2>4
<1>9. ASSUME NEW r \in Runs, RunStep(r) PROVE Kind
  <2>1. CASE /\ Delete(r) /\ Erase /\ org.there /\ org.stamp = "scheduled"
             /\ org' = [org EXCEPT !.there = FALSE] /\ ~org'.there /\ erased' = Current
             /\ Current.users = members
    <3>1. org'.stamp = org.stamp /\ members \subseteq login
      BY <1>0, <2>1 DEF TypeOK
    <3>2. clerk' = clerk /\ login' = login \ members
      BY <2>1 DEF Erase
    <3>3. erased'.users = members
      BY <2>1
    <3> QED BY <2>1, <3>1, <3>2, <3>3 DEF Kind, Promises!Erase
  <2>2. CASE CallClerk(r)
    <3>1. PICK u \in run[r].todo : EraseUser(u)
      BY <2>2 DEF CallClerk
    <3>2. u \in Users /\ u \notin login /\ ~org.there
      <4>1. run[r].at = "calling"
        BY <2>2 DEF CallClerk, At
      <4> QED BY <1>0, <4>1 DEF TInv, Calls, TypeOK, Follows, After
    <3>3. u \in erased.users
      BY <1>0, <3>2 DEF Scoped, Own
    <3>4. clerk' = clerk \ {u} /\ UNCHANGED <<login, org, promised, rolledBack, erased>>
      BY <2>2, <3>1 DEF EraseUser, CallClerk, account
    <3> QED BY <3>2, <3>3, <3>4 DEF Kind, Promises!Follow
  <2>3. CASE UNCHANGED account /\ ~CallClerk(r)
    <3>1. UNCHANGED <<clerk, login>>
      <4>1. CASE Delete(r)
        BY <1>0, <2>3, <4>1 DEF Delete, Erase, account, identity, TypeOK
      <4>2. CASE ~Delete(r)
        BY <1>9, <2>3, <4>2 DEF RunStep, Wake, Reads, Teardown, Reserve, Ensure, BeginClerk,
              ClerkDone, Release, StepFails, Report, identity
      <4> QED BY <4>1, <4>2
    <3> QED BY <1>1, <2>3, <3>1 DEF account
  <2> QED BY <1>0, <1>9, <2>1, <2>2, <2>3, AccountMoves
<1> QED BY <1>2, <1>3, <1>5, <1>6, <1>7, <1>8, <1>9 DEF Next, RequestStep

\* A report is not taken back.
LEMMA ReportsStay ==
  ASSUME [Next]_vars
  PROVE  reported \subseteq reported'
BY DEF Next, Schedule, RequestStep, Dispatch, DispatchFails, Rollback, Cancel, Changes, Tick, Elsewhere,
    RunStep, Wake, Reads, Delete, Teardown, Reserve, BeginClerk, CallClerk, ClerkDone, Release,
    StepFails, Report, vars

\* Route, durable function and transaction together implement what
\* DurableErasure promises: they erase under a standing order only, no promise
\* lapses in silence, and Clerk forgets the users of the account and no others.
THEOREM KeepsPromise == Spec => ImplementsDurableErasure
<1>1. Init => Promises!Init
  <2> SUFFICES ASSUME Init PROVE Promises!Init
    OBVIOUS
  <2>1. Ended /\ org.there = TRUE /\ org.stamp = "none" /\ erased.users = {} /\ reported = {}
    BY DEF Init, Ended, NotStarted, Nothing
  <2>2. (org.stamp = "scheduled") = FALSE /\ (org.there /\ promised /\ ~rolledBack) = FALSE /\ (~Ended) = FALSE
        /\ (reported # {}) = FALSE
    BY <2>1 DEF Init
  <2> QED BY <2>1, <2>2 DEF Init, IdentityInit, Promises!Init
<1>2. Answers /\ Answers' /\ [Next]_vars => [Promises!Next]_(Promises!vars)
  <2> SUFFICES ASSUME Answers, Answers', [Next]_vars PROVE Promises!Next
    OBVIOUS
  <2>1. Kind
    BY KindOfStep
  <2>2. (~Ended)' \in BOOLEAN /\ (reported # {})' \in BOOLEAN
    OBVIOUS
  <2>3. reported # {} => (reported # {})'
    BY ReportsStay
  <2>4. Promises!Answerable'
    BY Answered, PTL
  <2> QED BY <2>1, <2>2, <2>3, <2>4 DEF Kind, Promises!Next
<1> QED BY <1>1, <1>2, AnswersHold, PTL DEF Spec, ImplementsDurableErasure, Promises!Spec
=============================================================================
