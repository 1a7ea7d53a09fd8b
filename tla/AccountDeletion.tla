--------------------------- MODULE AccountDeletion ---------------------------
(* Deleting an account: the owner's requests (routes/account.ts), the stamps   *)
(* on the organization and the transaction that erases it                      *)
(* (identity-v2/deletion-v2.ts), and the durable function that sleeps through  *)
(* the grace period and then erases the database, the store subscriptions and  *)
(* the Clerk users, in that order (inngest/functions/account-deletion.ts).     *)
(*                                                                             *)
(* A step of a run is executed at least once: it may fail, or take effect and  *)
(* lose its receipt, and is then executed again with what earlier steps        *)
(* returned; when its retries are exhausted onFailure reports the run. The     *)
(* stamps alternate (GREATEST), so the later one is all that is kept of them.  *)
EXTENDS ClerkFence

CONSTANTS
  Owner,
  Requests,    \* POST /account/delete
  Runs,
  Grace,       \* days of the grace period
  Window,      \* days in which an event of the same account is dropped
  MaxDay,      \* bound: the last day
  Retries,     \* retries of a step
  MaxChanges,  \* bound: changes of what a snapshot holds
  NoRows       \* the store targets of an organization that is gone

ASSUME OwnerAssumption == Owner \in Users
ASSUME TimeAssumption ==
  Grace \in Nat \ {0} /\ Window \in 0..Grace /\ MaxDay \in Nat /\ Retries \in Nat /\ MaxChanges \in Nat
ASSUME NoRowsAssumption == NoRows \notin Nat

VARIABLES
  day,
  org,       \* the organization row: there or not, its later stamp, its grace period's end
  promised,  \* the owner was told "Deletion scheduled", and has not cancelled since
  rolledBack,\* a rollback cancelled a schedule, and the owner has not cancelled or been
             \* told of one that stands since
  members,   \* users whose login belongs to a member
  rows,      \* version of what else a snapshot names: persons, emails, subscriptions
  request,   \* request -> where it is
  run,       \* run -> its step, memoized receipts and failed tries
  erased,    \* what the database erased
  teardown,  \* versions of subscriptions whose store teardown was requested
  reported   \* runs that failed for good

account == <<org, promised, rolledBack, members, rows, erased>>
vars == <<identity, day, account, request, run, teardown, reported>>

----------------------------------------------------------------------------

Stamps == {"none", "scheduled", "cancelled"}
RequestStates == {"idle", "first", "again", "rollback", "answered", "refused"}
Snapshot == [there : BOOLEAN, users : SUBSET Users, rows : Nat \cup {NoRows}]
Steps == {"exists", "cancelled", "capture", "delete", "recapture",
          "teardown", "reserve", "clerk", "calling", "release"}
Places == {"none", "asleep", "failing", "over"} \cup Steps

Nothing == [there |-> FALSE, users |-> {}, rows |-> NoRows]
\* getOrganizationErasureSnapshotV2
Current == IF org.there THEN [there |-> TRUE, users |-> members, rows |-> rows] ELSE Nothing

NotStarted == [at |-> "none", wake |-> 0, tries |-> 0, snapshot |-> Nothing, second |-> FALSE,
               todo |-> {}]

Init ==
  /\ IdentityInit
  /\ day = 0
  /\ org = [there |-> TRUE, stamp |-> "none", due |-> 0]
  /\ promised = FALSE /\ rolledBack = FALSE /\ members = {Owner} /\ rows = 0
  /\ request = [q \in Requests |-> "idle"]
  /\ run = [r \in Runs |-> NotStarted]
  /\ erased = Nothing /\ teardown = {} /\ reported = {}

----------------------------------------------------------------------------
(* The owner *)

\* scheduleDeletionV2: the stamp, unless the account is scheduled already
Schedule(q) ==
  /\ request[q] = "idle" /\ org.there /\ day + Grace <= MaxDay
  /\ IF org.stamp = "scheduled"
     THEN request' = [request EXCEPT ![q] = "again"] /\ UNCHANGED org
     ELSE /\ request' = [request EXCEPT ![q] = "first"]
          /\ org' = [org EXCEPT !.stamp = "scheduled", !.due = day + Grace]
  /\ UNCHANGED <<identity, day, promised, rolledBack, members, rows, run, erased, teardown, reported>>

\* Inngest drops the event if one of this account started a run in the last
\* 24 hours.
Deduplicated == \E r \in Runs : run[r].at # "none" /\ day < run[r].wake - Grace + Window
FreeRun == CHOOSE r \in Runs : run[r].at = "none"
Delivered ==
  IF Deduplicated THEN UNCHANGED run
  ELSE /\ \E r \in Runs : run[r].at = "none"
       /\ run' = [run EXCEPT ![FreeRun] =
                    [NotStarted EXCEPT !.at = "asleep", !.wake = day + Grace]]

\* The answer is "Deletion scheduled" whatever has become of the stamp.
Told ==
  IF org.stamp = "scheduled" THEN promised' = TRUE /\ rolledBack' = FALSE
  ELSE promised' = rolledBack /\ UNCHANGED rolledBack

\* Mutant: the event of a schedule that was there before has been sent.
DispatchFirstOnly(q) ==
  /\ request[q] \in {"first", "again"}
  /\ IF request[q] = "first" THEN Delivered ELSE UNCHANGED run
  /\ request' = [request EXCEPT ![q] = "answered"]
  /\ Told
  /\ UNCHANGED <<identity, day, org, members, rows, erased, teardown, reported>>
\* inngest.send, also for a schedule that was there before, and the answer
Dispatch(q) ==
  /\ request[q] \in {"first", "again"}
  /\ Delivered
  /\ request' = [request EXCEPT ![q] = "answered"]
  /\ Told
  /\ UNCHANGED <<identity, day, org, members, rows, erased, teardown, reported>>

\* The event is refused, or accepted without the worker hearing of it.
DispatchFails(q) ==
  /\ request[q] \in {"first", "again"}
  /\ Delivered \/ UNCHANGED run
  /\ request' = [request EXCEPT ![q] = IF @ = "first" THEN "rollback" ELSE "refused"]
  /\ UNCHANGED <<identity, day, account, teardown, reported>>

\* cancelDeletionV2
Cancelled ==
  IF org.there /\ org.stamp = "scheduled" THEN org' = [org EXCEPT !.stamp = "cancelled"]
  ELSE UNCHANGED org

\* It cancels whatever is scheduled, also what another request has told the
\* owner of. It may fail as well and is then only captured.
Rollback(q) ==
  /\ request[q] = "rollback"
  /\ \/ Cancelled /\ rolledBack' = (rolledBack \/ org' # org)
     \/ UNCHANGED <<org, rolledBack>>
  /\ request' = [request EXCEPT ![q] = "refused"]
  /\ UNCHANGED <<identity, day, promised, members, rows, run, erased, teardown, reported>>

Cancel ==
  /\ org.there /\ Cancelled
  /\ promised' = FALSE /\ rolledBack' = FALSE
  /\ UNCHANGED <<identity, day, members, rows, request, run, erased, teardown, reported>>

\* A user of another account joins (family-join-v2), or a child is added, an
\* email changes, a webhook updates the subscription.
Changes ==
  /\ org.there /\ rows < MaxChanges
  /\ rows' = rows + 1
  /\ members' \in {members} \cup {members \cup {u} : u \in login}
  /\ UNCHANGED <<identity, day, org, promised, rolledBack, request, run, erased, teardown, reported>>

----------------------------------------------------------------------------
(* The durable function *)

At(r, place) == run[r].at = place

\* The step is executed again, the calls to Clerk from their check on.
Again(r) ==
  IF run[r].tries < Retries
  THEN [run[r] EXCEPT !.tries = @ + 1, !.todo = {},
                      !.at = IF @ = "calling" THEN "clerk" ELSE @]
  ELSE [NotStarted EXCEPT !.at = "failing", !.wake = run[r].wake]
\* A step has returned: its receipt is kept and the run goes on; or it is lost.
Kept(r, record) == run' = [run EXCEPT ![r] = [record EXCEPT !.tries = 0]]
Returns(r, record) == Kept(r, record) \/ run' = [run EXCEPT ![r] = Again(r)]
GoesTo(r, place) ==
  IF place = "over" THEN [NotStarted EXCEPT !.at = "over", !.wake = run[r].wake]
  ELSE [run[r] EXCEPT !.at = place]

Wake(r) ==
  /\ At(r, "asleep") /\ day >= run[r].wake
  /\ Kept(r, GoesTo(r, "exists"))
  /\ UNCHANGED <<identity, day, account, request, teardown, reported>>

StepFails(r) ==
  /\ run[r].at \in Steps
  /\ run' = [run EXCEPT ![r] = Again(r)]
  /\ UNCHANGED <<identity, day, account, request, teardown, reported>>

\* The steps that only read, two at a time: check-account-exists with
\* capture-clerk-user-id, check-cancellation with
\* capture-subscription-store-teardown-targets, then the snapshot. The owner
\* and the targets stand in for that of an organization gone by then.
Reads(r) ==
  /\ \/ /\ At(r, "exists") /\ org.there
        /\ Kept(r, [GoesTo(r, "cancelled") EXCEPT !.snapshot.users = members \cap {Owner}])
     \/ /\ At(r, "cancelled") /\ ~(org.there /\ org.stamp = "cancelled")
        /\ Kept(r, [GoesTo(r, "capture") EXCEPT !.snapshot.rows = Current.rows])
     \/ /\ \/ At(r, "exists") /\ ~org.there
           \/ At(r, "cancelled") /\ org.there /\ org.stamp = "cancelled"
        /\ Kept(r, GoesTo(r, "over"))
     \/ /\ At(r, "capture")
        /\ Kept(r, [GoesTo(r, "delete") EXCEPT !.snapshot = IF org.there THEN Current ELSE @])
     \/ /\ At(r, "recapture")
        /\ Kept(r, [GoesTo(r, "delete") EXCEPT !.snapshot = Current])
  /\ UNCHANGED <<identity, day, account, request, teardown, reported>>

\* Mutant: the memberships are left to a cascade that is not there.
EraseMembersKept ==
  /\ org' = [org EXCEPT !.there = FALSE]
  /\ erased' = Current
  /\ login' = login \ members
  /\ fence' = Reserved(members)
  /\ UNCHANGED <<clerk, stale, promised, rolledBack, members, rows>>
\* The transaction of executeDeletionV2 once its claim holds and the snapshot
\* still does.
Erase ==
  /\ org' = [org EXCEPT !.there = FALSE]
  /\ erased' = Current
  /\ login' = login \ members /\ members' = {}
  /\ fence' = Reserved(members)
  /\ UNCHANGED <<clerk, stale, promised, rolledBack, rows>>

\* Mutant: check-cancellation has been answered.
DeleteUnclaimed(r) ==
  /\ At(r, "delete") /\ org.there
  /\ run[r].snapshot = Current
  /\ Erase
  /\ Returns(r, GoesTo(r, "teardown"))
  /\ UNCHANGED <<day, request, teardown, reported>>
\* Mutant: the snapshot was taken a moment ago.
DeleteUncompared(r) ==
  /\ At(r, "delete")
  /\ IF org.there /\ org.stamp = "scheduled" THEN Erase ELSE UNCHANGED <<identity, account>>
  /\ Returns(r, GoesTo(r, IF org.there /\ org.stamp # "scheduled" THEN "over" ELSE "teardown"))
  /\ UNCHANGED <<day, request, teardown, reported>>
\* delete-account-data and delete-account-data-2
Delete(r) ==
  /\ At(r, "delete")
  /\ \/ /\ org.there /\ org.stamp = "scheduled" /\ run[r].snapshot = Current
        /\ Erase
        /\ Returns(r, GoesTo(r, "teardown"))
     \/ /\ org.there /\ org.stamp = "scheduled" /\ run[r].snapshot # Current
        /\ Kept(r, [GoesTo(r, IF run[r].second THEN "failing" ELSE "recapture")
                      EXCEPT !.second = TRUE])
        /\ UNCHANGED <<identity, account>>
     \/ /\ org.there /\ org.stamp # "scheduled"
        /\ Kept(r, GoesTo(r, "over"))
        /\ UNCHANGED <<identity, account>>
     \/ /\ ~org.there
        /\ Kept(r, GoesTo(r, "teardown"))
        /\ UNCHANGED <<identity, account>>
  /\ UNCHANGED <<day, request, teardown, reported>>

\* request-subscription-store-teardown
Teardown(r) ==
  /\ At(r, "teardown")
  /\ teardown' = teardown \cup ({run[r].snapshot.rows} \ {NoRows})
  /\ Returns(r, GoesTo(r, IF run[r].snapshot.users = {} THEN "over" ELSE "reserve"))
  /\ UNCHANGED <<identity, day, account, request, reported>>

\* reserve-clerk-users: ensurePendingClerkErasures, or the run fails for good
Ensure(r, next) ==
  \/ /\ Rebound(run[r].snapshot.users)
     /\ Kept(r, GoesTo(r, "failing"))
     /\ UNCHANGED identity
  \/ /\ ~Rebound(run[r].snapshot.users)
     /\ fence' = Reserved(run[r].snapshot.users)
     /\ Returns(r, next)
     /\ UNCHANGED <<clerk, stale, login>>

Reserve(r) ==
  /\ At(r, "reserve")
  /\ Ensure(r, GoesTo(r, "clerk"))
  /\ UNCHANGED <<day, account, request, teardown, reported>>

\* Mutant: the users were reserved in the step before.
BeginClerkReserved(r) ==
  /\ At(r, "clerk")
  /\ Kept(r, [GoesTo(r, "calling") EXCEPT !.todo = run[r].snapshot.users])
  /\ UNCHANGED <<identity, day, account, request, teardown, reported>>
\* delete-clerk-users-v2 checks again and renews the fence, then calls Clerk
\* for one user after the other.
BeginClerk(r) ==
  /\ At(r, "clerk")
  /\ \/ /\ Rebound(run[r].snapshot.users)
        /\ Kept(r, GoesTo(r, "failing"))
        /\ UNCHANGED identity
     \/ /\ ~Rebound(run[r].snapshot.users)
        /\ fence' = Reserved(run[r].snapshot.users)
        /\ run' = [run EXCEPT ![r].at = "calling", ![r].todo = run[r].snapshot.users]
        /\ UNCHANGED <<clerk, stale, login>>
  /\ UNCHANGED <<day, account, request, teardown, reported>>

CallClerk(r) ==
  /\ At(r, "calling")
  /\ \E u \in run[r].todo :
       /\ EraseUser(u)
       /\ run' = [run EXCEPT ![r].todo = @ \ {u}]
  /\ UNCHANGED <<day, account, request, teardown, reported>>

ClerkDone(r) ==
  /\ At(r, "calling") /\ run[r].todo = {}
  /\ Kept(r, GoesTo(r, "release"))
  /\ UNCHANGED <<identity, day, account, request, teardown, reported>>

\* release-clerk-users
Release(r) ==
  /\ At(r, "release")
  /\ fence' = Released(run[r].snapshot.users)
  /\ Returns(r, GoesTo(r, "over"))
  /\ UNCHANGED <<clerk, stale, login, day, account, request, teardown, reported>>

\* onFailure
Report(r) ==
  /\ At(r, "failing")
  /\ reported' = reported \cup {r}
  /\ Kept(r, GoesTo(r, "over"))
  /\ UNCHANGED <<identity, day, account, request, teardown>>

RunStep(r) ==
  \/ Wake(r) \/ Reads(r) \/ Delete(r) \/ Teardown(r)
  \/ Reserve(r) \/ BeginClerk(r) \/ CallClerk(r) \/ ClerkDone(r) \/ Release(r)
  \/ StepFails(r) \/ Report(r)

----------------------------------------------------------------------------

RequestStep(q) == Dispatch(q) \/ DispatchFails(q) \/ Rollback(q)

\* A request is over before the day is; a day nobody sleeps into is not counted.
Tick ==
  /\ \A q \in Requests : request[q] \in {"idle", "answered", "refused"}
  /\ \E r \in Runs : At(r, "asleep") /\ day < run[r].wake
  /\ day' = day + 1
  /\ UNCHANGED <<identity, account, request, run, teardown, reported>>

\* Users for whom a step is waiting for Clerk's answer
Busy == UNION {run[r].todo : r \in Runs}

Elsewhere ==
  /\ \E u \in Users : SignUp(u) \/ TokenExpires(u) \/ FenceElapses(u, Busy)
  /\ UNCHANGED <<day, account, request, run, teardown, reported>>

Next ==
  \/ \E q \in Requests : Schedule(q) \/ RequestStep(q)
  \/ Cancel \/ Changes \/ Tick \/ Elsewhere
  \/ \E r \in Runs : RunStep(r)

Spec == Init /\ [][Next]_vars

----------------------------------------------------------------------------
(* Properties *)

TypeOK ==
  /\ IdentityOK
  /\ day \in 0..MaxDay
  /\ org \in [there : BOOLEAN, stamp : Stamps, due : 0..MaxDay]
  /\ promised \in BOOLEAN /\ rolledBack \in BOOLEAN /\ members \subseteq login /\ rows \in 0..MaxChanges
  /\ request \in [Requests -> RequestStates]
  /\ run \in [Runs -> [at : Places, wake : 0..MaxDay, tries : 0..Retries, snapshot : Snapshot,
                       second : BOOLEAN, todo : SUBSET Users]]
  /\ erased \in Snapshot /\ teardown \subseteq Nat /\ reported \subseteq Runs

\* A cancelled deletion erases nothing, however late the cancellation comes
\* between the check, the snapshot and the transaction of a run that is awake,
\* and whichever of two runs it is.
CancelWins == [][org.there /\ ~org'.there => org.stamp = "scheduled"]_vars

\* A Clerk user is never erased while it has a login: one who came back after
\* the fence had elapsed keeps the new account.
NoLiveLoginErased == [][(clerk \ clerk') \cap login = {}]_vars

Ended == \A r \in Runs : run[r].at \in {"none", "over"}

\* What the database erased is erased outside too: once the runs are over,
\* whichever of their steps failed or lost its receipt, every member's Clerk user
\* is gone and the store was asked to end the subscription as it was; or someone
\* was told.
ErasureFollows ==
  ~org.there /\ Ended /\ reported = {} =>
    erased.users \cap clerk = {} /\ erased.rows \in teardown

\* A deletion the owner was told of, and has not cancelled, stands and has a run
\* that will carry it out, although an event may be dropped or refused and a
\* run of an earlier schedule may have ended; or someone was told. One thing
\* alone breaks the promise: the rollback of a request whose own event failed.
ScheduleKept ==
  org.there /\ promised /\ reported = {} =>
    (org.stamp = "scheduled" /\ ~Ended) \/ rolledBack

\* "deletion is scheduled with 7-day grace period (user can cancel during this
\* window)" (docs/specs/epics.md:1134). The run of a schedule that was cancelled
\* sleeps on, and erases the account on its own day when the account has been
\* scheduled anew meanwhile.
GraceHonoured == [][org.there /\ ~org'.there => day >= org.due]_vars

\* The route, the durable function and the transaction together keep what
\* DurableErasure promises; a rollback takes back what the owner was told.
Promises == INSTANCE DurableErasure WITH
  there <- org.there, ordered <- org.stamp = "scheduled",
  promised <- org.there /\ promised /\ ~rolledBack,
  hidden <- FALSE, owed <- erased.users, working <- ~Ended, excused <- reported # {}
ImplementsDurableErasure == Promises!Spec
=============================================================================
