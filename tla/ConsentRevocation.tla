-------------------------- MODULE ConsentRevocation --------------------------
(* Withdrawing the parental consent for a child of a family: the guardian's    *)
(* requests (routes/consent.ts), the grants and the transactions behind the     *)
(* person lock (identity-v2/consent-v2.ts, deletion-v2.ts), and the durable     *)
(* functions that end the child's account: consent-revocation after the grace   *)
(* period and, when it archives instead, archive-cleanup after the retention    *)
(* period. Both erase with inngest/functions/person-erasure-steps.ts.           *)
(*                                                                             *)
(* Every revocation stamps its own time on the current grant and a restoration *)
(* appends a new grant, so a revocation's number stands for the stamp that its  *)
(* run carries and compares. A step of a run is executed at least once. Pushes  *)
(* and the notice of an archived account are left out.                          *)
EXTENDS ClerkFence

CONSTANTS
  Runs,            \* runs of either function
  Grace,           \* days of the grace period
  Retention,       \* days an archived child is kept
  Window,          \* days in which an event is dropped as a duplicate, one at most
  MaxDay,          \* bound: the last day
  Retries,         \* retries of a step
  MaxRevocations,  \* bound: how often the consent is withdrawn
  MaxChanges,      \* bound: changes of what a snapshot holds
  Never            \* the day of what has not happened

ASSUME DaysAssumption ==
  /\ Grace \in Nat \ {0} /\ Retention \in Nat \ {0} /\ MaxDay \in Nat
  /\ Window \in 0..1
ASSUME BoundAssumption ==
  Retries \in Nat /\ MaxRevocations \in Nat /\ MaxChanges \in Nat
ASSUME NeverAssumption == Never \notin Int

VARIABLES
  day,
  consent,     \* the revocation on the current grant, 0 if none, and its day
  revocations, \* how many there were
  promised,    \* the guardian was told of the revocation
  request,     \* the revocation the route has to send the event of, 0 if none
  child,       \* there or not, the day it was archived, its Clerk users
  stranded,    \* the receipt of its archive was lost, and with it the cleanup
  rows,        \* version of what else a snapshot names
  run,         \* run -> its step, memoized receipts and failed tries
  notice,      \* revocation -> its consent_deleted notice
  erased,      \* Clerk users of the erased child
  reported     \* something was captured, or a run failed for good

person == <<consent, revocations, promised, child, stranded, rows, erased>>
vars == <<identity, day, person, request, run, notice, reported>>

----------------------------------------------------------------------------

Revocations == 1..MaxRevocations
Snapshot == [there : BOOLEAN, users : SUBSET Users, rows : Nat]
Steps == {"check", "choose", "archive", "schedule", "prepare", "capture", "erase", "discard",
          "reserve", "clerk", "calling", "release", "activate"}
Places == {"none", "asleep", "failing"} \cup Steps

Nothing == [there |-> FALSE, users |-> {}, rows |-> 0]
\* getPersonErasureSnapshotV2
Current == IF child.there THEN [there |-> TRUE, users |-> child.users, rows |-> rows] ELSE Nothing

NotStarted == [at |-> "none", of |-> 0, wake |-> 0, tries |-> 0, snapshot |-> Nothing,
               second |-> FALSE, todo |-> {}]

\* A child has a login of its own or none.
Init ==
  /\ IdentityInit
  /\ day = 0 /\ rows = 0
  /\ consent = [revoked |-> 0, since |-> 0] /\ revocations = 0
  /\ promised = FALSE /\ request = 0
  /\ child \in [there : {TRUE}, archived : {Never}, users : SUBSET Users]
  /\ run = [r \in Runs |-> NotStarted]
  /\ notice = [g \in Revocations |-> "none"]
  /\ stranded = FALSE /\ erased = {} /\ reported = FALSE

\* inngest.send of an event for the given revocation, 0 for archive-cleanup,
\* which is keyed by the child alone
Sleep(of) == IF of = 0 THEN Retention ELSE Grace
Duplicate(of) ==
  \E r \in Runs : run[r].at # "none" /\ run[r].of = of /\ day < run[r].wake - Sleep(of) + Window
Room(of) == Duplicate(of) \/ \E r \in Runs : run[r].at = "none"
FreeRun == CHOOSE r \in Runs : run[r].at = "none"
Launched(runs, of) ==
  IF Duplicate(of) THEN runs
  ELSE [runs EXCEPT ![FreeRun] =
          [NotStarted EXCEPT !.at = "asleep", !.of = of, !.wake = day + Sleep(of)]]

----------------------------------------------------------------------------
(* The guardian *)

\* stampWithdrawal: a grant that is withdrawn keeps its stamp.
Revoke ==
  /\ request = 0 /\ child.there
  /\ IF consent.revoked = 0
     THEN /\ revocations < MaxRevocations
          /\ revocations' = revocations + 1
          /\ consent' = [revoked |-> revocations + 1, since |-> day]
     ELSE UNCHANGED <<consent, revocations>>
  /\ request' = consent'.revoked
  /\ UNCHANGED <<identity, day, promised, child, stranded, rows, erased, run, notice, reported>>

\* The answer comes whether or not safeSend could send the event; what it
\* swallows it captures.
Dispatch ==
  /\ request # 0
  /\ \/ Room(request) /\ run' = Launched(run, request) /\ UNCHANGED reported
     \/ reported' = TRUE /\ UNCHANGED run
  /\ promised' = (consent.revoked = request)
  /\ request' = 0
  /\ UNCHANGED <<identity, day, consent, revocations, child, stranded, rows, erased, notice>>

\* The worker dies in between, and the guardian is told nothing.
DispatchLost ==
  /\ request # 0
  /\ request' = 0
  /\ UNCHANGED <<identity, day, person, run, notice, reported>>

\* appendRestoreGrant
Restore ==
  /\ child.there /\ consent.revoked # 0 /\ day - consent.since <= Grace
  /\ consent' = [revoked |-> 0, since |-> 0]
  /\ child' = [child EXCEPT !.archived = Never]
  /\ promised' = FALSE /\ stranded' = FALSE
  /\ UNCHANGED <<identity, day, request, revocations, rows, erased, run, notice, reported>>

\* A person is added to the organization or leaves it, or an email changes.
Changes ==
  /\ child.there /\ rows < MaxChanges
  /\ rows' = rows + 1
  /\ UNCHANGED <<identity, day, consent, revocations, promised, child, stranded, erased, request,
                 run, notice, reported>>

----------------------------------------------------------------------------
(* Steps of the durable functions *)

At(r, place) == run[r].at = place
Cleanup(r) == run[r].of = 0

\* Mutant: one try too many is allowed.
AgainOnceMore(r) ==
  IF run[r].tries <= Retries
  THEN [run[r] EXCEPT !.tries = @ + 1, !.todo = {},
                      !.at = IF @ = "calling" THEN "clerk" ELSE @]
  ELSE [run[r] EXCEPT !.at = "failing", !.tries = 0, !.todo = {}]
\* The step is executed again, the call to Clerk from its check on.
Again(r) ==
  IF run[r].tries < Retries
  THEN [run[r] EXCEPT !.tries = @ + 1, !.todo = {},
                      !.at = IF @ = "calling" THEN "clerk" ELSE @]
  ELSE [run[r] EXCEPT !.at = "failing", !.tries = 0, !.todo = {}]
Kept(r, record) == run' = [run EXCEPT ![r] = [record EXCEPT !.tries = 0]]
\* A step has returned: its receipt is kept, or it is lost.
Returns(r, record) == Kept(r, record) \/ run' = [run EXCEPT ![r] = Again(r)]
\* A run that is over is forgotten: it slept for longer than its event is
\* compared with others.
GoesTo(r, place) == IF place = "over" THEN NotStarted ELSE [run[r] EXCEPT !.at = place]

Wake(r) ==
  /\ At(r, "asleep") /\ day >= run[r].wake
  /\ Kept(r, GoesTo(r, IF Cleanup(r) THEN "capture" ELSE "check"))
  /\ UNCHANGED <<identity, day, person, request, notice, reported>>

StepFails(r) ==
  /\ run[r].at \in Steps
  /\ run' = [run EXCEPT ![r] = Again(r)]
  /\ UNCHANGED <<identity, day, person, request, notice, reported>>

\* Mutant: any withdrawal will do.
StandsAny(r) == child.there /\ consent.revoked # 0
\* isConsentRevocationGenerationCurrentV2
Stands(r) == child.there /\ consent.revoked = run[r].of

\* check-restoration and load-child-profile, choose-final-action (the child's
\* age and the owner's preference), and capture-1 and -2
Reads(r) ==
  /\ \/ At(r, "check") /\ Kept(r, GoesTo(r, IF Stands(r) THEN "choose" ELSE "over"))
     \/ At(r, "choose") /\ Kept(r, GoesTo(r, "prepare"))
     \/ At(r, "choose") /\ child.there /\ Kept(r, GoesTo(r, "archive"))
     \/ At(r, "capture") /\ Kept(r, [GoesTo(r, "erase") EXCEPT !.snapshot = Current])
  /\ UNCHANGED <<identity, day, person, request, notice, reported>>

\* archive-child-profile: archivePersonOnRevocationV2. Executed again, it finds
\* the child archived, and its run ends without the cleanup.
Archive(r) ==
  /\ At(r, "archive")
  /\ \/ /\ Stands(r) /\ child.archived = Never
        /\ child' = [child EXCEPT !.archived = day]
        /\ \/ Kept(r, GoesTo(r, "schedule")) /\ UNCHANGED stranded
           \/ run' = [run EXCEPT ![r] = Again(r)] /\ stranded' = TRUE
     \/ /\ ~(Stands(r) /\ child.archived = Never)
        /\ Kept(r, GoesTo(r, "over"))
        /\ UNCHANGED <<child, stranded>>
  /\ UNCHANGED <<identity, day, consent, revocations, promised, rows, erased, request, notice,
                 reported>>

\* schedule-archive-cleanup
ScheduleCleanup(r) ==
  /\ At(r, "schedule") /\ Room(0)
  /\ \E record \in {NotStarted, Again(r)} :
       run' = Launched([run EXCEPT ![r] = record], 0)
  /\ UNCHANGED <<identity, day, person, request, notice, reported>>

\* Mutant: the notice may be seen from the start.
PrepareReady(r) ==
  /\ At(r, "prepare")
  /\ notice' = [notice EXCEPT ![run[r].of] = "ready"]
  /\ Returns(r, GoesTo(r, "capture"))
  /\ UNCHANGED <<identity, day, person, request, reported>>
\* prepare-child-deletion-notice: recordPendingNotice with ready false, which
\* finds the notice there was
Prepare(r) ==
  /\ At(r, "prepare")
  /\ notice' = [notice EXCEPT ![run[r].of] = IF @ = "none" THEN "prepared" ELSE @]
  /\ Returns(r, GoesTo(r, "capture"))
  /\ UNCHANGED <<identity, day, person, request, reported>>

\* Mutant: off by one, the cleanup of the day the retention ends comes too early.
EligibleOlder(r) ==
  IF Cleanup(r)
  THEN child.archived # Never /\ child.archived < day - Retention /\ consent.revoked # 0
  ELSE Stands(r)
\* attemptPersonIfConsentWithdrawnErasureV2, attemptArchivedPersonErasureV2
Eligible(r) ==
  IF Cleanup(r)
  THEN child.archived # Never /\ child.archived <= day - Retention /\ consent.revoked # 0
  ELSE Stands(r)
\* The run once the child is gone, of whose snapshot the users alone are read
\* again, and when it may not erase
Erasing(r) ==
  IF run[r].snapshot.users = {}
  THEN GoesTo(r, IF Cleanup(r) THEN "over" ELSE "activate")
  ELSE [GoesTo(r, "reserve") EXCEPT !.snapshot = [@ EXCEPT !.there = FALSE, !.rows = 0], !.second = FALSE]
Giving(r) == GoesTo(r, IF Cleanup(r) THEN "over" ELSE "discard")

\* erasePreparedPersonTx
ErasePerson ==
  /\ child' = [there |-> FALSE, archived |-> Never, users |-> {}]
  /\ rows' = 0
  /\ erased' = child.users
  /\ login' = login \ child.users
  /\ fence' = Reserved(child.users)
  /\ UNCHANGED <<clerk, stale, consent, revocations, promised, stranded>>

\* database-1 and database-2
Erase(r) ==
  /\ At(r, "erase")
  /\ \/ /\ ~child.there
        /\ Kept(r, Erasing(r))
        /\ UNCHANGED <<identity, person>>
     \/ /\ child.there /\ run[r].snapshot # Current
        /\ Kept(r, [GoesTo(r, IF run[r].second THEN "failing" ELSE "capture")
                      EXCEPT !.second = TRUE])
        /\ UNCHANGED <<identity, person>>
     \/ /\ child.there /\ run[r].snapshot = Current /\ ~Eligible(r)
        /\ Kept(r, Giving(r))
        /\ UNCHANGED <<identity, person>>
     \/ /\ child.there /\ run[r].snapshot = Current /\ Eligible(r)
        /\ ErasePerson
        /\ Returns(r, Erasing(r))
  /\ UNCHANGED <<day, request, notice, reported>>

\* discard-child-deletion-notice: deletePendingNotice
Discard(r) ==
  /\ At(r, "discard")
  /\ notice' = [notice EXCEPT ![run[r].of] = "none"]
  /\ Returns(r, GoesTo(r, "over"))
  /\ UNCHANGED <<identity, day, person, request, reported>>

\* clerk-users-reserve: ensurePendingClerkErasures, or the run fails for good
Reserve(r) ==
  /\ At(r, "reserve")
  /\ \/ /\ Rebound(run[r].snapshot.users)
        /\ Kept(r, GoesTo(r, "failing"))
        /\ UNCHANGED fence
     \/ /\ ~Rebound(run[r].snapshot.users)
        /\ fence' = Reserved(run[r].snapshot.users)
        /\ Returns(r, GoesTo(r, "clerk"))
  /\ UNCHANGED <<clerk, stale, login, day, person, request, notice, reported>>

\* Mutant: the users were reserved in the step before.
BeginClerkReserved(r) ==
  /\ At(r, "clerk")
  /\ run' = [run EXCEPT ![r].at = "calling", ![r].todo = run[r].snapshot.users]
  /\ UNCHANGED <<identity, day, person, request, notice, reported>>
\* clerk-users: the check again, then the calls to Clerk
BeginClerk(r) ==
  /\ At(r, "clerk")
  /\ \/ /\ Rebound(run[r].snapshot.users)
        /\ Kept(r, GoesTo(r, "failing"))
        /\ UNCHANGED fence
     \/ /\ ~Rebound(run[r].snapshot.users)
        /\ fence' = Reserved(run[r].snapshot.users)
        /\ run' = [run EXCEPT ![r].at = "calling", ![r].todo = run[r].snapshot.users]
  /\ UNCHANGED <<clerk, stale, login, day, person, request, notice, reported>>

CallClerk(r) ==
  /\ At(r, "calling")
  /\ \/ /\ \E u \in run[r].todo :
             EraseUser(u) /\ run' = [run EXCEPT ![r].todo = @ \ {u}]
     \/ /\ run[r].todo = {}
        /\ Kept(r, GoesTo(r, "release"))
        /\ UNCHANGED identity
  /\ UNCHANGED <<day, person, request, notice, reported>>

\* clerk-users-release
Release(r) ==
  /\ At(r, "release")
  /\ fence' = Released(run[r].snapshot.users)
  /\ Returns(r, GoesTo(r, IF Cleanup(r) THEN "over" ELSE "activate"))
  /\ UNCHANGED <<clerk, stale, login, day, person, request, notice, reported>>

\* activate-child-deletion-notice; the step fails when there is none.
Activate(r) ==
  /\ At(r, "activate") /\ notice[run[r].of] # "none"
  /\ notice' = [notice EXCEPT ![run[r].of] = "ready"]
  /\ Returns(r, GoesTo(r, "over"))
  /\ UNCHANGED <<identity, day, person, request, reported>>

\* onFailure
Report(r) ==
  /\ At(r, "failing")
  /\ reported' = TRUE
  /\ Kept(r, GoesTo(r, "over"))
  /\ UNCHANGED <<identity, day, person, request, notice>>

RunStep(r) ==
  \/ Wake(r) \/ StepFails(r) \/ Reads(r) \/ Report(r)
  \/ Archive(r) \/ ScheduleCleanup(r) \/ Prepare(r) \/ Erase(r) \/ Discard(r)
  \/ Reserve(r) \/ BeginClerk(r) \/ CallClerk(r) \/ Release(r) \/ Activate(r)

----------------------------------------------------------------------------

\* A day nobody sleeps into is not counted.
Tick ==
  /\ request = 0 /\ day < MaxDay
  /\ \E r \in Runs : At(r, "asleep") /\ day < run[r].wake
  /\ day' = day + 1
  /\ UNCHANGED <<identity, person, request, run, notice, reported>>

Busy == UNION {run[r].todo : r \in Runs}

Elsewhere ==
  /\ \E u \in Users : SignUp(u) \/ TokenExpires(u) \/ FenceElapses(u, Busy)
  /\ UNCHANGED <<day, person, request, run, notice, reported>>

Next ==
  \/ Revoke \/ Dispatch \/ DispatchLost \/ Restore \/ Changes \/ Tick \/ Elsewhere
  \/ \E r \in Runs : RunStep(r)

Spec == Init /\ [][Next]_vars

----------------------------------------------------------------------------
(* Properties *)

TypeOK ==
  /\ IdentityOK
  /\ day \in 0..MaxDay /\ rows \in 0..MaxChanges
  /\ revocations \in 0..MaxRevocations
  /\ consent \in [revoked : 0..revocations, since : 0..day]
  /\ promised \in BOOLEAN /\ request \in 0..revocations
  /\ child \in [there : BOOLEAN, archived : 0..day \cup {Never}, users : SUBSET login]
  /\ run \in [Runs -> [at : Places, of : 0..MaxRevocations,
                       wake : 0..MaxDay + Grace + Retention, tries : 0..Retries,
                       snapshot : Snapshot, second : BOOLEAN, todo : SUBSET Users]]
  /\ notice \in [Revocations -> {"none", "prepared", "ready"}]
  /\ erased \subseteq Users /\ stranded \in BOOLEAN /\ reported \in BOOLEAN

Archived == child.there /\ child.archived # Never
\* Archived for ever
Forgotten == Archived /\ stranded
Ended == request = 0 /\ \A r \in Runs : run[r].at = "none"

\* Restoring wins: whichever run wakes late, and although the consent was
\* restored and withdrawn again in between, a child is archived or erased only
\* under a withdrawal whose own grace period has passed.
RestoreWins ==
  [][(child.there /\ ~child'.there) \/ (~Archived /\ Archived') =>
       consent.revoked # 0 /\ day >= consent.since + Grace]_vars

\* A child whose withdrawal the guardian was told of is gone in the end, at Clerk
\* too, at once or after the retention period (consent-revocation.ts: "archived
\* for 30 days, then deleted"), unless it is restored or someone is told: no
\* failing step, duplicate event or changed snapshot prevents it, and of the lost
\* receipts that of the archive alone, which leaves the child archived for ever.
WithdrawalKept ==
  Ended /\ ~reported =>
    /\ promised => ~child.there \/ Forgotten
    /\ erased \cap clerk = {}

\* The guardian is told that the account is gone only once it is, and a notice
\* that was prepared is published or discarded, whichever of two runs of the
\* revocation, or a cleanup, erased the child.
NoticeTrue ==
  /\ (\E g \in Revocations : notice[g] = "ready") => ~child.there
  /\ Ended /\ ~reported => \A g \in Revocations : notice[g] # "prepared"

\* A Clerk user is never erased while it has a login, of whatever person.
NoLiveLoginErased == [][(clerk \ clerk') \cap login = {}]_vars

\* So do withdrawal, archive and erasure of a child's account; an archived child
\* is hidden, and its promise stands as long as it is not forgotten.
Promises == INSTANCE DurableErasure WITH
  there <- child.there, ordered <- consent.revoked # 0,
  promised <- promised /\ child.there /\ ~Forgotten,
  hidden <- Archived, owed <- erased, working <- ~Ended, excused <- reported
ImplementsDurableErasure == Promises!Spec
=============================================================================
