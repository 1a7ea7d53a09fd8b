---------------------------- MODULE LibraryFiling ----------------------------
(* Filing freeform sessions in the library: the learner's requests             *)
(* (routes/sessions.ts, services/session/session-crud.ts), the durable         *)
(* function that files a session (inngest/functions/auto-file-session.ts), the *)
(* routes that file one on the spot or have it retried (routes/filing.ts,      *)
(* inngest/functions/freeform-filing.ts), the observers of a filing that takes *)
(* too long and of one that is complete, and the operator's backfill.          *)
(*                                                                             *)
(* A step of a run is executed at least once: it may fail, or take effect and  *)
(* lose its receipt. A topic stands for a row: one is created once, and a      *)
(* later filing may resolve to it by its title. The time is one day, in which  *)
(* Inngest remembers every key it has seen. Retry counts are left out: the     *)
(* learner's requests reset them, and within the day they do not reach the cap.*)
EXTENDS Integers, FiniteSets

CONSTANTS
  Sessions,   \* freeform sessions with enough exchanges, of one profile
  Topics,     \* rows of curriculum_topics, in the order in which they are inserted
  Runs,       \* runs of auto-file-session, in the order in which they are used
  None,       \* no topic, no session
  Free,       \* a row that was never inserted
  Gone,       \* a row that was deleted
  Retries,    \* retries of a step
  MaxFaults,  \* bound: steps that fail or lose their receipt, requests that fail
  MaxAsks,    \* bound: the learner's requests to have a session filed
  MaxCalls    \* bound: the learner's requests to keep one out, to file it on the
              \* spot and to have a failed filing retried

ASSUME RowAssumption ==
  None \notin Topics \cup Sessions /\ Free \notin Sessions /\ Gone \notin Sessions /\ Free # Gone
ASSUME OrderAssumption == Topics \subseteq Nat /\ Runs \subseteq Nat
ASSUME FiniteAssumption == IsFiniteSet(Sessions)
ASSUME BoundAssumption ==
  Retries \in Nat /\ MaxFaults \in Nat /\ MaxAsks \in Nat /\ MaxCalls \in Nat

VARIABLES
  session,   \* the row: there or not, active or not, topic, filedAt, filingStatus
  library,   \* row of a topic -> the session it was created for
  learner,   \* session -> the keep-out request in progress and the topic it read
  kept,      \* sessions the learner wants kept out
  requests,  \* auto_file_requested events on their way
  seen,      \* those accepted
  issued,    \* keys of requests given out, but for 'initial'
  run,       \* run -> its step, session, topic and failed tries
  news,      \* sessions with a filing.completed event on its way
  observer,  \* session -> step of filing-timed-out-observe, or the wait before it
  faults,
  posting,   \* sessions with a POST /filing in progress
  calls,     \* those begun, with the requests to keep out and to retry
  refile,    \* sessions with a filing.retry event, or its run, on its way
  claimant,  \* session -> who has to settle it while it is pending
  overridden \* sessions that a write without a guard has changed since they were
             \* last asked for or kept out

marks == <<claimant, overridden>>
byPost == <<posting, calls, refile>>
vars == <<session, library, learner, kept, requests, seen, issued, run, news, observer,
          faults, marks, byPost>>

----------------------------------------------------------------------------

Statuses == {"null", "pending", "failed", "recovered", "kept_out"}
Row == [there : BOOLEAN, active : BOOLEAN, topic : Topics \cup {None}, filed : BOOLEAN,
        status : Statuses]
Steps == {"claim", "file", "finalize", "cleanup", "delete", "notify"}
ObserverSteps == {"none", "window", "queued", "claim", "wait",
                  "over", "claimed", "late", "answered"}
\* A run or an observer; the run of a filing.retry; nobody
Claimants == {"own", "retry", "lost"}

Initial == 0
Keys == 0..(MaxAsks + Cardinality(Sessions))
Request == [session : Sessions, key : Keys]

Unfiled(s) == session[s].there /\ session[s].topic = None /\ ~session[s].filed

Nothing == [at |-> "idle", topic |-> None]
Idle == [at |-> "idle", session |-> None, topic |-> None, tries |-> 0]

Init ==
  /\ session = [s \in Sessions |->
       [there |-> TRUE, active |-> TRUE, topic |-> None, filed |-> FALSE, status |-> "null"]]
  /\ library = [t \in Topics |-> Free]
  /\ learner = [s \in Sessions |-> Nothing]
  /\ kept = {} /\ requests = {} /\ seen = {} /\ issued = 0
  /\ run = [r \in Runs |-> Idle]
  /\ news = {} /\ faults = 0
  /\ posting = {} /\ calls = 0 /\ refile = {} /\ overridden = {}
  /\ claimant = [s \in Sessions |-> "own"]
  /\ observer = [s \in Sessions |-> "none"]

Is(s, status) == session[s].there /\ session[s].status = status
Requested(s, key) == requests' = requests \cup {[session |-> s, key |-> key]}

\* resolveFilingResult for s: a row with the title of t, or a new one
Resolved(s, t) ==
  /\ library[t] # Gone
  /\ library[t] = Free => \A x \in Topics : library[x] = Free => t <= x
  /\ library' = IF library[t] = Free THEN [library EXCEPT ![t] = s] ELSE library

ClaimedBy(s, who) == claimant' = [claimant EXCEPT ![s] = who]
\* The status changes, and with it who has to settle a pending one.
Becomes(s, status, who) ==
  session' = [session EXCEPT ![s].status = status] /\ ClaimedBy(s, who)

\* filing.completed, which also ends the wait of session-completed
Announced(s) ==
  /\ news' = news \cup {s}
  /\ observer' = IF observer[s] = "window" THEN [observer EXCEPT ![s] = "over"] ELSE observer

Called == calls < MaxCalls /\ calls' = calls + 1
\* Something of a request fails.
Erring == faults < MaxFaults /\ faults' = faults + 1

----------------------------------------------------------------------------
(* Closing a session *)

\* closeSession by its route or by the stale cleanup, and the dispatch of the
\* first request for an eligible session, which safeSend may fail to send
Close(s) ==
  /\ session[s].there /\ session[s].active
  /\ session' = [session EXCEPT ![s].active = FALSE]
  /\ \/ Unfiled(s) /\ Is(s, "null") /\ Requested(s, Initial) /\ UNCHANGED faults
     \/ ~(Unfiled(s) /\ Is(s, "null")) /\ UNCHANGED <<requests, faults>>
     \/ Erring /\ UNCHANGED requests
  /\ UNCHANGED <<library, learner, kept, seen, issued, run, news, observer, marks, byPost>>

\* session-completed of a session without a topic waits a minute for one, if it
\* was not the stale cleanup that closed it.
AwaitFiling(s) ==
  /\ session[s].there /\ ~session[s].active /\ session[s].topic = None
  /\ observer[s] = "none"
  /\ observer' = [observer EXCEPT ![s] = "window"]
  /\ UNCHANGED <<session, library, learner, kept, requests, seen, issued, run, news, faults,
                 marks, byPost>>

\* filing-stranded-backfill, run by an operator
Backfill(s) ==
  /\ ~session[s].active /\ Unfiled(s) /\ Is(s, "null")
  /\ observer[s] = "none"
  /\ observer' = [observer EXCEPT ![s] = "queued"]
  /\ UNCHANGED <<session, library, learner, kept, requests, seen, issued, run, news, faults,
                 marks, byPost>>

----------------------------------------------------------------------------
(* The learner *)

\* requestSessionLibraryFiling, restoreSessionForAutoFiling and
\* resetFilingForRetry, and the dispatch, which may fail
Ask(s) ==
  /\ learner[s].at = "idle" /\ issued < MaxAsks
  /\ Unfiled(s) /\ session[s].status \in {"null", "failed", "kept_out"}
  /\ Becomes(s, "null", "own")
  /\ kept' = kept \ {s} /\ overridden' = overridden \ {s}
  /\ \/ Requested(s, issued + 1) /\ issued' = issued + 1 /\ UNCHANGED faults
     \/ Erring /\ UNCHANGED <<requests, issued>>
  /\ UNCHANGED <<library, learner, seen, run, news, observer, byPost>>

\* markSessionKeptOutOfLibrary: what it reads
KeepOut(s) ==
  /\ learner[s].at = "idle" /\ session[s].there
  /\ Called
  /\ learner' = [learner EXCEPT ![s] = [at |-> "keeping", topic |-> session[s].topic]]
  /\ UNCHANGED <<session, library, kept, requests, seen, issued, run, news, observer, faults,
                 marks, posting, refile>>

\* and what it writes, whatever has happened since
Detach(s) ==
  /\ learner[s].at = "keeping"
  /\ IF session[s].there
     THEN /\ session' = [session EXCEPT ![s] =
               [@ EXCEPT !.topic = None, !.filed = FALSE, !.status = "kept_out"]]
          /\ kept' = kept \cup {s} /\ overridden' = overridden \ {s} /\ ClaimedBy(s, "own")
          /\ learner' = [learner EXCEPT ![s] = IF learner[s].topic = None THEN Nothing
                                               ELSE [learner[s] EXCEPT !.at = "cleanup"]]
     ELSE learner' = [learner EXCEPT ![s] = Nothing] /\ UNCHANGED <<session, kept, marks>>
  /\ UNCHANGED <<library, requests, seen, issued, run, news, observer, faults, byPost>>

\* deleteTopicIfSafe: the checks, which are statements of their own
SafeToDelete(s, t) ==
  /\ library[t] = s
  /\ \A x \in Sessions : session[x].topic # t
\* and the deletion, which cascades to the sessions that refer to the topic
DeleteTopic(t) ==
  /\ library' = [library EXCEPT ![t] = Gone]
  /\ session' = [s \in Sessions |->
       IF session[s].topic # t THEN session[s]
       ELSE [session[s] EXCEPT !.there = FALSE, !.topic = None, !.filed = FALSE, !.status = "null"]]

CheckDetached(s) ==
  /\ learner[s].at = "cleanup"
  /\ learner' = [learner EXCEPT ![s] = IF SafeToDelete(s, learner[s].topic)
                                       THEN [learner[s] EXCEPT !.at = "delete"] ELSE Nothing]
  /\ UNCHANGED <<session, library, kept, requests, seen, issued, run, news, observer, faults,
                 marks, byPost>>

DeleteDetached(s) ==
  /\ learner[s].at = "delete"
  /\ DeleteTopic(learner[s].topic)
  /\ learner' = [learner EXCEPT ![s] = Nothing]
  /\ UNCHANGED <<kept, requests, seen, issued, run, news, observer, faults, marks, byPost>>

----------------------------------------------------------------------------
(* auto-file-session *)

\* The function's idempotency expression is event.data.dispatchId.
Duplicate(e) == \E a \in seen : a.key = e.key

Deliver(e) ==
  /\ requests' = requests \ {e}
  /\ IF Duplicate(e) THEN UNCHANGED <<seen, run>>
     ELSE /\ seen' = seen \cup {e}
          /\ \E r \in Runs :
               /\ run[r].at = "idle" /\ \A q \in Runs : run[q].at = "idle" => r <= q
               /\ run' = [run EXCEPT ![r] = [Idle EXCEPT !.at = "claim", !.session = e.session]]
  /\ UNCHANGED <<session, library, learner, kept, issued, news, observer, faults, marks, byPost>>

GoTo(r, place) ==
  run' = [run EXCEPT ![r] = [@ EXCEPT !.at = place, !.tries = 0]] /\ UNCHANGED faults
Finish(r) == run' = [run EXCEPT ![r] = Idle] /\ UNCHANGED faults

\* The step is tried again, or the run fails.
Fault(r) ==
  /\ faults < MaxFaults
  /\ faults' = faults + 1
  /\ run' = IF run[r].tries < Retries THEN [run EXCEPT ![r].tries = @ + 1]
                                       ELSE [run EXCEPT ![r].at = "failing"]

\* A step that took effect: its receipt arrives or not.
Receipt(r, place) == GoTo(r, place) \/ Fault(r)

Fail(r) ==
  /\ run[r].at \in Steps \ {"delete"}
  /\ Fault(r)
  /\ UNCHANGED <<session, library, learner, kept, requests, seen, issued, news, observer, marks,
                 byPost>>

\* Mutant: only a topic or a date of filing stops the claim.
ClaimAnyStatus(r) ==
  LET s == run[r].session IN
  /\ run[r].at = "claim"
  /\ IF Unfiled(s) THEN Becomes(s, "pending", "own") /\ GoTo(r, "file")
                   ELSE Finish(r) /\ UNCHANGED <<session, claimant>>
  /\ UNCHANGED <<library, learner, kept, requests, seen, issued, news, observer, overridden,
                 byPost>>
\* claimSessionForAutoFiling
Claim(r) ==
  LET s == run[r].session IN
  /\ run[r].at = "claim"
  /\ IF Unfiled(s) /\ Is(s, "null")
     THEN \/ Becomes(s, "pending", "own") /\ GoTo(r, "file")
          \/ Becomes(s, "pending", "lost") /\ Fault(r)
     ELSE Finish(r) /\ UNCHANGED <<session, claimant>>
  /\ UNCHANGED <<library, learner, kept, requests, seen, issued, news, observer, overridden,
                 byPost>>

\* The transcript, which a session that is still there has within the day, and
\* fileToLibrary and resolveFilingResult
Resolve(r, t) ==
  LET s == run[r].session IN
  /\ run[r].at = "file" /\ session[s].there
  /\ Resolved(s, t)
  /\ \/ /\ run' = [run EXCEPT ![r] = [@ EXCEPT !.at = "finalize", !.topic = t, !.tries = 0]]
        /\ UNCHANGED faults
     \/ Fault(r)
  /\ UNCHANGED <<session, learner, kept, requests, seen, issued, news, observer, marks, byPost>>

\* Mutant: a result of null is not looked at.
UnresolvedUnnoticed(r) ==
  /\ run[r].at = "file" /\ ~session[run[r].session].there
  /\ GoTo(r, "finalize")
  /\ UNCHANGED <<session, library, learner, kept, requests, seen, issued, news, observer, marks,
                 byPost>>
\* No transcript any more; or no row left in the model.
Unresolved(r) ==
  /\ run[r].at = "file"
  /\ session[run[r].session].there => \A t \in Topics : library[t] = Gone
  /\ GoTo(r, "failing")
  /\ UNCHANGED <<session, library, learner, kept, requests, seen, issued, news, observer, marks,
                 byPost>>

\* Mutant: the update does not ask whether the session is still pending.
FinalizeRegardless(r) ==
  LET s == run[r].session t == run[r].topic IN
  /\ run[r].at = "finalize"
  /\ IF library[t] = Gone \/ ~session[s].there
     THEN GoTo(r, "failing") /\ UNCHANGED <<session, claimant>>
     ELSE /\ session' = [session EXCEPT ![s] =
               [@ EXCEPT !.topic = t, !.filed = TRUE, !.status = "recovered"]]
          /\ ClaimedBy(s, "own") /\ Receipt(r, "notify")
  /\ UNCHANGED <<library, learner, kept, requests, seen, issued, news, observer, overridden,
                 byPost>>
\* markSessionAutoFiled; a topic that is gone is refused by the foreign key.
Finalize(r) ==
  LET s == run[r].session t == run[r].topic IN
  /\ run[r].at = "finalize"
  /\ IF ~Is(s, "pending") THEN GoTo(r, "cleanup") /\ UNCHANGED <<session, claimant>>
     ELSE IF library[t] = Gone THEN GoTo(r, "failing") /\ UNCHANGED <<session, claimant>>
     ELSE /\ session' = [session EXCEPT ![s] =
               [@ EXCEPT !.topic = t, !.filed = TRUE, !.status = "recovered"]]
          /\ ClaimedBy(s, "own") /\ Receipt(r, "notify")
  /\ UNCHANGED <<library, learner, kept, requests, seen, issued, news, observer, overridden,
                 byPost>>

\* The topic of a filing that lost its session
CheckRaced(r) ==
  /\ run[r].at = "cleanup"
  /\ IF SafeToDelete(run[r].session, run[r].topic) THEN GoTo(r, "delete") ELSE Finish(r)
  /\ UNCHANGED <<session, library, learner, kept, requests, seen, issued, news, observer, marks,
                 byPost>>

DeleteRaced(r) ==
  /\ run[r].at = "delete"
  /\ DeleteTopic(run[r].topic)
  /\ Finish(r)
  /\ UNCHANGED <<learner, kept, requests, seen, issued, news, observer, marks, byPost>>

Notify(r) ==
  /\ run[r].at = "notify"
  /\ Announced(run[r].session)
  /\ Finish(r)
  /\ UNCHANGED <<session, library, learner, kept, requests, seen, issued, marks, byPost>>

\* Mutant: a run that fails leaves the session as it is.
MarkFailedNever(r) ==
  /\ run[r].at = "failing"
  /\ Finish(r)
  /\ UNCHANGED <<session, library, learner, kept, requests, seen, issued, news, observer, marks,
                 byPost>>
\* markSessionAutoFilingFailed, in onFailure or in a branch of the function
MarkFailed(r) ==
  LET s == run[r].session IN
  /\ run[r].at = "failing"
  /\ IF Is(s, "pending") THEN Becomes(s, "failed", "own") ELSE UNCHANGED <<session, claimant>>
  /\ Finish(r)
  /\ UNCHANGED <<library, learner, kept, requests, seen, issued, news, observer, overridden,
                 byPost>>

----------------------------------------------------------------------------
(* POST /filing, and filing.retry *)

\* markSessionFiled and two updates of the observer of slow filings ask for no
\* status: one overrides a session that is filed or kept out.
Override(s) ==
  overridden' = IF Unfiled(s) /\ session[s].status # "kept_out" THEN overridden
                ELSE overridden \cup {s}

\* The learner files the session on the spot.
Post(s) ==
  /\ session[s].there /\ ~session[s].active /\ s \notin posting
  /\ Called
  /\ posting' = posting \cup {s}
  /\ kept' = kept \ {s}
  /\ UNCHANGED <<session, library, learner, requests, seen, issued, run, news, observer, faults,
                 marks, refile>>

\* fileToLibrary, and resolveFilingResult and markSessionFiled, taken together and
\* whatever has happened since; the event may not be sent. A choice of topic that
\* failed has been replaced by the fallback, with filing.retry on its way.
PostFiles(s, t) ==
  /\ s \in posting /\ session[s].there
  /\ posting' = posting \ {s}
  /\ Resolved(s, t)
  /\ session' = [session EXCEPT ![s] = [@ EXCEPT !.topic = t, !.filed = TRUE]]
  /\ overridden' = overridden \cup {s}
  /\ \/ Announced(s) /\ UNCHANGED <<faults, refile>>
     \/ Erring /\ UNCHANGED <<news, observer, refile>>
     \/ Announced(s) /\ Erring /\ refile' = refile \cup {s}
  /\ UNCHANGED <<learner, kept, requests, seen, issued, run, claimant, calls>>

\* One of them throws, as they do if the session is gone: filing.retry, by safeSend
PostFails(s) ==
  /\ s \in posting
  /\ posting' = posting \ {s}
  /\ \/ ~session[s].there /\ UNCHANGED faults
     \/ Erring
  /\ refile' \in {refile, refile \cup {s}}
  /\ UNCHANGED <<session, library, learner, kept, requests, seen, issued, run, news, observer,
                 marks, calls>>

\* POST /filing/request-retry: claimSessionForFilingRetry and filing.retry, or
\* an error if it cannot be sent
RequestRetry(s) ==
  /\ Is(s, "failed")
  /\ Called
  /\ \/ Becomes(s, "pending", "retry") /\ refile' = refile \cup {s} /\ UNCHANGED faults
     \/ Becomes(s, "pending", "lost") /\ Erring /\ UNCHANGED refile
  /\ UNCHANGED <<library, learner, kept, requests, seen, issued, run, news, observer, overridden,
                 posting>>

\* freeform-filing-retry finds the session filed or resolves a topic for it, and
\* announces that, to the observer too; it does not write the session. Its steps
\* are taken together.
Refile(s) ==
  /\ s \in refile /\ session[s].there
  /\ refile' = refile \ {s}
  /\ \/ session[s].filed /\ UNCHANGED library
     \/ \E t \in Topics : Resolved(s, t)
  /\ \/ observer[s] # "wait" /\ Announced(s)
     \/ observer[s] = "wait" /\ news' = news \cup {s}
        /\ observer' = [observer EXCEPT ![s] = "answered"]
  /\ UNCHANGED <<session, learner, kept, requests, seen, issued, run, faults, marks, posting,
                 calls>>

\* No consent, no transcript, or its retries are used up: nothing is written.
RefileEnds(s) ==
  /\ s \in refile
  /\ refile' = refile \ {s}
  /\ claimant' = IF claimant[s] = "retry" THEN [claimant EXCEPT ![s] = "lost"] ELSE claimant
  /\ UNCHANGED <<session, library, learner, kept, requests, seen, issued, run, news, observer,
                 faults, overridden, posting, calls>>

----------------------------------------------------------------------------
(* The observers *)

\* filing-completed-observe
Completed(s) ==
  /\ s \in news
  /\ news' = news \ {s}
  /\ IF Is(s, "pending") \/ Is(s, "failed")
     THEN /\ session' = [session EXCEPT ![s] = [@ EXCEPT !.filed = TRUE, !.status = "recovered"]]
          /\ ClaimedBy(s, "own")
     ELSE UNCHANGED <<session, claimant>>
  /\ UNCHANGED <<library, learner, kept, requests, seen, issued, run, observer, faults, overridden,
                 byPost>>

Observes(s, from, to) == observer[s] = from /\ observer' = [observer EXCEPT ![s] = to]

\* No filing.completed within the minute: filing_timed_out
TimeOut(s) ==
  /\ Observes(s, "window", "queued")
  /\ UNCHANGED <<session, library, learner, kept, requests, seen, issued, run, news, faults,
                 marks, byPost>>

\* filing-timed-out-observe, which Inngest runs once a day for a session, reads
\* the session again.
Reread(s) ==
  /\ observer[s] = "queued"
  /\ observer' = [observer EXCEPT ![s] =
                    IF ~session[s].filed THEN "claim"
                    ELSE IF session[s].status \in {"pending", "failed"} THEN "late" ELSE "over"]
  /\ UNCHANGED <<session, library, learner, kept, requests, seen, issued, run, news, faults,
                 marks, byPost>>

\* mark-pending-and-claim-retry-slot, whatever the status is by then, and the
\* request, which is on its way for as long as it likes
ClaimRetry(s) ==
  /\ observer[s] = "claim"
  /\ IF session[s].there
     THEN /\ Becomes(s, "pending", "own") /\ Override(s)
          /\ issued' = issued + 1 /\ Requested(s, issued + 1)
          /\ observer' = [observer EXCEPT ![s] = "wait"]
     ELSE /\ observer' = [observer EXCEPT ![s] = "over"]
          /\ UNCHANGED <<session, requests, issued, marks>>
  /\ UNCHANGED <<library, learner, kept, seen, run, news, faults, byPost>>

\* mark-recovered and mark-recovered-after-retry, whatever the status is by then
MarkRecovered(s) ==
  /\ observer[s] \in {"late", "answered"}
  /\ observer' = [observer EXCEPT ![s] = IF @ = "late" THEN "over" ELSE "claimed"]
  /\ IF session[s].there THEN Becomes(s, "recovered", "own") /\ Override(s)
                         ELSE UNCHANGED <<session, marks>>
  /\ UNCHANGED <<library, learner, kept, requests, seen, issued, run, news, faults, byPost>>

\* A minute later, if no filing.retry_completed has come: mark-failed
GiveUp(s) ==
  /\ Observes(s, "wait", "claimed")
  /\ IF Is(s, "pending") THEN Becomes(s, "failed", "own") ELSE UNCHANGED <<session, claimant>>
  /\ UNCHANGED <<library, learner, kept, requests, seen, issued, run, news, faults, overridden,
                 byPost>>

----------------------------------------------------------------------------

\* The concurrency key: one step at a time for a session. A cleanup is two
\* steps here; every other step is one action.
Alone(r) == \A q \in Runs \ {r} : ~(run[q].at = "delete" /\ run[q].session = run[r].session)

RunStep(r) ==
  \/ /\ Alone(r)
     /\ \/ Claim(r) \/ Unresolved(r) \/ Finalize(r) \/ CheckRaced(r)
        \/ DeleteRaced(r) \/ Notify(r) \/ Fail(r)
        \/ \E t \in Topics : Resolve(r, t)
  \/ MarkFailed(r)
ObserverStep(s) ==
  TimeOut(s) \/ Reread(s) \/ ClaimRetry(s) \/ MarkRecovered(s) \/ GiveUp(s)
LearnerStep(s) == Ask(s) \/ KeepOut(s) \/ Detach(s) \/ CheckDetached(s) \/ DeleteDetached(s)
PostStep(s) ==
  \/ Post(s) \/ PostFails(s) \/ RequestRetry(s)
  \/ \E t \in Topics : PostFiles(s, t)
RefileStep(s) == Refile(s) \/ RefileEnds(s)

Next ==
  \/ \E s \in Sessions : \/ Close(s) \/ AwaitFiling(s) \/ Backfill(s)
                         \/ LearnerStep(s) \/ PostStep(s) \/ RefileStep(s)
                         \/ ObserverStep(s) \/ Completed(s)
  \/ \E e \in requests : Deliver(e)
  \/ \E r \in Runs : RunStep(r)

\* Inngest delivers events, goes on with the runs it began and lets a wait end.
Fairness ==
  /\ WF_vars(\E e \in requests : Deliver(e))
  /\ \A r \in Runs : WF_vars(RunStep(r))
  /\ \A s \in Sessions :
       WF_vars(ObserverStep(s)) /\ WF_vars(Completed(s)) /\ WF_vars(RefileStep(s))

Spec == Init /\ [][Next]_vars /\ Fairness

----------------------------------------------------------------------------
(* Properties *)

TypeOK ==
  /\ session \in [Sessions -> Row]
  /\ library \in [Topics -> Sessions \cup {Free, Gone}]
  /\ learner \in [Sessions -> [at : {"idle", "keeping", "cleanup", "delete"},
                               topic : Topics \cup {None}]]
  /\ kept \subseteq Sessions /\ news \subseteq Sessions
  /\ posting \subseteq Sessions /\ calls \in 0..MaxCalls /\ refile \subseteq Sessions
  /\ claimant \in [Sessions -> Claimants] /\ overridden \subseteq Sessions
  /\ requests \subseteq Request /\ seen \subseteq Request
  /\ issued \in Keys /\ faults \in 0..MaxFaults
  /\ run \in [Runs -> [at : Steps \cup {"idle", "failing"}, session : Sessions \cup {None},
                       topic : Topics \cup {None}, tries : 0..Retries]]
  /\ observer \in [Sessions -> ObserverSteps]
  /\ \A r \in Runs : run[r].at \in {"finalize", "cleanup", "delete"} => run[r].topic \in Topics

\* A session the learner has kept out stays out until the learner asks for it or
\* files it, whatever runs, retries and late news there are - unless one of the
\* three writes that ask for no status has overridden it since: the observer's
\* two, and that of a POST /filing which was under way when it was kept out.
KeepOutStands ==
  \A s \in kept \ overridden :
    session[s].there => Unfiled(s) /\ session[s].status = "kept_out"

\* A POST /filing of the session ends with this step.
Posted(s) == s \in posting /\ s \notin posting'

\* The session stays under the topic it was filed under until the learner keeps
\* it out: a second run, or the same step once more, does not file it again.
\* Only a POST /filing does, and a run that finds it pending because one of the
\* writes that ask for no status has come between.
FilingSticks ==
  [][\A s \in Sessions :
       session[s].topic # None /\ session'[s].topic # session[s].topic =>
         \/ ~session'[s].there \/ session'[s].status = "kept_out"
         \/ Posted(s) \/ s \in overridden]_vars

\* A session does not stay pending: every run that claimed it, every observer
\* that marked it and every retry that announces a filing settles it. Two claims
\* are nobody's to settle: one whose receipt was lost, as its repetition finds
\* the session claimed and ends; and one of request-retry whose event was not
\* sent or whose run ended without filing.
PendingEnds ==
  \A s \in Sessions : Is(s, "pending") ~> ~Is(s, "pending") \/ claimant[s] = "lost"

\* session-stale-cleanup.ts, on the dispatchId 'initial': the function "dedupes a
\* cron dispatch against any route dispatch for the same session", and drops no
\* request but for one of the same session.
OnlyOwnDuplicates ==
  [][\A e \in requests : e \notin requests' /\ seen' = seen =>
       \E a \in seen : a = e]_vars

=============================================================================
