--------------------------- MODULE DurableErasure ---------------------------
(* What erasing an account promises, whatever fails in between: only an order *)
(* that stands erases it, whoever was told of the order is not let down in     *)
(* silence, and the users that went with the account are erased at Clerk as    *)
(* well - they, and none who has a login again.                                *)

CONSTANT Users

VARIABLES
  there,     \* the account exists in the database
  ordered,   \* its erasure is ordered and not taken back
  promised,  \* somebody was told so, and has not got it yet
  hidden,    \* the account is kept where nobody sees it
  owed,      \* users that were erased from the database
  clerk,     \* users Clerk knows
  login,     \* users with a login
  working,   \* something is under way
  excused    \* a failure was reported

account == <<there, ordered, promised, hidden, owed, clerk, login>>
vars == <<account, working, excused>>

\* What is promised or owed has somebody working on it, or a report.
Answerable ==
  /\ promised => ordered
  /\ promised \/ owed \cap clerk # {} => working \/ excused

Init ==
  /\ there = TRUE /\ ordered = FALSE /\ promised = FALSE /\ hidden = FALSE
  /\ owed = {} /\ clerk = Users /\ login = Users
  /\ working = FALSE /\ excused = FALSE

Order ==
  /\ there
  /\ ordered' = TRUE
  /\ UNCHANGED <<there, promised, hidden, owed, clerk, login>>

Promise ==
  /\ there /\ ordered
  /\ promised' = TRUE
  /\ UNCHANGED <<there, ordered, hidden, owed, clerk, login>>

TakeBack ==
  /\ there
  /\ ordered' = FALSE /\ promised' = FALSE /\ hidden' = FALSE
  /\ UNCHANGED <<there, owed, clerk, login>>

\* The erasure is put off, and here alone a promise may get lost.
Hide ==
  /\ there /\ ordered
  /\ hidden' = TRUE /\ promised' \in {promised, FALSE}
  /\ UNCHANGED <<there, ordered, owed, clerk, login>>

Erase ==
  /\ there /\ ordered
  /\ there' = FALSE /\ promised' = FALSE /\ hidden' = FALSE
  /\ owed' \subseteq login
  /\ login' = login \ owed'
  /\ UNCHANGED <<ordered, clerk>>

\* At Clerk
Follow(u) ==
  /\ u \in owed \ login
  /\ clerk' = clerk \ {u}
  /\ UNCHANGED <<there, ordered, promised, hidden, owed, login>>

\* A user whom Clerk knows signs up.
Return(u) ==
  /\ u \in clerk
  /\ login' = login \cup {u}
  /\ UNCHANGED <<there, ordered, promised, hidden, owed, clerk>>

\* Work begins and ends, and failures are reported, with or without any of this.
Next ==
  /\ \/ Order \/ Promise \/ TakeBack \/ Hide \/ Erase
     \/ \E u \in Users : Follow(u) \/ Return(u)
     \/ UNCHANGED account
  /\ working' \in BOOLEAN /\ excused' \in BOOLEAN
  /\ excused => excused'
  /\ Answerable'

Spec == Init /\ [][Next]_vars
=============================================================================
