----------------------------- MODULE ClerkFence -----------------------------
(* The login rows, Clerk's users behind them and the pending_clerk_erasure    *)
(* fence between the two (identity-v2/deletion-v2.ts): whoever erases a person *)
(* from the database erases the Clerk user later, outside the transaction, and *)
(* meanwhile the same Clerk user must neither sign up again nor be erased once *)
(* it has.                                                                     *)
EXTENDS Integers, FiniteSets

CONSTANT Users  \* Clerk users

VARIABLES
  clerk,  \* users Clerk knows
  stale,  \* users Clerk erased, of whom a token is still valid
  login,  \* users with a login row
  fence   \* user -> its pending_clerk_erasure row, if it has not elapsed

identity == <<clerk, stale, login, fence>>

Fences == {"none", "pending", "releasing"}

IdentityInit ==
  /\ clerk = Users /\ stale = {}
  /\ login = Users
  /\ fence = [u \in Users |-> "none"]

\* reservePendingClerkErasuresTx, for 24 hours
Reserved(U) == [u \in Users |-> IF u \in U THEN "pending" ELSE fence[u]]

\* The check of ensurePendingClerkErasures
Rebound(U) == U \cap login # {}

\* Mutant: the work is done, so the fence is taken down.
ReleasedAtOnce(U) == [u \in Users |-> IF u \in U THEN "none" ELSE fence[u]]
\* markPendingClerkErasuresComplete: 15 more minutes, for the rows there are
Released(U) ==
  [u \in Users |-> IF u \in U /\ fence[u] # "none" THEN "releasing" ELSE fence[u]]

\* DELETE /v1/users/:id at Clerk; an unknown user (404) counts as erased.
EraseUser(u) ==
  /\ clerk' = clerk \ {u}
  /\ stale' = IF u \in clerk THEN stale \cup {u} ELSE stale
  /\ UNCHANGED <<login, fence>>

\* createIdentityGraph for a signed-in user, behind
\* assertClerkIdentityBootstrapAllowedTx
SignUp(u) ==
  /\ u \in clerk \cup stale
  /\ u \notin login /\ fence[u] = "none"
  /\ login' = login \cup {u}
  /\ UNCHANGED <<clerk, stale, fence>>

TokenExpires(u) ==
  /\ u \in stale
  /\ stale' = stale \ {u}
  /\ UNCHANGED <<clerk, login, fence>>

\* release_after passes: a bootstrap ignores the row from then on, and
\* deleteExpiredClerkErasureFences removes it. Both deadlines outlast a token,
\* and 24 hours outlast the calls to Clerk that a step makes (busy).
FenceElapses(u, busy) ==
  /\ fence[u] # "none" /\ u \notin stale \cup busy
  /\ fence' = [fence EXCEPT ![u] = "none"]
  /\ UNCHANGED <<clerk, stale, login>>

IdentityOK ==
  /\ clerk \subseteq Users /\ stale \subseteq Users \ clerk
  /\ login \subseteq Users /\ fence \in [Users -> Fences]

\* No login is bound to a user Clerk no longer knows: a token that outlives its
\* user cannot sign it up again while an erasure, its retry or its receipt are
\* still on the way.
NoGhostLogin == login \subseteq clerk
=============================================================================
