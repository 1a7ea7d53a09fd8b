------------------------ MODULE MCSubscriptionEvents ------------------------
(* Small instances of SubscriptionEvents: two or three events of many         *)
(* kinds, delivered up to twice each in any order by two concurrent requests. *)
EXTENDS SubscriptionEvents, TLC

CONSTANTS e1, e2, e3, w1, w2, t1, none

MCThree == {e1, e2, e3}
MCWorkers == {w1, w2}
MCSymmetry == Permutations(MCWorkers)

\* Payload builders; `at` is filled in by the history.
Sub(type, tier) ==
  [type |-> type, at |-> 1, tier |-> tier, period |-> "NORMAL", refund |-> FALSE, txn |-> t1]
Trial(type) == [Sub(type, "plus") EXCEPT !.period = "TRIAL"]
Unmarked(type) == [Sub(type, "plus") EXCEPT !.period = "absent"]
Refund == [Sub("CANCELLATION", "plus") EXCEPT !.refund = TRUE]

At(payload, time) == [payload EXCEPT !.at = time]
InOrder(p, q, r) == e1 :> At(p, 1) @@ e2 :> At(q, 2) @@ e3 :> At(r, 3)
Two(p, q) == e1 :> At(p, 1) @@ e2 :> At(q, 2)
AtOnce(p, q) == e1 :> At(p, 1) @@ e2 :> At(q, 1)

Purchases == {Sub("INITIAL_PURCHASE", "plus"), Sub("INITIAL_PURCHASE", "family"),
              Trial("INITIAL_PURCHASE")}
Changes == {Sub("RENEWAL", "plus"), Sub("PRODUCT_CHANGE", "family"),
            Sub("UNCANCELLATION", "plus"), Sub("CANCELLATION", "plus")}
Ends == {Sub("BILLING_ISSUE", "plus"), Refund, Sub("EXPIRATION", "plus"),
         Trial("EXPIRATION"), Unmarked("EXPIRATION")}
TopUps == {Sub("NON_RENEWING_PURCHASE", "plus")}

Payloads == Purchases \cup Changes \cup Ends \cup TopUps
\* Any two events; two of the same millisecond; a purchase, a change and what
\* ends it.
MCHistories ==
  {Two(p, q) : p \in Payloads, q \in Payloads}
    \cup {AtOnce(p, q) : p \in Purchases \cup TopUps, q \in Ends}
    \cup {InOrder(p, q, r) : p \in Purchases, r \in {Sub("BILLING_ISSUE", "plus"), Sub("EXPIRATION", "plus")},
            q \in {Sub("RENEWAL", "plus"), Sub("PRODUCT_CHANGE", "family"), Sub("CANCELLATION", "plus")}}

Start(status, tier, ends) ==
  [status |-> status, tier |-> tier, lastId |-> none, lastTs |-> 0, trialEnds |-> ends]
MCStarts == {Start("active", "free", "none"), Start("trial", "plus", "over"),
             Start("active", "family", "none"), Start("cancelled", "plus", "none")}
=============================================================================
