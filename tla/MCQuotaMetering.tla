-------------------------- MODULE MCQuotaMetering --------------------------
(* Small instances of QuotaMetering. The tiers keep the order and the shape *)
(* of TIER_CONFIGS (services/subscription.ts) at a scale of a few requests: *)
(* free is the smallest and has a daily stop, plus meters each person and   *)
(* sells top-ups to its owner, family is one pool without a daily stop.     *)
EXTENDS QuotaMetering, TLC

CONSTANTS anna, ben, r1, r2, r3, pool, nobody

MCProfiles == {anna, ben}
MCRequests == {r1, r2, r3}
MCTwoRequests == {r1, r3}
MCTiers == {"free", "plus", "family"}
MCMonthly ==
  [free   |-> [pool |-> 1, owner |-> 1, child |-> 1],
   plus   |-> [pool |-> 2, owner |-> 1, child |-> 2],
   family |-> [pool |-> 2, owner |-> 2, child |-> 2]]
MCDaily ==
  [free   |-> [pool |-> 1, owner |-> 1, child |-> 1],
   plus   |-> [pool |-> NoLimit, owner |-> NoLimit, child |-> 1],
   family |-> [pool |-> NoLimit, owner |-> NoLimit, child |-> NoLimit]]
MCTopUp == [free |-> 0, plus |-> 2, family |-> 1]
MCProfileOf == [r \in Requests |-> IF r = r3 THEN ben ELSE anna]
MCRethrowing == {r3}
MCCredits == {1}

\* The two requests of the owner are interchangeable.
OwnerRequests == Permutations({r1, r2})
=============================================================================
