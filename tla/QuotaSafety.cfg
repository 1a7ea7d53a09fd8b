CONSTANTS
  anna = anna
  ben = ben
  r1 = r1
  r2 = r2
  r3 = r3
  pool = pool
  nobody = nobody
  Requests <- MCRequests
  Profiles <- MCProfiles
  Owner = anna
  Pool = pool
  Nobody = nobody
  Credits <- MCCredits
  Tiers <- MCTiers
  Free = "free"
  Shared = {"family"}
  MonthlyQuota <- MCMonthly
  DailyQuota <- MCDaily
  TopUpAmount <- MCTopUp
  ProfileOf <- MCProfileOf
  Rethrowing <- MCRethrowing
  InitialPlans = {"family"}
  MaxResets = 1
  MaxChanges = 1
SPECIFICATION Spec
CHECK_DEADLOCK FALSE
SYMMETRY OwnerRequests
INVARIANTS TypeOK MonthConserved DayConserved CreditConserved LedgerConserved
PROPERTY NoOverdraw
