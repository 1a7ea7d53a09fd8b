CONSTANTS
  anna = anna
  ben = ben
  r1 = r1
  r2 = r2
  r3 = r3
  pool = pool
  nobody = nobody
  Requests <- MCTwoRequests
  Profiles <- MCProfiles
  Owner = anna
  Pool = pool
  Nobody = nobody
  Credits <- MCCredits
  Tiers <- MCTiers
  Free = "free"
  Shared = {"family"}
  MonthlyQuota <- MCMonthly
  DailyQuota <- MCDaily
  TopUpAmount <- MCTopUp
  ProfileOf <- MCProfileOf
  Rethrowing <- MCRethrowing
  InitialPlans = {"plus", "family"}
  MaxResets = 1
  MaxChanges = 1
SPECIFICATION FairSpec
CHECK_DEADLOCK FALSE
PROPERTY AlwaysAnswered
