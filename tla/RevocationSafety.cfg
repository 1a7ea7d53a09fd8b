CONSTANTS
  teen = teen
  r1 = r1
  r2 = r2
  none = none
  Users <- MCUsers
  Runs <- MCRuns
  Grace = 1
  Retention = 1
  Window = 1
  MaxDay = 3
  Retries = 1
  MaxRevocations = 2
  MaxChanges = 1
  Never = none
SPECIFICATION Spec
CHECK_DEADLOCK FALSE
SYMMETRY Symmetry
INVARIANTS TypeOK WithdrawalKept NoticeTrue
PROPERTIES RestoreWins ImplementsDurableErasure
