CONSTANTS
  r1 = r1
  r2 = r2
  none = none
  Requests <- MCPair
  KindOf <- MCFailingKinds
  Limits = {1, 2}
  DailyLimit = 2
  InitialTopUps = {0, 1}
  NoEntry = none
  MaxResets = 1
  MaxChanges = 0
SPECIFICATION FairSpec
CHECK_DEADLOCK FALSE
PROPERTY RefundFollows
