CONSTANTS
  k1 = k1
  k2 = k2
  q1 = q1
  q2 = q2
  none = none
  Keys <- MCKeys
  NoKey = none
  Requests <- MCRequests
  NoRequest = none
  MaxAttempts = 3
  MaxSpill = 2
  MaxStops = 1
SPECIFICATION Spec
CHECK_DEADLOCK FALSE
SYMMETRY Symmetry
INVARIANTS TypeOK NothingLost OneTurn
PROPERTY ImplementsDurableSend
