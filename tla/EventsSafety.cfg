CONSTANTS
  e1 = e1
  e2 = e2
  e3 = e3
  w1 = w1
  w2 = w2
  t1 = t1
  none = none
  Events <- MCThree
  Histories <- MCHistories
  Starts <- MCStarts
  Workers <- MCWorkers
  Txns = {t1}
  NoEvent = none
  MaxDeliveries = 2
SPECIFICATION Spec
CHECK_DEADLOCK FALSE
INVARIANTS TypeOK AppliedOnce NothingLost NewestDecides GrantedOnce TopUpHonoured
SYMMETRY MCSymmetry
