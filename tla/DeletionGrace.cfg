CONSTANTS
  owner = owner
  teen = teen
  q1 = q1
  q2 = q2
  r1 = r1
  r2 = r2
  none = none
  Users <- MCUsers
  Owner = owner
  Requests <- MCRequests
  Runs <- MCRuns
  Grace = 2
  Window = 1
  MaxDay = 3
  Retries = 1
  MaxChanges = 1
  NoRows = none
SPECIFICATION Spec
CHECK_DEADLOCK FALSE
PROPERTY GraceHonoured
