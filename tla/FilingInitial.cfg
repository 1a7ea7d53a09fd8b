CONSTANTS
  s1 = s1
  s2 = s2
  none = none
  free = free
  gone = gone
  Sessions <- MCSessions
  Topics <- MCTopics
  Runs <- MCOneRun
  None = none
  Free = free
  Gone = gone
  Retries = 0
  MaxFaults = 0
  MaxAsks = 0
  MaxCalls = 0
SPECIFICATION Spec
CHECK_DEADLOCK FALSE
PROPERTY OnlyOwnDuplicates
