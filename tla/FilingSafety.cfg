CONSTANTS
  s1 = s1
  s2 = s2
  none = none
  free = free
  gone = gone
  Sessions <- MCOneSession
  Topics <- MCTopics
  Runs <- MCRuns
  None = none
  Free = free
  Gone = gone
  Retries = 1
  MaxFaults = 1
  MaxAsks = 1
  MaxCalls = 2
SPECIFICATION Spec
CHECK_DEADLOCK FALSE
INVARIANTS TypeOK KeepOutStands
PROPERTIES FilingSticks PendingEnds
