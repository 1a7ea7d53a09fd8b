CONSTANTS
  c1 = c1
  c2 = c2
  c3 = c3
  s1 = s1
  openai = openai
  anthropic = anthropic
  none = none
  Calls <- MCCalls
  Streams <- MCStream
  Keys <- MCKeys
  NoKey = none
  Primary <- MCPrimary
  Fallback <- MCFallback
  Threshold = 3
SPECIFICATION FairSpec
CHECK_DEADLOCK FALSE
INVARIANT TypeOK
INVARIANT ProbeHeld
INVARIANT NoSingleRequestTrips
PROPERTY ProbeSettles
