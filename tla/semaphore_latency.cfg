SPECIFICATION Spec
CONSTANTS
  p = p
  c = c
  d = d
  Threads = {p, c}
  Calls <- LatencyCalls
  Max = 1
  WAITER = 4
  S = 2
  R = 1
  MaxCalls <- Two
INVARIANT SampleFresh
CHECK_DEADLOCK FALSE
