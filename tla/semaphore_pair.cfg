SPECIFICATION Spec
CONSTANTS
  p = p
  c = c
  d = d
  Threads = {p, c}
  Calls <- PairCalls
  Max = 1
  WAITER = 4
  S = 2
  R = 1
  MaxCalls <- SevenAndOne
INVARIANTS
  TypeOK
  NoLostWakeup
  NoOverwrittenSample
CHECK_DEADLOCK FALSE
