SPECIFICATION FairSpec
CONSTANTS
  p = p
  c = c
  d = d
  Threads = {p, c, d}
  Calls <- ManyCalls
  Max = 2
  WAITER = 4
  S = 0
  R = 0
  MaxCalls <- Two
INVARIANTS
  BlocksOnlyWhileShort
  IInv
PROPERTIES
  Linearizable
  NeverStarved
CHECK_DEADLOCK FALSE
