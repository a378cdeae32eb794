SPECIFICATION FairSpec
CONSTANTS
  a = a
  b = b
  N = 1
  Sems = {a}
  Limit <- LimitTwo
  Cases <- Together
  MaxRounds = 2
PROPERTIES
  RoundsEnd
CHECK_DEADLOCK FALSE
