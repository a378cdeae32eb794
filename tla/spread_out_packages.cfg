SPECIFICATION Spec
CONSTANTS
  Missing = Missing
  Junk = Junk
  Width = 2
  Words = 2
  MinTime = 2
  MaxTime = 3
  Threshold = 95
  MaxIters = 1000
  Leap = 100
  Machines <- TwoPackages
  Driven <- TwoPackages
  SampleEvery = 2
  MaxMoves = 2
INVARIANT CoverCounts
CHECK_DEADLOCK FALSE
