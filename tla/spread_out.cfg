SPECIFICATION FairSpec
CONSTANTS
  Missing = Missing
  Junk = Junk
  Width = 2
  Words = 2
  MinTime = 2
  MaxTime = 3
  Threshold = 95
  MaxIters = 1000
  Leap = 100
  Machines <- AllMachines
  Driven <- SomeMachines
  SampleEvery = 2
  MaxMoves = 2
INVARIANTS
  TypeOK
  SystemFaithful
  PassMeansCores
  
  CoverCountsByIds
PROPERTIES
  CaseEnds
CHECK_DEADLOCK FALSE
