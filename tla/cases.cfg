SPECIFICATION FairSpec
CONSTANTS
  a = a
  b = b
  N = 2
  Sems = {a, b}
  Limit <- LimitOne
  Cases <- Independent
  MaxRounds = 2
INVARIANTS
  TypeOK
  RoundAgreement
  HandshakeNeverBlocks
  RunningUntilFirstStops
  ErrorMeansDeath
  NoProcessLeft
  SemaphoresDrained
  InStep
  CgroupsOutliveProcesses
PROPERTIES
  RoundsEnd
  DropEnds
CHECK_DEADLOCK FALSE
