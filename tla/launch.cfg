SPECIFICATION FairSpec
CONSTANTS
  Runner = Runner
  Box = Box
  Sched = Sched
  Daemon = Daemon
  Pids = {Runner, Box, Sched, Daemon}
  Handles = {Box, Sched}
  Owner <- OwnerOf
  Causes <- SomeCauses
  Ok = Ok
  Unset = Unset
  MaxTests = 2
INVARIANTS
  TypeOK
  ReasonIsTrue
  NothingLeftBehind
  PipeIsFree
PROPERTIES
  Honest
  RunEnds
  DeathSpreads
CHECK_DEADLOCK FALSE
