SPECIFICATION SharedFairSpec
CONSTANTS
  Blank = Blank
  v1 = v1
  v2 = v2
  Values = {v1, v2}
  MaxClones = 1
  Given <- GivenOf
  parent = parent
  child = child
  t1 = t1
  t2 = t2
  t3 = t3
  Procs = {parent, child}
  Creator = parent
  Threads = {t1, t2, t3}
  Home <- HomeOf
  Layouts <- LayoutsOf
  Requested = 3
  Page = 2
  Base = 4
  MaxCalls <- CallsOf
INVARIANTS
  TypeOK
  SharedTypeOK
  Disjoint
  WellPlaced
  ElementsKept
PROPERTIES
  AllocReturns
  RetriesGain
CHECK_DEADLOCK FALSE
