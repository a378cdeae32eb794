SPECIFICATION Spec
CONSTANTS
  s1 = s1
  s2 = s2
  Samplers = {s1, s2}
  N = 2
  Unwritten = Unwritten
  MaxSamples = 3
  MaxCollections = 2
INVARIANT CollectedWereTaken
CHECK_DEADLOCK FALSE
