SPECIFICATION Spec
CONSTANTS
  a = a
  b = b
  w1 = w1
  w2 = w2
  Downloads <- MCDownloads
  Workers <- MCWorkers
  LaneCapacity = 1
  Choices <- MCChoices
  Parts = 2
SYMMETRY Symmetric
INVARIANTS WholeUnlessRival AtomicOutcome TempSweptUp
CHECK_DEADLOCK FALSE
