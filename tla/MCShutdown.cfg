CONSTANTS
  g1 = g1
  g2 = g2
  g3 = g3
  int = int
  term = term
  Group = {g1, g2}
  Sig = {int, term}
  HookSig = int
  NoSig = NoSig
  NoGroup = NoGroup
  Starts = {"inherit", "capture", "spawn", "stream"}
  MaxPending = 2
  MaxStrangers = 1
SYMMETRY Symmetry
SPECIFICATION Spec
CHECK_DEADLOCK FALSE
INVARIANTS HookWorkSpared NothingOutlives
PROPERTIES HookRunsOnce BudgetRespected GraceBeforeKill OnlyCleanupStarts StrayOnlyWhenStale
