CONSTANTS
  N = 2
  Codes <- ExitCodes
  Lists <- NoLists
SPECIFICATION Spec
CHECK_DEADLOCK FALSE
INVARIANTS EveryStartedReaped
