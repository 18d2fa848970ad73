CONSTANTS
  g1 = g1
  g2 = g2
  g3 = g3
  int = int
  term = term
  Group = {g1, g2}
  Sig = {int}
  HookSig = int
  NoSig = NoSig
  NoGroup = NoGroup
  Starts = {"capture", "spawn"}
  MaxPending = 1
  MaxStrangers = 0
SPECIFICATION FairSpec
CHECK_DEADLOCK FALSE
PROPERTIES SignalStartsShutdown ShutdownEndsScript
