CONSTANTS
  N = 2
  Codes <- ExitCodes
  Lists <- SomeLists
SPECIFICATION FairSpec
CHECK_DEADLOCK FALSE
INVARIANTS VerdictFollowsRule ReportedTruthfully ReapedUnlessAbandoned StrayOnlyAtLimit
PROPERTIES WaitEnds
