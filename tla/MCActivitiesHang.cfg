SPECIFICATION FairSpec
CONSTANTS
  h1 = h1
  h2 = h2
  j1 = j1
  None = None
  Handles <- MCHandles
  Jobs = {}
  KindsOf <- MCPlain
  MaxDepth = 1
  MaxList = 2
  JobLimit = 1
  ByteLimit = 1
PROPERTIES CancelReturns
CHECK_DEADLOCK FALSE
