SPECIFICATION FairSpec
CONSTANTS
  h1 = h1
  h2 = h2
  j1 = j1
  None = None
  Handles <- MCHandles
  Jobs <- MCJobs
  KindsOf <- MCKindsOf
  MaxDepth = 2
  MaxList = 2
  JobLimit = 1
  ByteLimit = 1
INVARIANTS CountsExact NothingEscapes ReservationExact TableIsUnreaped
PROPERTIES CancelsAll CallsReturn
CHECK_DEADLOCK FALSE
