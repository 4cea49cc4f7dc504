SPECIFICATION FairSpec
CONSTANTS
  v1 = v1
  v2 = v2
  late = late
  h1 = h1
  h2 = h2
  q1 = q1
  q2 = q2
  None = None
  Versions <- AllVersions
  Registered <- BothRegistered
  Holds <- BothHolds
  Requests <- BothRequests
  MaxEpoch = 2
  MaxFaults = 2
INVARIANTS TypeOK HoldProtects OneBarePerFault OperationHasHold DeletionExcludesHold
PROPERTIES DeletedOnlyWhileDeleting DeletionSettles
CHECK_DEADLOCK FALSE
