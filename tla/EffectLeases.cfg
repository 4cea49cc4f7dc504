SPECIFICATION FairSpec
CONSTANTS
  r1 = r1
  r2 = r2
  room = room
  dispatch = dispatch
  NoOwner = NoOwner
  Runners <- TwoRunners
  Effects <- Pair
  Deps <- DispatchAfterRoom
  Colliding <- DispatchOnly
  Drifted <- None
  CallsFitLease = FALSE
  MaxGeneration = 2
  MaxBatch = 1
  MaxFaults = 2
INVARIANTS RequestRespectsDeps
PROPERTIES SettledIsFinal OnlyOwnerWrites EventuallySettled
CHECK_DEADLOCK FALSE
