SPECIFICATION Spec
CONSTANTS
  r1 = r1
  r2 = r2
  room = room
  dispatch = dispatch
  NoOwner = NoOwner
  Runners <- TwoRunners
  Effects <- Alone
  Deps <- NoDeps
  Colliding <- None
  Drifted <- None
  CallsFitLease = TRUE
  MaxGeneration = 3
  MaxBatch = 1
  MaxFaults = 5
SYMMETRY RunnerSymmetry
INVARIANTS TypeOK
PROPERTIES ImplementsContract
CHECK_DEADLOCK FALSE
