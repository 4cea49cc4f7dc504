SPECIFICATION FairSpec
CONSTANTS
  MaxAttempts = 3
  Window = 2
  MaxFrames = 3
  MaxFaults = 3
INVARIANTS TypeOK StreamIsSeamless NoStreamLeft
PROPERTIES SessionSettles
CHECK_DEADLOCK FALSE
