SPECIFICATION FairSpec
CONSTANTS
  e1 = e1
  e2 = e2
  Evidence <- OneRecord
  Replayable <- None
  Seal = Seal
  Root = Root
  Unwritten = Unwritten
  MaxInterim = 1
  MaxFaults = 2
  MaxRejects = 1
PROPERTIES EpochEnds
CHECK_DEADLOCK FALSE
