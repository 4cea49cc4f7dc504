SPECIFICATION Spec
CONSTANTS
  e1 = e1
  e2 = e2
  Evidence <- TwoRecords
  Replayable <- Second
  Seal = Seal
  Root = Root
  Unwritten = Unwritten
  MaxInterim = 1
  MaxFaults = 1
  MaxRejects = 1
INVARIANTS TypeOK SealCoversEvidence IndexedHasFile SpoolNeverAhead EvidenceKept AcceptedChains OneTerminalPair
CHECK_DEADLOCK FALSE
