SPECIFICATION FairSpec
CONSTANTS
  r1 = r1
  r2 = r2
  c1 = c1
  k1 = k1
  o1 = o1
  NoOwner = NoOwner
  Reconcilers <- TwoReconcilers
  Captures <- OneCapture
  Evidence <- CaptionAndObject
  Captions <- CaptionOnly
  Required <- ObjectOnly
  ProviderGaps <- None
  MaxFaults = 2
INVARIANTS TypeOK InventoryIsStored CompleteIsProof IncompleteNamesGap InventoryCoversRows
PROPERTIES EndsUnlessStuck
CHECK_DEADLOCK FALSE
