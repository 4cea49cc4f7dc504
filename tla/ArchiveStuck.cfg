SPECIFICATION FairSpec
CONSTANTS
  r1 = r1
  r2 = r2
  c1 = c1
  k1 = k1
  o1 = o1
  NoOwner = NoOwner
  Reconcilers <- OneReconciler
  Captures <- OneCapture
  Evidence <- CaptionAndObject
  Captions <- CaptionOnly
  Required <- ObjectOnly
  ProviderGaps <- None
  MaxFaults = 1

PROPERTIES ReconciliationEnds
CHECK_DEADLOCK FALSE
