SPECIFICATION FairSpec
CONSTANTS
  p1 = p1
  Participants <- OneParticipant
  Failures = {"replay", "abort", "worker", "leave"}
  MaxFaults = 1
PROPERTIES EndsUnlessStranded CancelledLeavesNothing
CHECK_DEADLOCK FALSE
