SPECIFICATION Spec
CONSTANTS
  p1 = p1
  Participants <- OneParticipant
  Failures = {"replay", "partial", "egress", "worker", "leave"}
  MaxFaults = 1
INVARIANTS TypeOK EndedIsDrained RoomOutlivesWorker CaptureNeedsEgress QuietIsFinished
PROPERTIES StateMoves
CHECK_DEADLOCK FALSE
