SPECIFICATION StartSpec
CONSTANTS
  p1 = p1
  Participants <- OneParticipant
  Failures = {}
  MaxFaults = 0
PROPERTIES EndIsCarriedOut
CHECK_DEADLOCK FALSE
