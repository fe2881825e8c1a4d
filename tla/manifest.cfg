SPECIFICATION Spec
CONSTANTS
  v = v
  w = w
  Writer = {v, w}
  Request <- Requests
  Asked <- AskedOf
  MaxHistory = 2
  MaxAttempts = 2
  MaxRevision = 5
  MaxLosses = 1
INVARIANTS TypeOK HistoryValid NoFalseAlarm SuccessApplied AppliedOnce
PROPERTIES Fencing
