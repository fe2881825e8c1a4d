SPECIFICATION Spec
CONSTANTS
  c = c
  d = d
  Caller = {c, d}
  MaxLocks = 2
INVARIANTS NilMeansReleased
CHECK_DEADLOCK FALSE
