SPECIFICATION Spec
CONSTANTS
  a = a
  b = b
  Client = {a, b}
  Nobody = Nobody
  ClientID <- OwnID
  LeaseDuration <- LeaseTwo
  RenewDeadline <- RenewOne
  MaxCounter = 2
  MaxTime = 0
  MaxLosses = 1
  Observers = {b}
  ObserveCalls = {o1, o2}
SYMMETRY CallSymmetry
INVARIANTS NoFalseViolation
PROPERTIES ReadsKeepAuthority
