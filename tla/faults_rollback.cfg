SPECIFICATION FaultSpec
CONSTANTS
  a = a
  b = b
  Client = {a, b}
  Nobody = Nobody
  ClientID <- OwnID
  LeaseDuration <- LeaseTwo
  RenewDeadline <- RenewOne
  MaxCounter = 2
  MaxTime = 0
  MaxLosses = 0
  Observers = {a}
  ObserveCalls = {o1}
  MaxFaults = 1
PROPERTIES RollbackReported
CHECK_DEADLOCK FALSE
