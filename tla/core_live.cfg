SPECIFICATION LiveSpec
CONSTANTS
  a = a
  b = b
  Client = {a, b}
  Nobody = Nobody
  ClientID <- OwnID
  LeaseDuration <- LeaseTwo
  RenewDeadline <- RenewOne
  MaxCounter = 2
  MaxTime = 1
  MaxLosses = 1
  Observers = {}
  ObserveCalls = {}
PROPERTIES CallReturns PendingEnds
