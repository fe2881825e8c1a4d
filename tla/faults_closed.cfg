SPECIFICATION FaultSpec
CONSTANTS
  a = a
  b = b
  Client = {a}
  Nobody = Nobody
  ClientID <- OwnID
  LeaseDuration <- LeaseTwo
  RenewDeadline <- RenewOne
  MaxCounter = 2
  MaxTime = 1
  MaxLosses = 2
  Observers = {a}
  ObserveCalls = {o1}
  MaxFaults = 1
INVARIANTS TerminalFailsClosed
PROPERTIES NeverReinitialises FollowsOneObject
CHECK_DEADLOCK FALSE
