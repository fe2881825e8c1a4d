SPECIFICATION Spec
CONSTANTS
  a = a
  b = b
  Client = {a, b}
  Nobody = Nobody
  ClientID <- OwnID
  LeaseDuration <- LeaseThree
  RenewDeadline <- RenewTwo
  MaxCounter = 2
  MaxTime = 1
  MaxLosses = 1
  Observers = {}
  ObserveCalls = {}
INVARIANTS DifferentProposalBlocked
