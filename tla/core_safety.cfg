SPECIFICATION Spec
CONSTANTS
  a = a
  b = b
  Client = {a, b}
  Nobody = Nobody
  ClientID <- OneID
  LeaseDuration <- LeaseMixed
  RenewDeadline <- RenewMixed
  MaxCounter = 2
  MaxTime = 2
  MaxLosses = 1
  Observers = {}
  ObserveCalls = {}
INVARIANTS TypeOK AtMostOneAuthority AuthorityBacked
PROPERTIES TakeoverWaits HistoryAdvances KeepsPromise
