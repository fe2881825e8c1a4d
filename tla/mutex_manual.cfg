SPECIFICATION LiveSpec
CONSTANTS
  c = c
  d = d
  Caller = {c, d}
  MaxLocks = 2
INVARIANTS TypeOK HeldKeepsBusy ReleasingAccounted ReleaseAlone ReleaseAccepted AuthorityKeepsBusy
PROPERTIES FreeAgain LossNoticed
CHECK_DEADLOCK FALSE
