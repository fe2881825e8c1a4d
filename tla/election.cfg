SPECIFICATION LiveElection
CONSTANTS
  p = p
  Ownership = {p}
  MaxAccepted = 1
INVARIANTS ElectionTypeOK ReleaseAlone ReconcilesOnly ReleaseAccepted
PROPERTIES LeadsOnce EndsRun NothingLeft
CHECK_DEADLOCK FALSE
