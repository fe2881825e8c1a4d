SPECIFICATION LiveSpec
CONSTANTS
  p = p
  q = q
  Ownership = {p, q}
  MaxAccepted = 6
INVARIANTS TypeOK SerialDelivery StopDiscards
PROPERTIES NewestDelivered
CHECK_DEADLOCK FALSE
