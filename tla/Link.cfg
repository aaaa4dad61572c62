CONSTANTS
  Inspections = {t1}
  Pickups = {t2}
  None = None
  ConnectFails = TRUE
  MaxSessions = 2
SPECIFICATION LinkSpec
INVARIANTS
  Routed
PROPERTIES
  AcceptedIsReported
CHECK_DEADLOCK FALSE
