CONSTANTS
  Nothing = Nothing
  Memory = 2
  Threads = {t1, t2}
SPECIFICATION ApproachSpec
CHECK_DEADLOCK FALSE
INVARIANTS
  LostStops
  OneGrabber
  FinishedHolding
