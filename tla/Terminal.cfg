CONSTANTS
  Tasks = {t1, t2}
  Junk = Junk
  Mode = "dry-run"
  Faults <- AllFaults
  MaxLines = 3
  MaxRuns = 2
SPECIFICATION Spec
INVARIANTS
  StatesInBetween
PROPERTIES
  KeepsDesk
  EveryTaskAnswered
  Stops
CHECK_DEADLOCK FALSE
