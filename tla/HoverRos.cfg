CONSTANT
  Backlog = 2
SPECIFICATION HoverSpec
INVARIANTS
  TakeoffConfirmed
  LandedTruly
PROPERTY
  Ends
CHECK_DEADLOCK FALSE
