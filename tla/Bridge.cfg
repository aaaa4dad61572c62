CONSTANTS
  Commands = {"ARM", "LAND"}
  Depth = 2
  MaxPublished = 2
  MaxBeats = 1
SPECIFICATION FairSpec
INVARIANT
  NoGaps
PROPERTIES
  Relays
  LandHeard
  ComesBack
CHECK_DEADLOCK FALSE
