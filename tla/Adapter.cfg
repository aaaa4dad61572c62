CONSTANTS
  Sensors = {"position"}
  StaleAfter = 2
  Silence = 4
  PublishEvery = 2
  DelayInitial = 1
  DelayMax = 3
  Horizon = 5
SPECIFICATION FairSpec
INVARIANT
  OnlineIsCurrent
PROPERTIES
  Reconnects
  Ends
CHECK_DEADLOCK FALSE
