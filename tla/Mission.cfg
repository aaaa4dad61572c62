CONSTANTS
  None = None
  Missions = {m1}
  Uavs = {u1, u2}
  Ugvs = {g1, g2}
  MaxReassign = 1
CHECK_DEADLOCK FALSE
SPECIFICATION FairSpec
INVARIANT
  AssigneeSound
PROPERTIES
  KeepsContract
  Settles
