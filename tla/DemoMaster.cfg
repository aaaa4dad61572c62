SPECIFICATION Spec
CONSTANTS
  Uavs = {u1}
  Ugvs = {g1}
  Requests = {r1, r2}
  Clients = {c1}
  Texts = {"pair", "loose"}
  None = None
INVARIANTS
  BusyOnceReported
  WorksForMission
  Served
PROPERTIES
  NeverRevived
  MissionsEnd
  GoneAreForgotten
