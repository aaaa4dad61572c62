CONSTANTS
  None = None
  Tasks = {1, 2}
  Vehicles = {1, 2}
  Uav = 1
  Ugv = 2
  Predecessor <- DemoPredecessor
  Needs <- DemoNeeds
  Capability <- DemoCapability
  Payload <- DemoPayload
  MaxPayload <- DemoMaxPayload
  Costs = {1}
  Etas = {1}
  Settled = FALSE
SPECIFICATION PlannedSpec
INVARIANTS
  ExitHonest
  PlannerFileLoads
  PlanFits
CHECK_DEADLOCK FALSE
