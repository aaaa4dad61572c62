CONSTANTS
  None = None
  Tasks = {1, 2}
  Vehicles = {1, 2}
  Predecessor <- MCPredecessor
  Needs <- MCNeeds
  Capability <- MCCapability
  Payload <- MCPayload
  MaxPayload <- MCMaxPayload
  Costs = {1}
  Etas = {1}
  Settled = FALSE
SPECIFICATION Spec
CHECK_DEADLOCK FALSE
PROPERTY
  Implements
