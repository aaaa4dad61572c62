CONSTANTS
  Adapters <- Any
  Late <- Movements
  MaxTasks = 3
SPECIFICATION Spec
INVARIANTS
  IdleOnGround
  RecoveredOrHandedOver
  
  CompletedTruly
  AnsweredOnce
CHECK_DEADLOCK FALSE
