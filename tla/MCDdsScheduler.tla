--------------------------- MODULE MCDdsScheduler ---------------------------
(* An instance of DdsScheduler for TLC: two dependent tasks of one kind,   *)
(* a vehicle that can do both and one that only carries the second.        *)
EXTENDS DdsScheduler

MCPredecessor == [t \in Tasks |-> IF t = 2 THEN 1 ELSE None]
MCNeeds       == [t \in Tasks |-> "MEDICAL_PAYLOAD"]
MCCapability  == [v \in Vehicles |-> "MEDICAL_PAYLOAD"]
MCPayload     == [t \in Tasks |-> IF t = 1 THEN 2 ELSE 1]
MCMaxPayload  == [v \in Vehicles |-> IF v = 1 THEN 2 ELSE 1]

=============================================================================
