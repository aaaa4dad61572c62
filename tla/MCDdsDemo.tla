----------------------------- MODULE MCDdsDemo ------------------------------
(* The plan and the vehicles of the demo: ids in the order of the example  *)
(* plan, where ...-DELIVERY (1) sorts before its predecessor ...-SURVEY (2).   *)
EXTENDS PlannedDemo

DemoPredecessor == [t \in Tasks |-> IF t = 1 THEN 2 ELSE None]
DemoNeeds       == [t \in Tasks |-> IF t = 1 THEN "MEDICAL_PAYLOAD" ELSE "CAMERA_THERMAL"]
DemoCapability  == [v \in Vehicles |-> IF v = Ugv THEN "MEDICAL_PAYLOAD" ELSE "CAMERA_THERMAL"]
DemoPayload     == [t \in Tasks |-> IF t = 1 THEN 12 ELSE 0]
DemoMaxPayload  == [v \in Vehicles |-> IF v = Ugv THEN 12 ELSE 1]

=============================================================================
