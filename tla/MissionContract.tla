-------------------------- MODULE MissionContract --------------------------
(***************************************************************************)
(* What the master agent promises about a mission, without tasks, devices  *)
(* or messages: the operator is asked only when there is a photograph, a   *)
(* vehicle is sent only once the operator has agreed, the mission is       *)
(* completed only by the operator's no or a delivery, and MaxReassign      *)
(* failures are made good at most.  A failure may come at any time, from a *)
(* device that is on its way home or was replaced, and may then reopen a   *)
(* mission that had ended.                                                 *)
(***************************************************************************)
EXTENDS Naturals

CONSTANTS Missions, MaxReassign

VARIABLES
  status,        \* where each mission stands
  photographed,  \* missions of which there is a photograph
  agreed,        \* missions for which a vehicle has been sent
  delivered,     \* missions whose object a vehicle has delivered
  failures       \* failures reported for each mission

contractVars == <<status, photographed, agreed, delivered, failures>>

Stand(m, s) == status' = [status EXCEPT ![m] = s]

Create(m) ==
  /\ status[m] = "none"
  /\ \E s \in {"inspecting", "failed"} : Stand(m, s)
  /\ UNCHANGED <<photographed, agreed, delivered, failures>>

\* The devices photograph and deliver without the state machine knowing.
Photograph(m) ==
  /\ status[m] # "none"
  /\ photographed' = photographed \cup {m}
  /\ UNCHANGED <<status, agreed, delivered, failures>>

Deliver(m) ==
  /\ m \in agreed
  /\ delivered' = delivered \cup {m}
  /\ UNCHANGED <<status, photographed, agreed, failures>>

Ask(m) ==
  /\ status[m] = "inspecting" /\ m \in photographed
  /\ Stand(m, "asking")
  /\ UNCHANGED <<photographed, agreed, delivered, failures>>

Verdict(m) ==
  /\ status[m] = "asking"
  /\ \/ Stand(m, "clearing") /\ agreed' = agreed \cup {m}
     \/ \E s \in {"completed", "failed"} : Stand(m, s) /\ UNCHANGED agreed
  /\ UNCHANGED <<photographed, delivered, failures>>

Finish(m) ==
  /\ status[m] = "clearing" /\ m \in delivered
  /\ Stand(m, "completed")
  /\ UNCHANGED <<photographed, agreed, delivered, failures>>

Failure(m) ==
  /\ status[m] # "none"
  /\ failures' = [failures EXCEPT ![m] = @ + 1]
  /\ \/ Stand(m, "failed")
     \/ failures[m] < MaxReassign /\ Stand(m, "inspecting")
     \/ failures[m] < MaxReassign /\ m \in agreed /\ Stand(m, "clearing")
  /\ UNCHANGED <<photographed, agreed, delivered>>

Init ==
  /\ status       = [m \in Missions |-> "none"]
  /\ photographed = {}
  /\ agreed       = {}
  /\ delivered    = {}
  /\ failures     = [m \in Missions |-> 0]

Next ==
  \E m \in Missions :
    \/ Create(m) \/ Photograph(m) \/ Deliver(m) \/ Ask(m)
    \/ Verdict(m) \/ Finish(m) \/ Failure(m)

Spec == Init /\ [][Next]_contractVars

=============================================================================
