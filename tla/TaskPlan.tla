------------------------------- MODULE TaskPlan ------------------------------
(***************************************************************************)
(* The task plans of the ZRDDS demo and the two programs that judge them:  *)
(* validate_plan of llm_planner.py before a plan is written, and           *)
(* parse_json of src/src/task_plan.cpp when main reads it.                 *)
(*                                                                         *)
(* What both check of one property alone (keys, types, lengths, ranges,    *)
(* identifiers, frame and map) is the flag `fields` of a task.  Identifiers *)
(* are model data, and a payload is 0 or more.                             *)
(***************************************************************************)
EXTENDS Naturals, Sequences, FiniteSets

NoTask == ""  \* a predecessor_task_id that is empty

PlanTask ==
  [task_id : {"a", "b"}, incident_id : {"i", "j"}, kind : {"SURVEY", "DELIVERY"},
   required_capability : {"CAMERA_THERMAL", "MEDICAL_PAYLOAD"},
   predecessor_task_id : {"a", "b", NoTask}, payload_kg : {0, 12}, fields : {TRUE}]

Malformed ==
  [task_id |-> "a", incident_id |-> "i", kind |-> "SURVEY",
   required_capability |-> "CAMERA_THERMAL",
   predecessor_task_id |-> NoTask, payload_kg |-> 0, fields |-> FALSE]

\* The answers of a model and the files of a user: up to two tasks.
Documents == UNION {[1..n -> PlanTask \cup {Malformed}] : n \in 0..2}

-----------------------------------------------------------------------------
(* task_plan.cpp                                                           *)

\* parse_task
TaskParses(task) ==
  /\ task.fields
  /\ \/ /\ task.kind = "SURVEY"
        /\ task.required_capability = "CAMERA_THERMAL" /\ task.payload_kg = 0
     \/ /\ task.kind = "DELIVERY"
        /\ task.required_capability = "MEDICAL_PAYLOAD" /\ task.payload_kg > 0

\* A mistake: the order of the two tasks is not looked at.
PlanHoldsAnyOrder(plan) ==
  /\ Len(plan) = 2
  /\ plan[1].task_id # plan[2].task_id
  /\ plan[1].kind # plan[2].kind

\* validate_plan of the C++ program
PlanHolds(plan) ==
  /\ Len(plan) = 2
  /\ plan[1].task_id # plan[2].task_id
  /\ \E s, d \in 1..2 :
       /\ plan[s].kind = "SURVEY" /\ plan[d].kind = "DELIVERY"
       /\ plan[s].predecessor_task_id = NoTask
       /\ plan[d].predecessor_task_id = plan[s].task_id
       /\ plan[s].incident_id = plan[d].incident_id

\* parse_json and load_file
Loads(plan) == (\A i \in DOMAIN plan : TaskParses(plan[i])) /\ PlanHolds(plan)

-----------------------------------------------------------------------------
(* llm_planner.py                                                          *)

\* A mistake: the predecessor of the delivery may be any task of the plan.
ValidatesLoosely(plan) ==
  /\ Len(plan) = 2 /\ \A i \in 1..2 : TaskParses(plan[i])
  /\ {plan[i].kind : i \in 1..2} = {"SURVEY", "DELIVERY"}
  /\ Cardinality({plan[i].task_id : i \in 1..2}) = 2

OfKind(plan, kind) == {i \in DOMAIN plan : plan[i].kind = kind}

\* validate_plan of the planner
Validates(plan) ==
  /\ Len(plan) = 2
  /\ \A i \in 1..2 :
       /\ plan[i].fields
       /\ plan[i].task_id \notin {plan[j].task_id : j \in 1..(i - 1)}
       /\ plan[i].kind = "SURVEY" =>
            plan[i].required_capability = "CAMERA_THERMAL" /\ plan[i].payload_kg = 0
       /\ plan[i].kind = "DELIVERY" =>
            plan[i].required_capability = "MEDICAL_PAYLOAD" /\ plan[i].payload_kg > 0
  /\ Cardinality(OfKind(plan, "SURVEY")) = 1 /\ Cardinality(OfKind(plan, "DELIVERY")) = 1
  /\ \A s \in OfKind(plan, "SURVEY"), d \in OfKind(plan, "DELIVERY") :
       /\ plan[s].predecessor_task_id = NoTask
       /\ plan[d].predecessor_task_id = plan[s].task_id
       /\ plan[s].incident_id = plan[d].incident_id

\* What the planner may write.
Validated == {plan \in Documents : Validates(plan)}

=============================================================================
