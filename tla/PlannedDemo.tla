----------------------------- MODULE PlannedDemo -----------------------------
(***************************************************************************)
(* The demo from the task plan on: llm_planner.py writes task_plan.json    *)
(* through a temporary file, the demo loads it and then runs the script of *)
(* DdsDemo.  --task-plan may also name any other file.                     *)
(*                                                                         *)
(* The tasks of the loaded plan are the constants of DdsScheduler;         *)
(* PlanFits says that this is what every loaded plan amounts to.           *)
(***************************************************************************)
EXTENDS DdsDemo, TaskPlan

VARIABLES
  file,       \* task_plan.json, None without one
  temporary,  \* task_plan.json.tmp, None without one
  by_planner, \* the file comes from the planner
  plan        \* the plan main has loaded, None before

plan_files == <<file, temporary, by_planner>>
planned    == <<demo, plan_files, plan>>

Unfinished == <<Malformed>>  \* a file that is written half

\* generate_plan, and write_plan up to the temporary file, whose writing may fail.
WriteTemporary ==
  /\ temporary' \in Validated \cup {Unfinished}
  /\ UNCHANGED <<demo, file, by_planner, plan>>

\* write_plan replaces the plan only after the temporary file was written.
Replace ==
  /\ temporary # None /\ temporary # Unfinished
  /\ file' = temporary /\ temporary' = None /\ by_planner' = TRUE
  /\ UNCHANGED <<demo, plan>>

\* main loads the file of the planner or another one.  A plan that does not
\* load ends the program.  The files are not read again, so the model forgets
\* them here.
LoadPlan(given) ==
  /\ plan' = IF given # None /\ Loads(given) THEN given ELSE None
  /\ exit_code' = IF plan' = None THEN 1 ELSE None
  /\ file' = None /\ temporary' = None /\ by_planner' = FALSE
  /\ UNCHANGED <<dvars, step, dashboard>>

PlannedInit ==
  /\ DemoInit
  /\ file = None /\ temporary = None /\ by_planner = FALSE
  /\ plan = None

PlannedNext ==
  \/ /\ plan = None /\ exit_code = None
     /\ \/ WriteTemporary
        \/ Replace
        \/ \E given \in Documents \cup {file} : LoadPlan(given)
  \/ plan # None /\ DemoNext /\ UNCHANGED <<plan_files, plan>>

PlannedSpec == PlannedInit /\ [][PlannedNext]_planned

-----------------------------------------------------------------------------
(* Properties                                                              *)

\* The two validators agree where it matters: what the planner writes the demo
\* can load (llm_planner.py:232, "cross-task rules used by the C++ adapter").
PlannerFileLoads == by_planner => Loads(file)

\* Every plan that loads is one the two vehicles can do in the demo's two rounds:
\* its tasks need what the constants of the scheduler say, and come in that order.
PlanFits ==
  plan # None =>
    \E f \in [Tasks -> 1..Len(plan)] :
      /\ \A i \in 1..Len(plan) : \E t \in Tasks : f[t] = i
      /\ \A t \in Tasks :
           /\ plan[f[t]].required_capability = Needs[t]
           /\ plan[f[t]].payload_kg <= Payload[t]
           /\ IF Predecessor[t] = None THEN plan[f[t]].predecessor_task_id = NoTask
              ELSE plan[f[t]].predecessor_task_id = plan[f[Predecessor[t]]].task_id

=============================================================================
