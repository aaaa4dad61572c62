------------------------------ MODULE DdsDemo -------------------------------
(***************************************************************************)
(* main of src/src/main.cpp: one thread that calls the agents' operations  *)
(* in a fixed order, one round per task, and settles between the calls.    *)
(* The program fails unless the dashboard has seen every task completed.   *)
(***************************************************************************)
EXTENDS DdsScheduler, Sequences

CONSTANTS Uav, Ugv     \* uav-alpha and ugv-bravo

ASSUME DemoAssumption == Vehicles = {Uav, Ugv} /\ None # 0

VARIABLES
  step,       \* calls main has made
  dashboard,  \* tasks the DashboardBridge has seen completed
  exit_code   \* what main returns, None while it runs

demo == <<dvars, step, dashboard, exit_code>>

Script ==
  <<"uav.publish_capability", "ugv.publish_capability", "publish_incident_plan",
    "process_tasks", "uav.submit_candidate_bids", "ugv.submit_candidate_bids",
    "schedule_ready_tasks", "uav.process_assignments",
    "schedule_ready_tasks", "ugv.process_assignments",
    "collect", "check">>

\* A mistake: the events of an assignment are counted for those of completion.
FinishedWhenAssigned == {a.task : a \in assignment_topic}

\* Tasks with an EVENT_TASK_COMPLETED.
Finished == Completed

Collect ==
  /\ dashboard' \in Drained(dashboard, Finished)
  /\ UNCHANGED <<dvars, exit_code>>

\* completed_task_count against the plan.
Check ==
  /\ exit_code' = IF Cardinality(dashboard) = Cardinality(Tasks) THEN 0 ELSE 1
  /\ UNCHANGED <<dvars, dashboard>>

\* An operation of an agent, which leaves main's own variables alone.
Agent(name) ==
  /\ UNCHANGED <<dashboard, exit_code>>
  /\ \/ name = "uav.publish_capability"     /\ PublishCapability(Uav)
     \/ name = "ugv.publish_capability"     /\ PublishCapability(Ugv)
     \/ name = "publish_incident_plan"      /\ PublishIncidentPlan
     \/ name = "process_tasks"              /\ ProcessTasks
     \/ name = "uav.submit_candidate_bids"  /\ SubmitCandidateBids(Uav)
     \/ name = "ugv.submit_candidate_bids"  /\ SubmitCandidateBids(Ugv)
     \/ name = "schedule_ready_tasks"       /\ ScheduleReadyTasks
     \/ name = "uav.process_assignments"    /\ ProcessAssignments(Uav)
     \/ name = "ugv.process_assignments"    /\ ProcessAssignments(Ugv)

Main ==
  /\ step < Len(Script)
  /\ step' = step + 1
  /\ LET name == Script[step + 1] IN
     \/ Agent(name)
     \/ name = "collect" /\ Collect
     \/ name = "check" /\ Check

\* All pauses together stay below the 5 s a bid is valid.
Delay ==
  /\ ~Settled /\ exit_code = None
  /\ BidExpires
  /\ UNCHANGED <<step, dashboard, exit_code>>

DemoInit ==
  /\ Init
  /\ step = 0
  /\ dashboard = {}
  /\ exit_code = None

DemoNext == Main \/ Delay

-----------------------------------------------------------------------------
(* Properties                                                              *)

\* The demo only reports success when every task was executed exactly once, by a
\* vehicle that is able to.
ExitHonest ==
  exit_code = 0 => \A t \in Tasks : runs[t] = 1 /\ <<t, Owner(t)>> \in Able

\* main.cpp:618 reports a task as "on_target_executing": the vehicle is at the
\* target of the task.
OnTarget == off_target = {}

=============================================================================
