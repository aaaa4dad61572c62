----------------------------- MODULE MissionFsm -----------------------------
(***************************************************************************)
(* The task state machine of the master agent                              *)
(* (master_agent/master_agent/mission_fsm.py), with the devices it sends   *)
(* assignments to and the feedback channel it listens on.                  *)
(*                                                                         *)
(* A mission is inspected by a UAV, judged by the operator and cleared by  *)
(* a UGV.  Every handler of the state machine runs to its last assignment  *)
(* before it first awaits anything that can suspend (bus.publish), so a    *)
(* handler is one step.  The devices are not under the state machine's     *)
(* control: they accept, refuse, photograph, finish and fail, and messages *)
(* of both directions are lost when a connection breaks.  A device that    *)
(* has reconnected is served by a second handler while the first may still *)
(* hold messages it has read (server.ws_agent), so feedback reaches the    *)
(* bus in any order.                                                       *)
(***************************************************************************)
EXTENDS Naturals

CONSTANTS
  Missions,     \* mission identifiers
  Uavs,         \* agents with the INSPECT capability
  Ugvs,         \* agents with the PICKUP capability
  MaxReassign,  \* Mission.MAX_REASSIGN (3 in the code)
  None          \* Python's None

Agents == Uavs \cup Ugvs

TaskTypes == {"INSPECT_TARGET", "PICKUP_AND_DELIVER"}

\* A TaskAssignment.  The uuid of models.new_id is the mission together with
\* the ordinal of the assignment in it.
Task == [mission : Missions, n : Nat, type : TaskTypes, agent : Agents]

\* "FAILED" stands for every member of the code's _FAIL.
Statuses == {"ACCEPTED", "REJECTED", "IMAGE_CAPTURED", "COMPLETED", "FAILED"}

Feedback == [task : Task, status : Statuses]

Phases == {"CREATED", "UAV_ASSIGNED", "UAV_INSPECTING", "AWAITING_CONFIRM",
           "UGV_ASSIGNED", "UGV_EXECUTING", "COMPLETED", "FAILED"}
UavPhases == {"UAV_ASSIGNED", "UAV_INSPECTING"}
UgvPhases == {"UGV_ASSIGNED", "UGV_EXECUTING"}
Terminal  == {"COMPLETED", "FAILED"}

\* What a MISSION_RESULT says: completed, or the reason of the failure, which
\* is its summary.
FailureReasons == {"NO_DEVICE", "RETRIES_USED_UP", "REPORTED"}
Summaries == {"COMPLETED"} \cup FailureReasons

\* What became of an assignment at its device.  FAILED_OUT: the device gave up
\* before it had a photograph, FAILED_BACK: on the way home.
Stages == {"SENT", "LOST", "REJECTED", "ACCEPTED", "CAPTURED", "COMPLETED",
           "FAILED_OUT", "FAILED_BACK"}

ASSUME ConstantsAssumption ==
  /\ MaxReassign \in Nat
  /\ None \notin Agents
  /\ None \notin Task
  /\ None \notin BOOLEAN
  /\ None \notin Phases
  /\ None \notin Summaries

VARIABLES
  phase,             \* Mission.phase, None until the mission is created
  inspect_task_id,   \* Mission.inspect_task_id
  pickup_task_id,    \* Mission.pickup_task_id
  uav_agent_id,      \* Mission.uav_agent_id
  ugv_agent_id,      \* Mission.ugv_agent_id
  garbage_detected,  \* Mission.garbage_detected
  failed_agents,     \* Mission.failed_agents
  reassign_count,    \* Mission.reassign_count
  image_url,         \* Mission.image_url: the inspection whose picture it is
  mission_result,    \* the last MISSION_RESULT published
  dispatched,        \* number of assignments published for the mission
  stage,             \* stage of every assignment published so far
  wire,              \* feedback on its way to the bus
  unheard            \* tasks whose last message was lost

fsmVars    == <<phase, inspect_task_id, pickup_task_id, uav_agent_id,
                ugv_agent_id, garbage_detected, failed_agents,
                reassign_count, image_url, mission_result, dispatched>>
deviceVars == <<stage, wire, unheard>>
vars       == <<fsmVars, deviceVars>>

-----------------------------------------------------------------------------
(* The devices and the registry as the state machine sees them             *)

Working == {"ACCEPTED", "CAPTURED"}

Busy(a) == \E t \in DOMAIN stage : t.agent = a /\ stage[t] \in Working

\* scheduler.select_nearest picks the nearest of these that the registry shows
\* online, idle and located.  Heartbeats change all of that between any two
\* steps, so it is any of them, or none.
CandidatesIgnoringFailures(capable, exclude) == capable   \* a mistake

Candidates(capable, exclude) == capable \ exclude

\* The photograph of the inspection has reached the image store.
ImageStages == {"CAPTURED", "COMPLETED", "FAILED_BACK"}
HasImage(t) == stage[t] \in ImageStages

-----------------------------------------------------------------------------
(* The state machine                                                       *)

NewTask(m, type, a) ==
  [mission |-> m, n |-> dispatched[m] + 1, type |-> type, agent |-> a]

Publish(t) ==
  /\ stage' = [u \in DOMAIN stage \cup {t} |->
                 IF u = t THEN "SENT" ELSE stage[u]]
  /\ dispatched' = [dispatched EXCEPT ![t.mission] = @ + 1]

Conclude(m, result, summary) ==
  /\ phase' = [phase EXCEPT ![m] = result]
  /\ mission_result' = [mission_result EXCEPT ![m] = summary]

\* _assign_uav: its callers have cleared inspect_task_id before the call.
AssignUav(m, exclude) ==
  \/ \E a \in Candidates(Uavs, exclude) :
       LET t == NewTask(m, "INSPECT_TARGET", a) IN
       /\ uav_agent_id' = [uav_agent_id EXCEPT ![m] = a]
       /\ inspect_task_id' = [inspect_task_id EXCEPT ![m] = t]
       /\ phase' = [phase EXCEPT ![m] = "UAV_ASSIGNED"]
       /\ Publish(t)
       /\ UNCHANGED mission_result
  \/ /\ inspect_task_id' = [inspect_task_id EXCEPT ![m] = None]
     /\ Conclude(m, "FAILED", "NO_DEVICE")
     /\ UNCHANGED <<uav_agent_id, stage, dispatched>>

\* _assign_ugv: pickup is the pickup_task_id its caller left behind.
AssignUgv(m, exclude, pickup) ==
  \/ \E a \in Candidates(Ugvs, exclude) :
       LET t == NewTask(m, "PICKUP_AND_DELIVER", a) IN
       /\ ugv_agent_id' = [ugv_agent_id EXCEPT ![m] = a]
       /\ pickup_task_id' = [pickup_task_id EXCEPT ![m] = t]
       /\ phase' = [phase EXCEPT ![m] = "UGV_ASSIGNED"]
       /\ Publish(t)
       /\ UNCHANGED mission_result
  \/ /\ pickup_task_id' = [pickup_task_id EXCEPT ![m] = pickup]
     /\ Conclude(m, "FAILED", "NO_DEVICE")
     /\ UNCHANGED <<ugv_agent_id, stage, dispatched>>

CreateMission(m) ==
  /\ phase[m] = None
  /\ AssignUav(m, failed_agents[m])
  /\ UNCHANGED <<pickup_task_id, ugv_agent_id, garbage_detected,
                 failed_agents, reassign_count, image_url, wire, unheard>>

\* The operator's verdict on the photograph.
OnInspectionResult(m, garbage) ==
  /\ phase[m] = "AWAITING_CONFIRM"
  /\ garbage_detected' = [garbage_detected EXCEPT ![m] = garbage]
  /\ \/ /\ garbage
        /\ AssignUgv(m, failed_agents[m], pickup_task_id[m])
     \/ /\ ~garbage
        /\ Conclude(m, "COMPLETED", "COMPLETED")
        /\ UNCHANGED <<pickup_task_id, ugv_agent_id, stage, dispatched>>
  /\ UNCHANGED <<inspect_task_id, uav_agent_id, failed_agents,
                 reassign_count, image_url, wire, unheard>>

\* The count is incremented before it is compared with the limit.
RetriesLeftBeforeCounting(m) == reassign_count[m] <= MaxReassign  \* a mistake

RetriesLeft(m) == reassign_count[m] + 1 <= MaxReassign

\* _on_failure: blacklist the device, then replace it or give up.
OnFailure(fb) ==
  LET m       == fb.task.mission
      exclude == failed_agents[m] \cup {fb.task.agent}
      retry   == RetriesLeft(m)
  IN
  /\ fb.status = "FAILED"
  /\ failed_agents' = [failed_agents EXCEPT ![m] = exclude]
  /\ reassign_count' = [reassign_count EXCEPT ![m] = @ + 1]
  /\ \/ /\ retry
        /\ fb.task = inspect_task_id[m]
        /\ AssignUav(m, exclude)
        /\ UNCHANGED <<pickup_task_id, ugv_agent_id>>
     \/ /\ retry
        /\ fb.task = pickup_task_id[m]
        /\ AssignUgv(m, exclude, None)
        /\ UNCHANGED <<inspect_task_id, uav_agent_id>>
     \/ /\ retry => fb.task \notin {inspect_task_id[m], pickup_task_id[m]}
        /\ Conclude(m, "FAILED", IF retry THEN "REPORTED" ELSE "RETRIES_USED_UP")
        /\ UNCHANGED <<inspect_task_id, pickup_task_id, uav_agent_id,
                       ugv_agent_id, stage, dispatched>>
  /\ UNCHANGED <<garbage_detected, image_url>>

UavAccepts(fb) ==
  /\ fb.status = "ACCEPTED"
  /\ fb.task = inspect_task_id[fb.task.mission]
  /\ phase[fb.task.mission] = "UAV_ASSIGNED"

\* A mistake: the phase is compared with UAV_ASSIGNED alone.
UavDoneUnlessAccepted(fb) ==
  /\ fb.status \in {"IMAGE_CAPTURED", "COMPLETED"}
  /\ fb.task = inspect_task_id[fb.task.mission]
  /\ phase[fb.task.mission] = "UAV_ASSIGNED"

UavDone(fb) ==
  /\ fb.status \in {"IMAGE_CAPTURED", "COMPLETED"}
  /\ fb.task = inspect_task_id[fb.task.mission]
  /\ phase[fb.task.mission] \in UavPhases

UgvAccepts(fb) ==
  /\ fb.status = "ACCEPTED"
  /\ fb.task = pickup_task_id[fb.task.mission]
  /\ phase[fb.task.mission] = "UGV_ASSIGNED"

UgvDone(fb) ==
  /\ fb.status = "COMPLETED"
  /\ fb.task = pickup_task_id[fb.task.mission]
  /\ phase[fb.task.mission] \in UgvPhases

MoveTo(m, p) ==
  /\ phase' = [phase EXCEPT ![m] = p]
  /\ UNCHANGED <<image_url, mission_result>>

\* fb.image_url or m.image_url: IMAGE_CAPTURED names the picture, COMPLETED does
\* so when inspect_target.py sent it and does not when device_agent.py did.
Photographed(fb) ==
  LET m == fb.task.mission IN
  /\ phase' = [phase EXCEPT ![m] = "AWAITING_CONFIRM"]
  /\ \/ image_url' = [image_url EXCEPT ![m] = fb.task]
     \/ fb.status = "COMPLETED" /\ UNCHANGED image_url
  /\ UNCHANGED mission_result

\* The branches of on_feedback that advance a mission.
Advance(fb) ==
  /\ \/ UavAccepts(fb) /\ MoveTo(fb.task.mission, "UAV_INSPECTING")
     \/ UavDone(fb)    /\ Photographed(fb)
     \/ UgvAccepts(fb) /\ MoveTo(fb.task.mission, "UGV_EXECUTING")
     \/ /\ UgvDone(fb)
        /\ Conclude(fb.task.mission, "COMPLETED", "COMPLETED")
        /\ UNCHANGED image_url
  /\ UNCHANGED <<inspect_task_id, pickup_task_id, uav_agent_id, ugv_agent_id,
                 garbage_detected, failed_agents, reassign_count, dispatched,
                 stage>>

\* Feedback that matches no branch leaves the mission as it is.
Ignore(fb) ==
  /\ fb.status # "FAILED"
  /\ ~UavAccepts(fb) /\ ~UavDone(fb) /\ ~UgvAccepts(fb) /\ ~UgvDone(fb)
  /\ UNCHANGED <<fsmVars, stage>>

OnFeedback(fb) ==
  /\ wire' = wire \ {fb}
  /\ OnFailure(fb) \/ Advance(fb) \/ Ignore(fb)
  /\ UNCHANGED unheard

-----------------------------------------------------------------------------
(* The environment: links and devices                                      *)

Final == {"COMPLETED", "FAILED"}

\* A device's _send: dropped without a trace while it has no connection, or
\* when the connection breaks before the master agent has read it.
Send(t, status) ==
  \/ /\ wire' = wire \cup {[task |-> t, status |-> status]}
     /\ UNCHANGED unheard
  \/ /\ unheard' = IF status \in Final THEN unheard \cup {t} ELSE unheard
     /\ UNCHANGED wire

Becomes(t, s) == stage' = [stage EXCEPT ![t] = s]

\* server._route_assignment finds no link, or the send raises.
AssignmentLost(t) ==
  /\ stage[t] = "SENT"
  /\ Becomes(t, "LOST")
  /\ UNCHANGED <<fsmVars, wire, unheard>>

DeviceAccepts(t) ==
  /\ stage[t] = "SENT"
  /\ ~Busy(t.agent)
  /\ Becomes(t, "ACCEPTED")
  /\ Send(t, "ACCEPTED")
  /\ UNCHANGED fsmVars

\* A busy device rejects with the identifiers of the task it is working on.
DeviceRejectsBusy(t, running) ==
  /\ stage[t] = "SENT"
  /\ running.agent = t.agent
  /\ stage[running] \in Working
  /\ Becomes(t, "REJECTED")
  /\ Send(running, "REJECTED")
  /\ UNCHANGED fsmVars

\* Preflight stops the task on the ground, before or after it was accepted.
DeviceRefuses(t) ==
  /\ \/ stage[t] = "SENT" /\ ~Busy(t.agent)
     \/ stage[t] = "ACCEPTED"
  /\ Becomes(t, "REJECTED")
  /\ Send(t, "REJECTED")
  /\ UNCHANGED fsmVars

DeviceCaptures(t) ==
  /\ stage[t] = "ACCEPTED"
  /\ t.type = "INSPECT_TARGET"
  /\ Becomes(t, "CAPTURED")
  /\ Send(t, "IMAGE_CAPTURED")
  /\ UNCHANGED fsmVars

DeviceCompletes(t) ==
  /\ stage[t] = IF t.type = "INSPECT_TARGET" THEN "CAPTURED" ELSE "ACCEPTED"
  /\ Becomes(t, "COMPLETED")
  /\ Send(t, "COMPLETED")
  /\ UNCHANGED fsmVars

DeviceFails(t) ==
  /\ stage[t] \in Working
  /\ Becomes(t, IF stage[t] = "ACCEPTED" THEN "FAILED_OUT" ELSE "FAILED_BACK")
  /\ Send(t, "FAILED")
  /\ UNCHANGED fsmVars

DeviceStep(t) ==
  \/ DeviceAccepts(t)
  \/ \E running \in DOMAIN stage : DeviceRejectsBusy(t, running)
  \/ DeviceRefuses(t)
  \/ DeviceCaptures(t)
  \/ DeviceCompletes(t)
  \/ DeviceFails(t)

-----------------------------------------------------------------------------
Init ==
  /\ phase            = [m \in Missions |-> None]
  /\ inspect_task_id  = [m \in Missions |-> None]
  /\ pickup_task_id   = [m \in Missions |-> None]
  /\ uav_agent_id     = [m \in Missions |-> None]
  /\ ugv_agent_id     = [m \in Missions |-> None]
  /\ garbage_detected = [m \in Missions |-> None]
  /\ failed_agents    = [m \in Missions |-> {}]
  /\ reassign_count   = [m \in Missions |-> 0]
  /\ image_url        = [m \in Missions |-> None]
  /\ mission_result   = [m \in Missions |-> None]
  /\ dispatched       = [m \in Missions |-> 0]
  /\ stage            = [t \in {} |-> "SENT"]
  /\ wire             = {}
  /\ unheard          = {}

Next ==
  \/ \E m \in Missions : CreateMission(m)
  \/ \E m \in Missions, garbage \in BOOLEAN : OnInspectionResult(m, garbage)
  \/ \E fb \in wire : OnFeedback(fb)
  \/ \E t \in DOMAIN stage : AssignmentLost(t)
  \/ \E t \in DOMAIN stage : DeviceStep(t)

Spec == Init /\ [][Next]_vars

\* The event loop handles every message it receives, and a device that has a
\* task ends it; nothing obliges the operator to answer.
Fairness ==
  /\ WF_vars(\E fb \in wire : OnFeedback(fb))
  /\ WF_vars(\E t \in DOMAIN stage : DeviceStep(t))

FairSpec == Spec /\ Fairness

-----------------------------------------------------------------------------
(* Properties                                                              *)

Optional(S) == S \cup {None}

\* Type invariant: every variable has the shape its class declares.
TypeOK ==
  /\ phase            \in [Missions -> Optional(Phases \ {"CREATED"})]
  /\ inspect_task_id  \in [Missions -> Optional(Task)]
  /\ pickup_task_id   \in [Missions -> Optional(Task)]
  /\ uav_agent_id     \in [Missions -> Optional(Uavs)]
  /\ ugv_agent_id     \in [Missions -> Optional(Ugvs)]
  /\ garbage_detected \in [Missions -> Optional(BOOLEAN)]
  /\ failed_agents    \in [Missions -> SUBSET Agents]
  /\ reassign_count   \in [Missions -> Nat]
  /\ image_url        \in [Missions -> Optional(Task)]
  /\ mission_result   \in [Missions -> Optional(Summaries)]
  /\ dispatched       \in [Missions -> Nat]
  /\ DOMAIN stage \subseteq Task
  /\ stage            \in [DOMAIN stage -> Stages]
  /\ wire             \subseteq Feedback
  /\ unheard          \subseteq Task

\* While a mission waits for a device, it is waiting for a task it knows, held
\* by the agent it recorded, and that agent has not failed it before: stale
\* feedback never puts a blacklisted device back in charge.
AssigneeSound ==
  \A m \in Missions :
    /\ phase[m] \in UavPhases =>
         /\ inspect_task_id[m] \in DOMAIN stage
         /\ inspect_task_id[m].agent = uav_agent_id[m]
         /\ uav_agent_id[m] \notin failed_agents[m]
    /\ phase[m] \in UgvPhases =>
         /\ pickup_task_id[m] \in DOMAIN stage
         /\ pickup_task_id[m].agent = ugv_agent_id[m]
         /\ ugv_agent_id[m] \notin failed_agents[m]

\* However failures, late feedback and verdicts interleave, a mission sends out
\* at most one inspection and one pickup per attempt (MAX_REASSIGN + 1 of them).
DispatchBound ==
  \A m \in Missions : dispatched[m] <= 2 + 2 * MaxReassign

\* The operator is asked only about an inspection whose photograph exists, and
\* it is the photograph of the task the mission now records.
ConfirmHasImage ==
  \A m \in Missions :
    phase[m] = "AWAITING_CONFIRM" =>
      /\ inspect_task_id[m] \in DOMAIN stage
      /\ HasImage(inspect_task_id[m])

\* No UGV is ever sent for a mission none of whose inspections has produced a
\* photograph, whatever is retried in between.
PickupAfterImage ==
  \A p \in DOMAIN stage :
    p.type = "PICKUP_AND_DELIVER" =>
      \E t \in DOMAIN stage :
        t.mission = p.mission /\ t.type = "INSPECT_TARGET" /\ HasImage(t)

\* A mission stands as COMPLETED, and was reported as such, only if the operator
\* saw no garbage or the UGV now in charge has finished its own task.
CompletionJustified ==
  \A m \in Missions :
    phase[m] = "COMPLETED" =>
      /\ mission_result[m] = "COMPLETED"
      /\ \/ garbage_detected[m] = FALSE
         \/ /\ pickup_task_id[m] \in DOMAIN stage
            /\ stage[pickup_task_id[m]] = "COMPLETED"

\* What the contract of missions (MissionContract) sees of this state.
Standing(m) ==
  CASE phase[m] \in UavPhases         -> "inspecting"
    [] phase[m] \in UgvPhases         -> "clearing"
    [] phase[m] = "AWAITING_CONFIRM"  -> "asking"
    [] phase[m] = "COMPLETED"         -> "completed"
    [] phase[m] = "FAILED"            -> "failed"
    [] OTHER                          -> "none"

SomeTask(m, type, stages) ==
  \E t \in DOMAIN stage : t.mission = m /\ t.type = type /\ stage[t] \in stages

Contract == INSTANCE MissionContract WITH
  status       <- [m \in Missions |-> Standing(m)],
  photographed <- {m \in Missions : SomeTask(m, "INSPECT_TARGET", ImageStages)},
  agreed       <- {m \in Missions : SomeTask(m, "PICKUP_AND_DELIVER", Stages)},
  delivered    <- {m \in Missions : SomeTask(m, "PICKUP_AND_DELIVER", {"COMPLETED"})},
  failures     <- reassign_count

\* The state machine keeps the contract of MissionContract whatever feedback
\* comes late, out of order or not at all: no question without a photograph of
\* the mission, no vehicle before the operator agreed, no completion without a
\* delivery or the operator's no, and nothing reopened once the retries are used
\* up.
KeepsContract == Contract!Spec

\* A task nobody will report on: its assignment was lost, the device refused
\* it, or it ended and its last message was lost.
Silent(t) == stage[t] \in {"LOST", "REJECTED"} \/ t \in unheard

\* Every mission comes to rest: from some point on it is over, waits for the
\* operator, or waits for a device that refused the task or was not heard of
\* again.  Nothing else stalls a mission: not the order in which feedback comes
\* in, not a lost ACCEPTED or IMAGE_CAPTURED, not a late word of a replaced task.
Settles ==
  \A m \in Missions :
    <>[](\/ phase[m] \in Terminal \cup {"AWAITING_CONFIRM", None}
         \/ phase[m] \in UavPhases /\ Silent(inspect_task_id[m])
         \/ phase[m] \in UgvPhases /\ Silent(pickup_task_id[m]))

\* mission_fsm.py:104 and :123 announce the end of the task when a mission is
\* COMPLETED: an ended mission would stay ended.
TerminalIsFinal ==
  [][\A m \in Missions : phase[m] \in Terminal => phase'[m] = phase[m]]_vars

\* README.md:63 of the master agent: a mission is set FAILED only when its
\* retries are used up or no device is available.
FailsOnlyWithoutDevice == \A m \in Missions : mission_result[m] # "REPORTED"

\* mission_fsm.py:30 glosses AWAITING_CONFIRM as waiting for the verdict on the
\* picture: the picture shown is that of the inspection in question.
ShownIsCurrent ==
  \A m \in Missions :
    phase[m] = "AWAITING_CONFIRM" => image_url[m] = inspect_task_id[m]

\* mission_fsm.py:31 glosses UGV_ASSIGNED as garbage confirmed, UGV assigned.
PickupConfirmed ==
  \A m \in Missions : phase[m] \in UgvPhases => garbage_detected[m] = TRUE

=============================================================================
