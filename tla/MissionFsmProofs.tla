-------------------------- MODULE MissionFsmProofs --------------------------
(***************************************************************************)
(* Theorems about MissionFsm, for every set of missions and devices, every *)
(* MAX_REASSIGN, and links that lose and reorder messages.                 *)
(***************************************************************************)
EXTENDS MissionFsm, TLAPS

-----------------------------------------------------------------------------
(* Type correctness                                                        *)

\* Publishing an assignment of a mission keeps the task table well formed.
LEMMA PublishType ==
  ASSUME TypeOK, NEW m \in Missions, NEW type \in TaskTypes, NEW a \in Agents,
         Publish(NewTask(m, type, a))
  PROVE  /\ NewTask(m, type, a) \in Task
         /\ dispatched' \in [Missions -> Nat]
         /\ DOMAIN stage' \subseteq Task
         /\ stage' \in [DOMAIN stage' -> Stages]
<1> DEFINE t == NewTask(m, type, a)
<1>1. dispatched[m] + 1 \in Nat
  BY DEF TypeOK
<1>2. t \in Task /\ t.mission = m
  BY <1>1 DEF NewTask, Task
<1>3. dispatched' \in [Missions -> Nat]
  BY <1>1, <1>2 DEF Publish, TypeOK
<1>4. DOMAIN stage' = DOMAIN stage \cup {t}
  BY DEF Publish
<1>5. DOMAIN stage' \subseteq Task
  BY <1>2, <1>4 DEF TypeOK
<1>6. \A u \in DOMAIN stage \cup {t} : (IF u = t THEN "SENT" ELSE stage[u]) \in Stages
  BY DEF TypeOK, Stages
<1>7. stage' \in [DOMAIN stage' -> Stages]
  BY <1>4, <1>6 DEF Publish
<1> QED BY <1>2, <1>3, <1>5, <1>7

\* What _assign_uav leaves behind is well typed.
LEMMA AssignUavType ==
  ASSUME TypeOK, NEW m \in Missions, NEW exclude, AssignUav(m, exclude)
  PROVE  /\ phase' \in [Missions -> Optional(Phases \ {"CREATED"})]
         /\ inspect_task_id' \in [Missions -> Optional(Task)]
         /\ uav_agent_id' \in [Missions -> Optional(Uavs)]
         /\ mission_result' \in [Missions -> Optional(Summaries)]
         /\ dispatched' \in [Missions -> Nat]
         /\ DOMAIN stage' \subseteq Task
         /\ stage' \in [DOMAIN stage' -> Stages]
<1>1. CASE \E a \in Candidates(Uavs, exclude) :
             LET t == NewTask(m, "INSPECT_TARGET", a) IN
             /\ uav_agent_id' = [uav_agent_id EXCEPT ![m] = a]
             /\ inspect_task_id' = [inspect_task_id EXCEPT ![m] = t]
             /\ phase' = [phase EXCEPT ![m] = "UAV_ASSIGNED"]
             /\ Publish(t)
             /\ UNCHANGED mission_result
  <2>1. PICK a \in Candidates(Uavs, exclude) :
             /\ uav_agent_id' = [uav_agent_id EXCEPT ![m] = a]
             /\ inspect_task_id' =
                  [inspect_task_id EXCEPT ![m] = NewTask(m, "INSPECT_TARGET", a)]
             /\ phase' = [phase EXCEPT ![m] = "UAV_ASSIGNED"]
             /\ Publish(NewTask(m, "INSPECT_TARGET", a))
             /\ UNCHANGED mission_result
    BY <1>1
  <2>2. a \in Uavs /\ a \in Agents
    BY DEF Candidates, Agents
  <2>3. "INSPECT_TARGET" \in TaskTypes
    BY DEF TaskTypes
  <2>4. /\ NewTask(m, "INSPECT_TARGET", a) \in Task
        /\ dispatched' \in [Missions -> Nat]
        /\ DOMAIN stage' \subseteq Task
        /\ stage' \in [DOMAIN stage' -> Stages]
    BY <2>1, <2>2, <2>3, PublishType
  <2> QED BY <2>1, <2>2, <2>4 DEF TypeOK, Optional, Phases
<1>2. CASE /\ inspect_task_id' = [inspect_task_id EXCEPT ![m] = None]
           /\ Conclude(m, "FAILED", "NO_DEVICE")
           /\ UNCHANGED <<uav_agent_id, stage, dispatched>>
  BY <1>2 DEF TypeOK, Conclude, Optional, Phases, Summaries, FailureReasons
<1> QED BY <1>1, <1>2 DEF AssignUav

\* What _assign_ugv leaves behind is well typed.
LEMMA AssignUgvType ==
  ASSUME TypeOK, NEW m \in Missions, NEW exclude,
         NEW pickup \in Optional(Task), AssignUgv(m, exclude, pickup)
  PROVE  /\ phase' \in [Missions -> Optional(Phases \ {"CREATED"})]
         /\ pickup_task_id' \in [Missions -> Optional(Task)]
         /\ ugv_agent_id' \in [Missions -> Optional(Ugvs)]
         /\ mission_result' \in [Missions -> Optional(Summaries)]
         /\ dispatched' \in [Missions -> Nat]
         /\ DOMAIN stage' \subseteq Task
         /\ stage' \in [DOMAIN stage' -> Stages]
<1>1. CASE \E a \in Candidates(Ugvs, exclude) :
             LET t == NewTask(m, "PICKUP_AND_DELIVER", a) IN
             /\ ugv_agent_id' = [ugv_agent_id EXCEPT ![m] = a]
             /\ pickup_task_id' = [pickup_task_id EXCEPT ![m] = t]
             /\ phase' = [phase EXCEPT ![m] = "UGV_ASSIGNED"]
             /\ Publish(t)
             /\ UNCHANGED mission_result
  <2>1. PICK a \in Candidates(Ugvs, exclude) :
             /\ ugv_agent_id' = [ugv_agent_id EXCEPT ![m] = a]
             /\ pickup_task_id' =
                  [pickup_task_id EXCEPT ![m] = NewTask(m, "PICKUP_AND_DELIVER", a)]
             /\ phase' = [phase EXCEPT ![m] = "UGV_ASSIGNED"]
             /\ Publish(NewTask(m, "PICKUP_AND_DELIVER", a))
             /\ UNCHANGED mission_result
    BY <1>1
  <2>2. a \in Ugvs /\ a \in Agents
    BY DEF Candidates, Agents
  <2>3. "PICKUP_AND_DELIVER" \in TaskTypes
    BY DEF TaskTypes
  <2>4. /\ NewTask(m, "PICKUP_AND_DELIVER", a) \in Task
        /\ dispatched' \in [Missions -> Nat]
        /\ DOMAIN stage' \subseteq Task
        /\ stage' \in [DOMAIN stage' -> Stages]
    BY <2>1, <2>2, <2>3, PublishType
  <2> QED BY <2>1, <2>2, <2>4 DEF TypeOK, Optional, Phases
<1>2. CASE /\ pickup_task_id' = [pickup_task_id EXCEPT ![m] = pickup]
           /\ Conclude(m, "FAILED", "NO_DEVICE")
           /\ UNCHANGED <<ugv_agent_id, stage, dispatched>>
  BY <1>2 DEF TypeOK, Conclude, Optional, Phases, Summaries, FailureReasons
<1> QED BY <1>1, <1>2 DEF AssignUgv


\* What a message says of its task holds of the stages st.
Truthful(fb, st) ==
  /\ fb.status = "IMAGE_CAPTURED" => st[fb.task] \in ImageStages
  /\ fb.status = "COMPLETED" => st[fb.task] = "COMPLETED"

\* The effect of anything a device or a link does: one assignment changes
\* stage, at most one message is sent, by the agent the assignment is for, and
\* what the message says is true.

LEMMA EnvironmentStep ==
  ASSUME TypeOK, NEW t \in DOMAIN stage, AssignmentLost(t) \/ DeviceStep(t)
  PROVE  /\ UNCHANGED fsmVars
         /\ unheard' \subseteq unheard \cup DOMAIN stage
         /\ \E s \in Stages :
              /\ stage' = [stage EXCEPT ![t] = s]
              /\ HasImage(t) => s \in ImageStages
              /\ stage[t] # "COMPLETED"
         /\ \/ wire' = wire
            \/ \E r \in DOMAIN stage, status \in Statuses :
                 /\ r.agent = t.agent
                 /\ wire' = wire \cup {[task |-> r, status |-> status]}
                 /\ Truthful([task |-> r, status |-> status], stage')
<1> USE DEF Becomes, Send, Final, HasImage, ImageStages, Truthful, Stages, Statuses, Working
<1> t \in Task /\ stage[t] \in Stages /\ stage \in [DOMAIN stage -> Stages]
  BY DEF TypeOK
<1>1. CASE AssignmentLost(t)
  BY <1>1 DEF AssignmentLost
<1>2. CASE DeviceAccepts(t)
  BY <1>2 DEF DeviceAccepts
<1>3. ASSUME NEW running \in DOMAIN stage, DeviceRejectsBusy(t, running)
      PROVE  /\ UNCHANGED fsmVars
             /\ unheard' \subseteq unheard \cup DOMAIN stage
             /\ stage' = [stage EXCEPT ![t] = "REJECTED"]
             /\ stage[t] = "SENT"
             /\ running.agent = t.agent
             /\ \/ wire' = wire
                \/ wire' = wire \cup {[task |-> running, status |-> "REJECTED"]}
  BY <1>3 DEF DeviceRejectsBusy
<1>4. CASE DeviceRefuses(t)
  BY <1>4 DEF DeviceRefuses
<1>5. CASE DeviceCaptures(t)
  BY <1>5 DEF DeviceCaptures
<1>6. CASE DeviceCompletes(t)
  BY <1>6 DEF DeviceCompletes
<1>7. CASE DeviceFails(t)
  BY <1>7 DEF DeviceFails
<1>8. CASE \E running \in DOMAIN stage : DeviceRejectsBusy(t, running)
  <2>1. PICK running \in DOMAIN stage : DeviceRejectsBusy(t, running)
    BY <1>8
  <2>2. Truthful([task |-> running, status |-> "REJECTED"], stage')
    OBVIOUS
  <2> QED BY <2>1, <2>2, <1>3
<1> QED
  BY <1>1, <1>2, <1>4, <1>5, <1>6, <1>7, <1>8 DEF DeviceStep

\* Every message on its way is a well-typed feedback.
LEMMA WireIsFeedback ==
  ASSUME TypeOK, NEW fb \in wire
  PROVE  /\ fb \in Feedback
         /\ fb.task \in Task
         /\ fb.task.mission \in Missions
         /\ fb.task.agent \in Agents
<1>1. fb \in Feedback
  BY DEF TypeOK
<1> QED BY <1>1 DEF Feedback, Task

LEMMA FeedbackType ==
  ASSUME TypeOK, NEW fb \in wire, OnFeedback(fb)
  PROVE  TypeOK'
<1> DEFINE m == fb.task.mission
<1>0. /\ fb \in Feedback
      /\ fb.task \in Task /\ m \in Missions /\ fb.task.agent \in Agents
  BY WireIsFeedback
<1>1. wire' \subseteq Feedback /\ unheard' = unheard
  BY <1>0 DEF OnFeedback, TypeOK
<1>2. CASE OnFailure(fb)
  <2> DEFINE exclude == failed_agents[m] \cup {fb.task.agent}
  <2>1. /\ failed_agents' \in [Missions -> SUBSET Agents]
        /\ reassign_count' \in [Missions -> Nat]
        /\ garbage_detected' = garbage_detected
        /\ image_url' = image_url
    BY <1>0, <1>2 DEF OnFailure, TypeOK
  <2>2. CASE AssignUav(m, exclude) /\ UNCHANGED <<pickup_task_id, ugv_agent_id>>
    BY <2>1, <2>2, <1>0, <1>1, AssignUavType DEF TypeOK
  <2>3. CASE AssignUgv(m, exclude, None) /\ UNCHANGED <<inspect_task_id, uav_agent_id>>
    <3>1. None \in Optional(Task)
      BY DEF Optional
    <3> QED BY <3>1, <2>1, <2>3, <1>0, <1>1, AssignUgvType DEF TypeOK
  <2>4. CASE /\ \E why \in FailureReasons : Conclude(m, "FAILED", why)
             /\ UNCHANGED <<inspect_task_id, pickup_task_id, uav_agent_id,
                            ugv_agent_id, stage, dispatched>>
    BY <2>1, <2>4, <1>0, <1>1
       DEF Conclude, TypeOK, Optional, Phases, Summaries
  <2> QED BY <2>2, <2>3, <2>4, <1>2 DEF OnFailure, FailureReasons
<1>3. CASE Advance(fb)
  BY <1>0, <1>1, <1>3
     DEF Advance, MoveTo, Photographed, Conclude, TypeOK, Optional, Phases, Summaries
<1>4. CASE Ignore(fb)
  BY <1>1, <1>4 DEF Ignore, fsmVars, TypeOK
<1> QED BY <1>2, <1>3, <1>4 DEF OnFeedback

\* THEOREM: in every reachable state each variable has its declared type.
THEOREM TypeCorrect == Spec => []TypeOK
<1>1. Init => TypeOK
  BY DEF Init, TypeOK, Optional, Stages, ConstantsAssumption
<1>2. TypeOK /\ [Next]_vars => TypeOK'
  <2> SUFFICES ASSUME TypeOK, [Next]_vars PROVE TypeOK'
    OBVIOUS
  <2>1. ASSUME NEW m \in Missions, CreateMission(m) PROVE TypeOK'
    BY <2>1, AssignUavType DEF CreateMission, TypeOK
  <2>2. ASSUME NEW m \in Missions, NEW garbage \in BOOLEAN,
               OnInspectionResult(m, garbage)
        PROVE  TypeOK'
    <3>1. /\ garbage_detected' \in [Missions -> Optional(BOOLEAN)]
          /\ pickup_task_id[m] \in Optional(Task)
      BY <2>2 DEF OnInspectionResult, TypeOK, Optional
    <3>2. CASE AssignUgv(m, failed_agents[m], pickup_task_id[m])
      BY <3>1, <3>2, <2>2, AssignUgvType DEF OnInspectionResult, TypeOK
    <3>3. CASE /\ Conclude(m, "COMPLETED", "COMPLETED")
               /\ UNCHANGED <<pickup_task_id, ugv_agent_id, stage, dispatched>>
      BY <3>1, <3>3, <2>2
         DEF OnInspectionResult, Conclude, TypeOK, Optional, Phases, Summaries
    <3> QED BY <3>2, <3>3, <2>2 DEF OnInspectionResult
  <2>3. ASSUME NEW fb \in wire, OnFeedback(fb) PROVE TypeOK'
    BY <2>3, FeedbackType
  <2>5. ASSUME NEW t \in DOMAIN stage, AssignmentLost(t) \/ DeviceStep(t)
        PROVE  TypeOK'
    <3>1. PICK s \in Stages : stage' = [stage EXCEPT ![t] = s]
      BY <2>5, EnvironmentStep
    <3>2. DOMAIN stage' = DOMAIN stage /\ stage' \in [DOMAIN stage -> Stages]
      BY <3>1 DEF TypeOK
    <3>3. wire' \subseteq Feedback
      <4>1. ASSUME NEW r \in DOMAIN stage, NEW status \in Statuses
            PROVE  [task |-> r, status |-> status] \in Feedback
        BY DEF TypeOK, Feedback
      <4>2. \/ wire' = wire
            \/ \E r \in DOMAIN stage, status \in Statuses :
                 wire' = wire \cup {[task |-> r, status |-> status]}
        BY <2>5, EnvironmentStep
      <4>3. wire \subseteq Feedback
        BY DEF TypeOK
      <4> QED BY <4>1, <4>2, <4>3
    <3>4. unheard' \subseteq Task
      BY <2>5, EnvironmentStep DEF TypeOK
    <3> QED BY <3>2, <3>3, <3>4, <2>5, EnvironmentStep DEF fsmVars, TypeOK
  <2>6. CASE UNCHANGED vars
    BY <2>6 DEF vars, fsmVars, deviceVars, TypeOK
  <2> QED BY <2>1, <2>2, <2>3, <2>5, <2>6 DEF Next
<1> QED BY <1>1, <1>2, PTL DEF Spec

-----------------------------------------------------------------------------
(* Bookkeeping: what the records of the state machine, the task table and  *)
(* the messages on the wire have to do with one another                    *)

\* Task identifiers of a mission are those it has handed out.
Numbered ==
  \A t \in DOMAIN stage : 1 <= t.n /\ t.n <= dispatched[t.mission]

\* Messages speak of tasks that exist and stay true while they travel.
WireSound ==
  \A fb \in wire : fb.task \in DOMAIN stage /\ Truthful(fb, stage)

\* Publishing hands out a new identifier and leaves every other task alone.
LEMMA PublishFresh ==
  ASSUME TypeOK, Numbered, NEW m \in Missions, NEW type \in TaskTypes,
         NEW a \in Agents, Publish(NewTask(m, type, a))
  PROVE  /\ NewTask(m, type, a) \notin DOMAIN stage
         /\ DOMAIN stage' = DOMAIN stage \cup {NewTask(m, type, a)}
         /\ stage'[NewTask(m, type, a)] = "SENT"
         /\ \A t \in DOMAIN stage : stage'[t] = stage[t]
         /\ dispatched'[m] = dispatched[m] + 1
         /\ \A o \in Missions \ {m} : dispatched'[o] = dispatched[o]
         /\ Numbered'
<1> DEFINE t == NewTask(m, type, a)
<1>1. t \in Task /\ t.mission = m /\ t.n = dispatched[m] + 1 /\ dispatched[m] \in Nat
  BY PublishType DEF NewTask, TypeOK
<1>2. t \notin DOMAIN stage
  BY <1>1 DEF Numbered
<1>3. /\ DOMAIN stage' = DOMAIN stage \cup {t}
      /\ stage'[t] = "SENT"
      /\ \A u \in DOMAIN stage : stage'[u] = stage[u]
  BY <1>2 DEF Publish
<1>4. /\ dispatched'[m] = dispatched[m] + 1
      /\ \A o \in Missions \ {m} : dispatched'[o] = dispatched[o]
  BY <1>1 DEF Publish, TypeOK
<1>5. ASSUME NEW u \in DOMAIN stage'
      PROVE  1 <= u.n /\ u.n <= dispatched'[u.mission]
  <2>1. CASE u = t
    BY <2>1, <1>1, <1>4
  <2>2. CASE u \in DOMAIN stage
    <3>1. u \in Task /\ u.mission \in Missions /\ u.n \in Nat
      BY <2>2 DEF TypeOK, Task
    <3>2. 1 <= u.n /\ u.n <= dispatched[u.mission]
      BY <2>2 DEF Numbered
    <3>3. dispatched[u.mission] \in Nat
      BY <3>1 DEF TypeOK
    <3>4. CASE u.mission = m
      BY <3>1, <3>2, <3>3, <3>4, <1>4
    <3>5. CASE u.mission # m
      BY <3>1, <3>2, <3>5, <1>4
    <3> QED BY <3>4, <3>5
  <2> QED BY <2>1, <2>2, <1>3
<1> QED BY <1>2, <1>3, <1>4, <1>5 DEF Numbered

\* No task is forgotten and none of the known ones changes its stage.
Extends(newStage, oldStage) ==
  /\ DOMAIN oldStage \subseteq DOMAIN newStage
  /\ \A t \in DOMAIN oldStage : newStage[t] = oldStage[t]

\* _assign_uav either puts an agent outside the blacklist in charge of a new
\* task, or fails the mission; it touches no other mission.
LEMMA AssignUavEffect ==
  ASSUME TypeOK, Numbered, NEW m \in Missions, NEW exclude, AssignUav(m, exclude)
  PROVE  /\ Extends(stage', stage)
         /\ Numbered'
         /\ \A o \in Missions \ {m} :
              /\ phase'[o] = phase[o]
              /\ inspect_task_id'[o] = inspect_task_id[o]
              /\ uav_agent_id'[o] = uav_agent_id[o]
              /\ mission_result'[o] = mission_result[o]
              /\ dispatched'[o] = dispatched[o]
         /\ \/ /\ phase'[m] = "UAV_ASSIGNED"
               /\ inspect_task_id'[m] \in DOMAIN stage'
               /\ inspect_task_id'[m].mission = m
               /\ inspect_task_id'[m].type = "INSPECT_TARGET"
               /\ inspect_task_id'[m].agent = uav_agent_id'[m]
               /\ uav_agent_id'[m] \notin exclude
               /\ dispatched'[m] = dispatched[m] + 1
               /\ DOMAIN stage' = DOMAIN stage \cup {inspect_task_id'[m]}
            \/ /\ phase'[m] = "FAILED"
               /\ inspect_task_id'[m] = None
               /\ dispatched'[m] = dispatched[m]
               /\ stage' = stage
<1>1. CASE \E a \in Candidates(Uavs, exclude) :
             LET t == NewTask(m, "INSPECT_TARGET", a) IN
             /\ uav_agent_id' = [uav_agent_id EXCEPT ![m] = a]
             /\ inspect_task_id' = [inspect_task_id EXCEPT ![m] = t]
             /\ phase' = [phase EXCEPT ![m] = "UAV_ASSIGNED"]
             /\ Publish(t)
             /\ UNCHANGED mission_result
  <2>1. PICK a \in Candidates(Uavs, exclude) :
             /\ uav_agent_id' = [uav_agent_id EXCEPT ![m] = a]
             /\ inspect_task_id' =
                  [inspect_task_id EXCEPT ![m] = NewTask(m, "INSPECT_TARGET", a)]
             /\ phase' = [phase EXCEPT ![m] = "UAV_ASSIGNED"]
             /\ Publish(NewTask(m, "INSPECT_TARGET", a))
             /\ UNCHANGED mission_result
    BY <1>1
  <2> DEFINE t == NewTask(m, "INSPECT_TARGET", a)
  <2>2. a \in Agents /\ a \notin exclude /\ "INSPECT_TARGET" \in TaskTypes
    BY DEF Candidates, Agents, TaskTypes
  <2>3. t.mission = m /\ t.type = "INSPECT_TARGET" /\ t.agent = a
    BY DEF NewTask
  <2>4. /\ DOMAIN stage' = DOMAIN stage \cup {t}
        /\ \A u \in DOMAIN stage : stage'[u] = stage[u]
        /\ dispatched'[m] = dispatched[m] + 1
        /\ \A o \in Missions \ {m} : dispatched'[o] = dispatched[o]
        /\ Numbered'
    BY <2>1, <2>2, PublishFresh
  <2>5. inspect_task_id'[m] = t /\ uav_agent_id'[m] = a /\ phase'[m] = "UAV_ASSIGNED"
    BY <2>1 DEF TypeOK
  <2>6. \A o \in Missions \ {m} :
              /\ phase'[o] = phase[o]
              /\ inspect_task_id'[o] = inspect_task_id[o]
              /\ uav_agent_id'[o] = uav_agent_id[o]
              /\ mission_result'[o] = mission_result[o]
    BY <2>1 DEF TypeOK
  <2> QED BY <2>2, <2>3, <2>4, <2>5, <2>6 DEF Extends
<1>2. CASE /\ inspect_task_id' = [inspect_task_id EXCEPT ![m] = None]
           /\ Conclude(m, "FAILED", "NO_DEVICE")
           /\ UNCHANGED <<uav_agent_id, stage, dispatched>>
  BY <1>2 DEF Conclude, TypeOK, Extends, Numbered
<1> QED BY <1>1, <1>2 DEF AssignUav

\* The same for _assign_ugv.
LEMMA AssignUgvEffect ==
  ASSUME TypeOK, Numbered, NEW m \in Missions, NEW exclude,
         NEW pickup \in Optional(Task), AssignUgv(m, exclude, pickup)
  PROVE  /\ Extends(stage', stage)
         /\ Numbered'
         /\ \A o \in Missions \ {m} :
              /\ phase'[o] = phase[o]
              /\ pickup_task_id'[o] = pickup_task_id[o]
              /\ ugv_agent_id'[o] = ugv_agent_id[o]
              /\ mission_result'[o] = mission_result[o]
              /\ dispatched'[o] = dispatched[o]
         /\ \/ /\ phase'[m] = "UGV_ASSIGNED"
               /\ pickup_task_id'[m] \in DOMAIN stage'
               /\ pickup_task_id'[m].mission = m
               /\ pickup_task_id'[m].type = "PICKUP_AND_DELIVER"
               /\ pickup_task_id'[m].agent = ugv_agent_id'[m]
               /\ ugv_agent_id'[m] \notin exclude
               /\ dispatched'[m] = dispatched[m] + 1
               /\ DOMAIN stage' = DOMAIN stage \cup {pickup_task_id'[m]}
            \/ /\ phase'[m] = "FAILED"
               /\ pickup_task_id'[m] = pickup
               /\ ugv_agent_id'[m] = ugv_agent_id[m]
               /\ dispatched'[m] = dispatched[m]
               /\ stage' = stage
<1>1. CASE \E a \in Candidates(Ugvs, exclude) :
             LET t == NewTask(m, "PICKUP_AND_DELIVER", a) IN
             /\ ugv_agent_id' = [ugv_agent_id EXCEPT ![m] = a]
             /\ pickup_task_id' = [pickup_task_id EXCEPT ![m] = t]
             /\ phase' = [phase EXCEPT ![m] = "UGV_ASSIGNED"]
             /\ Publish(t)
             /\ UNCHANGED mission_result
  <2>1. PICK a \in Candidates(Ugvs, exclude) :
             /\ ugv_agent_id' = [ugv_agent_id EXCEPT ![m] = a]
             /\ pickup_task_id' =
                  [pickup_task_id EXCEPT ![m] = NewTask(m, "PICKUP_AND_DELIVER", a)]
             /\ phase' = [phase EXCEPT ![m] = "UGV_ASSIGNED"]
             /\ Publish(NewTask(m, "PICKUP_AND_DELIVER", a))
             /\ UNCHANGED mission_result
    BY <1>1
  <2> DEFINE t == NewTask(m, "PICKUP_AND_DELIVER", a)
  <2>2. a \in Agents /\ a \notin exclude /\ "PICKUP_AND_DELIVER" \in TaskTypes
    BY DEF Candidates, Agents, TaskTypes
  <2>3. t.mission = m /\ t.type = "PICKUP_AND_DELIVER" /\ t.agent = a
    BY DEF NewTask
  <2>4. /\ DOMAIN stage' = DOMAIN stage \cup {t}
        /\ \A u \in DOMAIN stage : stage'[u] = stage[u]
        /\ dispatched'[m] = dispatched[m] + 1
        /\ \A o \in Missions \ {m} : dispatched'[o] = dispatched[o]
        /\ Numbered'
    BY <2>1, <2>2, PublishFresh
  <2>5. pickup_task_id'[m] = t /\ ugv_agent_id'[m] = a /\ phase'[m] = "UGV_ASSIGNED"
    BY <2>1 DEF TypeOK
  <2>6. \A o \in Missions \ {m} :
              /\ phase'[o] = phase[o]
              /\ pickup_task_id'[o] = pickup_task_id[o]
              /\ ugv_agent_id'[o] = ugv_agent_id[o]
              /\ mission_result'[o] = mission_result[o]
    BY <2>1 DEF TypeOK
  <2> QED BY <2>2, <2>3, <2>4, <2>5, <2>6 DEF Extends
<1>2. CASE /\ pickup_task_id' = [pickup_task_id EXCEPT ![m] = pickup]
           /\ Conclude(m, "FAILED", "NO_DEVICE")
           /\ UNCHANGED <<ugv_agent_id, stage, dispatched>>
  BY <1>2 DEF Conclude, TypeOK, Extends, Numbered
<1> QED BY <1>1, <1>2 DEF AssignUgv

\* Photographs and completions are never taken back.
Keeps(newStage, oldStage) ==
  /\ DOMAIN oldStage \subseteq DOMAIN newStage
  /\ \A t \in DOMAIN oldStage :
       /\ oldStage[t] \in ImageStages => newStage[t] \in ImageStages
       /\ oldStage[t] = "COMPLETED" => newStage[t] = "COMPLETED"

LEMMA EnvironmentKeeps ==
  ASSUME TypeOK, NEW t \in DOMAIN stage, AssignmentLost(t) \/ DeviceStep(t)
  PROVE  Keeps(stage', stage) /\ DOMAIN stage' = DOMAIN stage
<1>1. PICK s \in Stages :
        /\ stage' = [stage EXCEPT ![t] = s]
        /\ HasImage(t) => s \in ImageStages
        /\ stage[t] # "COMPLETED"
  BY EnvironmentStep
<1> QED BY <1>1 DEF Keeps, HasImage, TypeOK

\* Feedback is handled by the branches of on_feedback; each of them leaves the
\* stages of known tasks alone.
LEMMA FeedbackKeeps ==
  ASSUME TypeOK, Numbered, NEW fb \in wire, OnFeedback(fb)
  PROVE  Keeps(stage', stage) /\ Numbered'
<1> DEFINE m  == fb.task.mission
           exclude == failed_agents[m] \cup {fb.task.agent}
<1>0. m \in Missions /\ None \in Optional(Task)
  BY WireIsFeedback DEF Optional
<1>1. CASE AssignUav(m, exclude)
  BY <1>0, <1>1, AssignUavEffect DEF Extends, Keeps
<1>2. CASE AssignUgv(m, exclude, None)
  BY <1>0, <1>2, AssignUgvEffect DEF Extends, Keeps
<1>3. CASE UNCHANGED <<stage, dispatched>>
  BY <1>3 DEF Keeps, Numbered
<1> QED
  BY <1>1, <1>2, <1>3 DEF OnFeedback, OnFailure, Advance, Ignore, fsmVars

\* Every step keeps photographs and completions, and the numbering.
LEMMA StepKeeps ==
  ASSUME TypeOK, Numbered, [Next]_vars
  PROVE  Keeps(stage', stage) /\ Numbered'
<1>0. ASSUME UNCHANGED <<stage, dispatched>>
      PROVE  Keeps(stage', stage) /\ Numbered'
  BY <1>0 DEF Keeps, Numbered
<1>1. ASSUME NEW m \in Missions, CreateMission(m)
      PROVE  Keeps(stage', stage) /\ Numbered'
  BY <1>1, AssignUavEffect DEF CreateMission, Extends, Keeps
<1>2. ASSUME NEW m \in Missions, NEW garbage \in BOOLEAN,
             OnInspectionResult(m, garbage)
      PROVE  Keeps(stage', stage) /\ Numbered'
  <2>1. pickup_task_id[m] \in Optional(Task)
    BY DEF TypeOK
  <2>2. CASE AssignUgv(m, failed_agents[m], pickup_task_id[m])
    BY <2>1, <2>2, AssignUgvEffect DEF Extends, Keeps
  <2> QED BY <1>0, <2>2, <1>2 DEF OnInspectionResult
<1>3. ASSUME NEW fb \in wire, OnFeedback(fb)
      PROVE  Keeps(stage', stage) /\ Numbered'
  BY <1>3, FeedbackKeeps
<1>5. ASSUME NEW t \in DOMAIN stage, AssignmentLost(t) \/ DeviceStep(t)
      PROVE  Keeps(stage', stage) /\ Numbered'
  <2>1. dispatched' = dispatched
    BY <1>5, EnvironmentStep DEF fsmVars
  <2> QED BY <1>5, <2>1, EnvironmentKeeps DEF Numbered
<1>6. CASE UNCHANGED vars
  BY <1>0, <1>6 DEF vars, fsmVars, deviceVars
<1> QED BY <1>1, <1>2, <1>3, <1>5, <1>6 DEF Next

\* Messages that were true stay true.
LEMMA WireStep ==
  ASSUME TypeOK, Numbered, WireSound, [Next]_vars
  PROVE  WireSound'
<1>1. Keeps(stage', stage)
  BY StepKeeps
<1>2. \A fb \in wire : fb.task \in DOMAIN stage' /\ Truthful(fb, stage')
  BY <1>1 DEF WireSound, Keeps, Truthful
<1>3. ASSUME wire' \subseteq wire PROVE WireSound'
  BY <1>2, <1>3 DEF WireSound
<1>4. ASSUME NEW r \in DOMAIN stage, NEW status \in Statuses,
             wire' = wire \cup {[task |-> r, status |-> status]},
             Truthful([task |-> r, status |-> status], stage')
      PROVE  WireSound'
  BY <1>1, <1>2, <1>4 DEF WireSound, Keeps
<1>5. ASSUME NEW t \in DOMAIN stage, AssignmentLost(t) \/ DeviceStep(t)
      PROVE  WireSound'
  BY <1>3, <1>4, <1>5, EnvironmentStep
<1> QED
  BY <1>3, <1>5
     DEF Next, CreateMission, OnInspectionResult, OnFeedback, vars, deviceVars

-----------------------------------------------------------------------------
(* The inductive invariant                                                 *)

\* A recorded task exists, belongs to the mission and to the recorded agent.
Recorded(m) ==
  /\ inspect_task_id[m] # None =>
       /\ inspect_task_id[m] \in DOMAIN stage
       /\ inspect_task_id[m].mission = m
       /\ inspect_task_id[m].type = "INSPECT_TARGET"
       /\ inspect_task_id[m].agent = uav_agent_id[m]
  /\ pickup_task_id[m] # None =>
       /\ pickup_task_id[m] \in DOMAIN stage
       /\ pickup_task_id[m].mission = m
       /\ pickup_task_id[m].type = "PICKUP_AND_DELIVER"
       /\ pickup_task_id[m].agent = ugv_agent_id[m]

\* What each phase says of the records.
PhaseSound(m) ==
  /\ phase[m] \in UavPhases =>
       inspect_task_id[m] # None /\ uav_agent_id[m] \notin failed_agents[m]
  /\ phase[m] \in UgvPhases =>
       pickup_task_id[m] # None /\ ugv_agent_id[m] \notin failed_agents[m]
  /\ phase[m] = "AWAITING_CONFIRM" =>
       inspect_task_id[m] # None /\ HasImage(inspect_task_id[m])
  /\ phase[m] = "COMPLETED" =>
       /\ mission_result[m] = "COMPLETED"
       /\ \/ garbage_detected[m] = FALSE
          \/ pickup_task_id[m] # None /\ stage[pickup_task_id[m]] = "COMPLETED"

\* A mission on its way to the operator still owes one pickup to its attempt.
Owed(m) == IF phase[m] \in UavPhases \cup {"AWAITING_CONFIRM"} THEN 1 ELSE 0

Attempts(m) ==
  IF reassign_count[m] <= MaxReassign THEN 1 + reassign_count[m] ELSE 1 + MaxReassign

\* Two assignments per attempt, counting the one that is owed.
Budget(m) ==
  IF phase[m] = None
    THEN dispatched[m] = 0 /\ inspect_task_id[m] = None /\ pickup_task_id[m] = None
    ELSE dispatched[m] + Owed(m) <= 2 * Attempts(m)

\* A photograph of the mission exists.
Seen(m) ==
  \E t \in DOMAIN stage :
    t.mission = m /\ t.type = "INSPECT_TARGET" /\ HasImage(t)

PickupsSeen == \A p \in DOMAIN stage : p.type = "PICKUP_AND_DELIVER" => Seen(p.mission)

MissionInv(m) == Recorded(m) /\ PhaseSound(m) /\ Budget(m)

IInv == Numbered /\ WireSound /\ PickupsSeen /\ \A m \in Missions : MissionInv(m)

Same(m) ==
  /\ phase'[m] = phase[m]
  /\ inspect_task_id'[m] = inspect_task_id[m]
  /\ pickup_task_id'[m] = pickup_task_id[m]
  /\ uav_agent_id'[m] = uav_agent_id[m]
  /\ ugv_agent_id'[m] = ugv_agent_id[m]
  /\ garbage_detected'[m] = garbage_detected[m]
  /\ failed_agents'[m] = failed_agents[m]
  /\ reassign_count'[m] = reassign_count[m]
  /\ mission_result'[m] = mission_result[m]
  /\ dispatched'[m] = dispatched[m]

\* A step that does not touch a mission keeps its invariant, whatever the
\* devices do meanwhile.
LEMMA SameKeeps ==
  ASSUME NEW m \in Missions, MissionInv(m), Same(m), Keeps(stage', stage)
  PROVE  MissionInv(m)'
<1>1. Recorded(m)'
  BY DEF MissionInv, Recorded, Same, Keeps
<1>2. PhaseSound(m)'
  BY DEF MissionInv, Recorded, PhaseSound, Same, Keeps, HasImage
<1>3. Budget(m)'
  BY DEF MissionInv, Budget, Owed, Attempts, Same
<1> QED BY <1>1, <1>2, <1>3 DEF MissionInv

\* A photograph that exists goes on existing.
LEMMA SeenKeeps ==
  ASSUME NEW m \in Missions, Seen(m), Keeps(stage', stage)
  PROVE  Seen(m)'
BY DEF Seen, Keeps, HasImage

\* Seen survives, so only a new pickup can disturb PickupsSeen.
LEMMA PickupsKeep ==
  ASSUME TypeOK, TypeOK', PickupsSeen, Keeps(stage', stage),
         \A p \in DOMAIN stage' \ DOMAIN stage :
           p.type = "PICKUP_AND_DELIVER" => Seen(p.mission)
  PROVE  PickupsSeen'
<1> SUFFICES ASSUME NEW p \in DOMAIN stage', p.type = "PICKUP_AND_DELIVER"
             PROVE  Seen(p.mission)'
  BY DEF PickupsSeen
<1>1. p.mission \in Missions
  BY DEF TypeOK, Task
<1>2. Seen(p.mission)
  BY DEF PickupsSeen
<1> QED BY <1>1, <1>2, SeenKeeps

\* Other missions are untouched, and the only new task is of the kind assigned.
LEMMA AssignUavFrame ==
  ASSUME TypeOK, Numbered, NEW m \in Missions, NEW exclude, AssignUav(m, exclude)
  PROVE  /\ \A o \in Missions \ {m} :
              /\ phase'[o] = phase[o]
              /\ inspect_task_id'[o] = inspect_task_id[o]
              /\ uav_agent_id'[o] = uav_agent_id[o]
              /\ mission_result'[o] = mission_result[o]
              /\ dispatched'[o] = dispatched[o]
         /\ \A p \in DOMAIN stage' \ DOMAIN stage : p.type = "INSPECT_TARGET"
<1>1. \A o \in Missions \ {m} :
        /\ phase'[o] = phase[o]
        /\ inspect_task_id'[o] = inspect_task_id[o]
        /\ uav_agent_id'[o] = uav_agent_id[o]
        /\ mission_result'[o] = mission_result[o]
        /\ dispatched'[o] = dispatched[o]
  BY AssignUavEffect
<1>2. \/ /\ DOMAIN stage' = DOMAIN stage \cup {inspect_task_id'[m]}
         /\ inspect_task_id'[m].type = "INSPECT_TARGET"
      \/ stage' = stage
  BY AssignUavEffect
<1> QED BY <1>1, <1>2

LEMMA AssignUgvFrame ==
  ASSUME TypeOK, Numbered, NEW m \in Missions, NEW exclude,
         NEW pickup \in Optional(Task), AssignUgv(m, exclude, pickup)
  PROVE  /\ \A o \in Missions \ {m} :
              /\ phase'[o] = phase[o]
              /\ pickup_task_id'[o] = pickup_task_id[o]
              /\ ugv_agent_id'[o] = ugv_agent_id[o]
              /\ mission_result'[o] = mission_result[o]
              /\ dispatched'[o] = dispatched[o]
         /\ \A p \in DOMAIN stage' \ DOMAIN stage : p.mission = m
<1>1. \A o \in Missions \ {m} :
        /\ phase'[o] = phase[o]
        /\ pickup_task_id'[o] = pickup_task_id[o]
        /\ ugv_agent_id'[o] = ugv_agent_id[o]
        /\ mission_result'[o] = mission_result[o]
        /\ dispatched'[o] = dispatched[o]
  BY AssignUgvEffect
<1>2. \/ /\ DOMAIN stage' = DOMAIN stage \cup {pickup_task_id'[m]}
         /\ pickup_task_id'[m].mission = m
      \/ stage' = stage
  BY AssignUgvEffect
<1> QED BY <1>1, <1>2

-----------------------------------------------------------------------------
(* The steps of the state machine keep it                                  *)

\* A step that hands the mission to a UAV outside the blacklist, within the
\* budget, or fails it.
LEMMA AssignedUavSound ==
  ASSUME TypeOK, TypeOK', IInv, NEW m \in Missions, NEW exclude,
         AssignUav(m, exclude),
         failed_agents'[m] = exclude,
         pickup_task_id'[m] = pickup_task_id[m],
         ugv_agent_id'[m] = ugv_agent_id[m],
         dispatched[m] + 2 <= 2 * Attempts(m)'
  PROVE  MissionInv(m)'
<1>1. Extends(stage', stage) /\ dispatched[m] \in Nat
  BY AssignUavEffect DEF IInv, TypeOK
<1>2. CASE /\ phase'[m] = "UAV_ASSIGNED"
           /\ inspect_task_id'[m] \in DOMAIN stage'
           /\ inspect_task_id'[m].mission = m
           /\ inspect_task_id'[m].type = "INSPECT_TARGET"
           /\ inspect_task_id'[m].agent = uav_agent_id'[m]
           /\ uav_agent_id'[m] \notin exclude
           /\ dispatched'[m] = dispatched[m] + 1
  <2>1. inspect_task_id'[m] # None
    BY <1>2, ConstantsAssumption DEF TypeOK
  <2>2. Recorded(m)'
    BY <1>1, <1>2 DEF IInv, MissionInv, Recorded, Extends
  <2>3. PhaseSound(m)'
    BY <1>2, <2>1 DEF PhaseSound, UavPhases, UgvPhases
  <2>4. Budget(m)'
    <3>1. phase'[m] # None /\ Owed(m)' = 1
      BY <1>2, ConstantsAssumption DEF Owed, UavPhases, Phases
    <3>2. dispatched'[m] + Owed(m)' = dispatched[m] + 2
      BY <1>1, <1>2, <3>1
    <3> QED BY <3>1, <3>2 DEF Budget
  <2> QED BY <2>2, <2>3, <2>4 DEF MissionInv
<1>3. CASE /\ phase'[m] = "FAILED"
           /\ inspect_task_id'[m] = None
           /\ dispatched'[m] = dispatched[m]
           /\ stage' = stage
  <2>1. Recorded(m)'
    BY <1>1, <1>3 DEF IInv, MissionInv, Recorded, Extends
  <2>2. PhaseSound(m)'
    BY <1>3 DEF PhaseSound, UavPhases, UgvPhases
  <2>3. Budget(m)'
    <3>1. phase'[m] # None /\ Owed(m)' = 0
      BY <1>3, ConstantsAssumption DEF Owed, UavPhases, Phases
    <3>2. Attempts(m)' \in Nat
      BY ConstantsAssumption DEF Attempts, TypeOK
    <3>3. dispatched'[m] + Owed(m)' <= 2 * Attempts(m)'
      BY <1>1, <1>3, <3>1, <3>2
    <3> QED BY <3>1, <3>3 DEF Budget
  <2> QED BY <2>1, <2>2, <2>3 DEF MissionInv
<1> QED BY <1>2, <1>3, AssignUavEffect DEF IInv

\* The same for a UGV; the pickup was owed, or a new attempt allows it.
LEMMA AssignedUgvSound ==
  ASSUME TypeOK, TypeOK', IInv, NEW m \in Missions, NEW exclude,
         NEW pickup \in {pickup_task_id[m], None},
         AssignUgv(m, exclude, pickup),
         failed_agents'[m] = exclude,
         inspect_task_id'[m] = inspect_task_id[m],
         uav_agent_id'[m] = uav_agent_id[m],
         dispatched[m] + 1 <= 2 * Attempts(m)'
  PROVE  MissionInv(m)'
<1>0. pickup \in Optional(Task)
  BY DEF TypeOK, Optional
<1>1. Extends(stage', stage) /\ dispatched[m] \in Nat
  BY <1>0, AssignUgvEffect DEF IInv, TypeOK
<1>2. CASE /\ phase'[m] = "UGV_ASSIGNED"
           /\ pickup_task_id'[m] \in DOMAIN stage'
           /\ pickup_task_id'[m].mission = m
           /\ pickup_task_id'[m].type = "PICKUP_AND_DELIVER"
           /\ pickup_task_id'[m].agent = ugv_agent_id'[m]
           /\ ugv_agent_id'[m] \notin exclude
           /\ dispatched'[m] = dispatched[m] + 1
  <2>1. pickup_task_id'[m] # None
    BY <1>2, ConstantsAssumption DEF TypeOK
  <2>2. Recorded(m)'
    BY <1>1, <1>2 DEF IInv, MissionInv, Recorded, Extends
  <2>3. PhaseSound(m)'
    BY <1>2, <2>1 DEF PhaseSound, UavPhases, UgvPhases
  <2>4. Budget(m)'
    <3>1. phase'[m] # None /\ Owed(m)' = 0
      BY <1>2, ConstantsAssumption DEF Owed, UavPhases, Phases
    <3> QED BY <1>1, <1>2, <3>1 DEF Budget
  <2> QED BY <2>2, <2>3, <2>4 DEF MissionInv
<1>3. CASE /\ phase'[m] = "FAILED"
           /\ pickup_task_id'[m] = pickup
           /\ ugv_agent_id'[m] = ugv_agent_id[m]
           /\ dispatched'[m] = dispatched[m]
           /\ stage' = stage
  <2>1. Recorded(m)'
    BY <1>1, <1>3 DEF IInv, MissionInv, Recorded, Extends
  <2>2. PhaseSound(m)'
    BY <1>3 DEF PhaseSound, UavPhases, UgvPhases
  <2>3. Budget(m)'
    <3>1. phase'[m] # None /\ Owed(m)' = 0
      BY <1>3, ConstantsAssumption DEF Owed, UavPhases, Phases
    <3>2. Attempts(m)' \in Nat
      BY ConstantsAssumption DEF Attempts, TypeOK
    <3>3. dispatched'[m] + Owed(m)' <= 2 * Attempts(m)'
      BY <1>1, <1>3, <3>1, <3>2
    <3> QED BY <3>1, <3>3 DEF Budget
  <2> QED BY <2>1, <2>2, <2>3 DEF MissionInv
<1> QED BY <1>0, <1>2, <1>3, AssignUgvEffect DEF IInv

\* Steps that end the mission or move it on without an assignment.
LEMMA MovedSound ==
  ASSUME TypeOK, TypeOK', IInv, NEW m \in Missions, phase[m] # None,
         stage' = stage,
         inspect_task_id'[m] = inspect_task_id[m],
         pickup_task_id'[m] = pickup_task_id[m],
         uav_agent_id'[m] = uav_agent_id[m],
         ugv_agent_id'[m] = ugv_agent_id[m],
         dispatched'[m] = dispatched[m],
         phase'[m] # None,
         Owed(m)' <= Owed(m),
         Attempts(m) <= Attempts(m)',
         PhaseSound(m)'
  PROVE  MissionInv(m)'
<1>1. Recorded(m)'
  BY DEF IInv, MissionInv, Recorded
<1>2. /\ Attempts(m) \in Nat /\ Attempts(m)' \in Nat /\ dispatched[m] \in Nat
      /\ Owed(m) \in Nat /\ Owed(m)' \in Nat
  BY ConstantsAssumption DEF Attempts, Owed, TypeOK
<1>3. dispatched[m] + Owed(m) <= 2 * Attempts(m)
  BY DEF IInv, MissionInv, Budget
<1>4. dispatched'[m] + Owed(m)' <= 2 * Attempts(m)'
  BY <1>2, <1>3
<1> QED BY <1>1, <1>4 DEF MissionInv, Budget

\* The missions a handler does not work on, and the messages.
LEMMA RestKept ==
  ASSUME TypeOK, TypeOK', IInv, [Next]_vars, NEW m \in Missions,
         MissionInv(m)',
         \A o \in Missions \ {m} : Same(o),
         \A p \in DOMAIN stage' \ DOMAIN stage :
           p.type = "PICKUP_AND_DELIVER" => Seen(p.mission)
  PROVE  IInv'
<1>1. Keeps(stage', stage) /\ Numbered' /\ WireSound'
  BY StepKeeps, WireStep DEF IInv
<1>2. ASSUME NEW o \in Missions \ {m} PROVE MissionInv(o)'
  BY <1>1, <1>2, SameKeeps DEF IInv
<1>3. PickupsSeen'
  BY <1>1, PickupsKeep DEF IInv
<1> QED BY <1>1, <1>2, <1>3 DEF IInv

\* create_mission.
LEMMA CreateStep ==
  ASSUME TypeOK, TypeOK', IInv, NEW m \in Missions, CreateMission(m)
  PROVE  IInv'
<1>1. /\ AssignUav(m, failed_agents[m]) /\ dispatched[m] = 0 /\ Numbered
      /\ [Next]_vars
  BY DEF CreateMission, IInv, MissionInv, Budget, Next
<1>2. /\ failed_agents' = failed_agents /\ pickup_task_id' = pickup_task_id
      /\ ugv_agent_id' = ugv_agent_id /\ reassign_count' = reassign_count
      /\ garbage_detected' = garbage_detected
  BY DEF CreateMission
<1>3. MissionInv(m)'
  <2>1. Attempts(m)' \in Nat /\ 1 <= Attempts(m)'
    BY <1>2, ConstantsAssumption DEF Attempts, TypeOK
  <2>2. dispatched[m] + 2 <= 2 * Attempts(m)'
    BY <1>1, <2>1
  <2> QED BY <1>1, <1>2, <2>2, AssignedUavSound
<1>4. \A o \in Missions \ {m} : Same(o)
  BY <1>1, <1>2, AssignUavFrame DEF Same
<1>5. \A p \in DOMAIN stage' \ DOMAIN stage : p.type = "INSPECT_TARGET"
  BY <1>1, AssignUavFrame
<1> QED BY <1>1, <1>3, <1>4, <1>5, RestKept

\* on_inspection_result.
LEMMA ConfirmStep ==
  ASSUME TypeOK, TypeOK', IInv, NEW m \in Missions, NEW garbage \in BOOLEAN,
         OnInspectionResult(m, garbage)
  PROVE  IInv'
<1>1. /\ [Next]_vars /\ Numbered
      /\ phase[m] = "AWAITING_CONFIRM" /\ phase[m] # None
      /\ MissionInv(m)
  BY ConstantsAssumption DEF OnInspectionResult, Next, IInv, Phases
<1>2. /\ failed_agents' = failed_agents /\ inspect_task_id' = inspect_task_id
      /\ uav_agent_id' = uav_agent_id /\ reassign_count' = reassign_count
      /\ garbage_detected' = [garbage_detected EXCEPT ![m] = garbage]
  BY DEF OnInspectionResult
<1>3. Seen(m)
  BY <1>1 DEF MissionInv, PhaseSound, Recorded, Seen
<1>4. Attempts(m)' = Attempts(m) /\ Owed(m) = 1
  BY <1>1, <1>2 DEF Attempts, Owed
<1>5. CASE garbage /\ AssignUgv(m, failed_agents[m], pickup_task_id[m])
  <2>1. pickup_task_id[m] \in Optional(Task)
    BY DEF TypeOK
  <2>2. dispatched[m] + 1 <= 2 * Attempts(m)'
    BY <1>1, <1>4 DEF MissionInv, Budget
  <2>3. MissionInv(m)'
    BY <1>2, <1>5, <2>2, AssignedUgvSound
  <2>4. \A o \in Missions \ {m} : Same(o)
    BY <1>1, <1>2, <1>5, <2>1, AssignUgvFrame DEF Same, TypeOK
  <2>5. \A p \in DOMAIN stage' \ DOMAIN stage : p.mission = m
    BY <1>1, <1>5, <2>1, AssignUgvFrame
  <2> QED BY <1>1, <1>3, <2>3, <2>4, <2>5, RestKept
<1>6. CASE /\ ~garbage
           /\ Conclude(m, "COMPLETED", "COMPLETED")
           /\ UNCHANGED <<pickup_task_id, ugv_agent_id, stage, dispatched>>
  <2>1. /\ phase'[m] = "COMPLETED" /\ mission_result'[m] = "COMPLETED"
        /\ garbage_detected'[m] = FALSE
    BY <1>2, <1>6 DEF Conclude, TypeOK
  <2>2. PhaseSound(m)'
    BY <2>1 DEF PhaseSound, UavPhases, UgvPhases
  <2>3. phase'[m] # None /\ Owed(m)' = 0
    BY <2>1, ConstantsAssumption DEF Owed, UavPhases, Phases
  <2>4. Owed(m)' <= Owed(m) /\ Attempts(m) <= Attempts(m)'
    BY <1>4, <2>3, ConstantsAssumption DEF Attempts, TypeOK
  <2>5. MissionInv(m)'
    BY <1>1, <1>2, <1>6, <2>2, <2>3, <2>4, MovedSound
  <2>6. \A o \in Missions \ {m} : Same(o)
    BY <1>2, <1>6 DEF Same, Conclude, TypeOK
  <2> QED BY <1>1, <1>6, <2>5, <2>6, RestKept
<1> QED BY <1>5, <1>6 DEF OnInspectionResult

\* What the handler of feedback can rely on.
LEMMA FeedbackFacts ==
  ASSUME TypeOK, IInv, NEW fb \in wire
  PROVE  /\ fb.task.mission \in Missions
         /\ fb.task \in DOMAIN stage /\ fb.task # None
         /\ Truthful(fb, stage)
         /\ phase[fb.task.mission] # None
<1>1. fb.task \in Task /\ fb.task.mission \in Missions
  BY WireIsFeedback
<1>3. fb.task \in DOMAIN stage /\ Truthful(fb, stage)
  BY DEF IInv, WireSound
<1>4. 1 <= dispatched[fb.task.mission]
  BY <1>1, <1>3 DEF IInv, Numbered, TypeOK, Task
<1>5. phase[fb.task.mission] # None
  BY <1>1, <1>4 DEF IInv, MissionInv, Budget
<1> QED BY <1>1, <1>3, <1>5, ConstantsAssumption

\* _on_failure.
LEMMA FailureStep ==
  ASSUME TypeOK, TypeOK', IInv, NEW fb \in wire, OnFeedback(fb),
         NEW m, m = fb.task.mission,
         NEW exclude, exclude = failed_agents[m] \cup {fb.task.agent},
         OnFailure(fb)
  PROVE  IInv'
<1>1. /\ [Next]_vars /\ Numbered /\ MissionInv(m)
      /\ m \in Missions /\ phase[m] # None /\ fb.task # None
  BY FeedbackFacts DEF Next, IInv
<1>2. /\ failed_agents' = [failed_agents EXCEPT ![m] = exclude]
      /\ reassign_count' = [reassign_count EXCEPT ![m] = @ + 1]
      /\ garbage_detected' = garbage_detected
  BY DEF OnFailure
<1>3. /\ failed_agents'[m] = exclude
      /\ reassign_count'[m] = reassign_count[m] + 1
      /\ reassign_count[m] \in Nat /\ dispatched[m] \in Nat
  BY <1>1, <1>2 DEF TypeOK
<1>4. /\ Attempts(m) \in Nat /\ Attempts(m)' \in Nat
      /\ Attempts(m) <= Attempts(m)' /\ Owed(m) \in {0, 1}
  BY <1>3, ConstantsAssumption DEF Attempts, Owed
<1>9. \A o \in Missions \ {m} :
        /\ failed_agents'[o] = failed_agents[o]
        /\ reassign_count'[o] = reassign_count[o]
        /\ garbage_detected'[o] = garbage_detected[o]
  BY <1>2 DEF TypeOK
<1>5. ASSUME reassign_count[m] + 1 <= MaxReassign
      PROVE  dispatched[m] + 2 <= 2 * Attempts(m)'
  <2>1. Attempts(m)' = Attempts(m) + 1
    BY <1>3, <1>5, ConstantsAssumption DEF Attempts
  <2>2. dispatched[m] + Owed(m) <= 2 * Attempts(m)
    BY <1>1 DEF MissionInv, Budget
  <2> QED BY <1>3, <1>4, <2>1, <2>2
<1>6. CASE /\ reassign_count[m] + 1 <= MaxReassign
           /\ AssignUav(m, exclude)
           /\ UNCHANGED <<pickup_task_id, ugv_agent_id>>
  <2>1. MissionInv(m)'
    BY <1>1, <1>3, <1>5, <1>6, AssignedUavSound
  <2>0. m \in Missions /\ Numbered /\ AssignUav(m, exclude)
    BY <1>1, <1>6
  <2>2. \A o \in Missions \ {m} : Same(o)
    BY <1>6, <1>9, <2>0, AssignUavFrame DEF Same
  <2>3. \A p \in DOMAIN stage' \ DOMAIN stage : p.type = "INSPECT_TARGET"
    BY <2>0, AssignUavFrame
  <2> QED BY <1>1, <2>1, <2>2, <2>3, RestKept
<1>7. CASE /\ reassign_count[m] + 1 <= MaxReassign
           /\ fb.task = pickup_task_id[m]
           /\ AssignUgv(m, exclude, None)
           /\ UNCHANGED <<inspect_task_id, uav_agent_id>>
  <2>1. None \in Optional(Task)
    BY DEF Optional
  <2>2. dispatched[m] + 1 <= 2 * Attempts(m)'
    BY <1>3, <1>4, <1>5, <1>7
  <2>3. MissionInv(m)'
    BY <1>1, <1>3, <1>7, <2>2, AssignedUgvSound
  <2>0. m \in Missions /\ Numbered /\ AssignUgv(m, exclude, None)
    BY <1>1, <1>7
  <2>4. \A o \in Missions \ {m} : Same(o)
    BY <1>7, <1>9, <2>0, <2>1, AssignUgvFrame DEF Same
  <2>5. Seen(m)
    BY <1>1, <1>7 DEF MissionInv, Recorded, IInv, PickupsSeen
  <2>6. \A p \in DOMAIN stage' \ DOMAIN stage : p.mission = m
    BY <2>0, <2>1, AssignUgvFrame
  <2> QED BY <1>1, <2>3, <2>4, <2>5, <2>6, RestKept
<1>8. CASE /\ \E why \in FailureReasons : Conclude(m, "FAILED", why)
           /\ UNCHANGED <<inspect_task_id, pickup_task_id, uav_agent_id,
                          ugv_agent_id, stage, dispatched>>
  <2>1. phase'[m] = "FAILED" /\ phase'[m] # None
    BY <1>1, <1>8, ConstantsAssumption DEF Conclude, TypeOK, Phases
  <2>2. PhaseSound(m)' /\ Owed(m)' = 0
    BY <2>1 DEF PhaseSound, Owed, UavPhases, UgvPhases
  <2>3. MissionInv(m)'
    BY <1>1, <1>4, <1>8, <2>1, <2>2, MovedSound
  <2>4. \A o \in Missions \ {m} : Same(o)
    BY <1>1, <1>2, <1>8 DEF Same, Conclude, TypeOK
  <2> QED BY <1>1, <1>8, <2>3, <2>4, RestKept
<1> QED BY <1>6, <1>7, <1>8 DEF OnFailure, RetriesLeft, FailureReasons

\* The branches of on_feedback that advance a mission.
LEMMA AdvanceStep ==
  ASSUME TypeOK, TypeOK', IInv, NEW fb \in wire, OnFeedback(fb),
         NEW m, m = fb.task.mission,
         Advance(fb)
  PROVE  IInv'
<1>1. /\ [Next]_vars /\ MissionInv(m)
      /\ m \in Missions /\ phase[m] # None /\ fb.task # None
      /\ Truthful(fb, stage)
  BY FeedbackFacts DEF Next, IInv
<1>2. /\ UNCHANGED <<inspect_task_id, pickup_task_id, uav_agent_id,
                     ugv_agent_id, garbage_detected, failed_agents,
                     reassign_count, dispatched, stage>>
      /\ Attempts(m)' = Attempts(m)
  BY DEF Advance, Attempts
<1>3. ASSUME phase'[m] # None, PhaseSound(m)', Owed(m)' <= Owed(m),
             \A o \in Missions \ {m} : phase'[o] = phase[o] /\ mission_result'[o] = mission_result[o]
      PROVE  IInv'
  <2>1. Attempts(m) <= Attempts(m)'
    BY <1>1, <1>2, ConstantsAssumption DEF Attempts, TypeOK
  <2>2. MissionInv(m)'
    BY <1>1, <1>2, <1>3, <2>1, MovedSound
  <2>3. \A o \in Missions \ {m} : Same(o)
    BY <1>2, <1>3 DEF Same
  <2> QED BY <1>1, <1>2, <2>2, <2>3, RestKept
<1>4. ASSUME NEW p \in Phases,
             phase' = [phase EXCEPT ![m] = p], UNCHANGED mission_result
      PROVE  /\ phase'[m] = p /\ phase'[m] # None
             /\ \A o \in Missions \ {m} :
                  phase'[o] = phase[o] /\ mission_result'[o] = mission_result[o]
  BY <1>1, <1>4, ConstantsAssumption DEF TypeOK
<1>5. CASE UavAccepts(fb) /\ MoveTo(m, "UAV_INSPECTING")
  <2>1. phase[m] = "UAV_ASSIGNED" /\ "UAV_INSPECTING" \in Phases
    BY <1>5 DEF UavAccepts, Phases
  <2>2. PhaseSound(m)' /\ Owed(m)' = 1 /\ Owed(m) = 1
    BY <1>1, <1>2, <1>4, <1>5, <2>1
       DEF MoveTo, MissionInv, PhaseSound, Owed, UavPhases, UgvPhases
  <2>3. /\ phase'[m] # None
        /\ \A o \in Missions \ {m} :
             phase'[o] = phase[o] /\ mission_result'[o] = mission_result[o]
    BY <1>4, <1>5, <2>1 DEF MoveTo
  <2>4. Owed(m)' <= Owed(m)
    BY <2>2
  <2> QED BY <1>3, <2>2, <2>3, <2>4
<1>6. CASE UavDone(fb) /\ Photographed(fb)
  <2>1. /\ phase[m] \in UavPhases /\ "AWAITING_CONFIRM" \in Phases
        /\ inspect_task_id[m] = fb.task /\ HasImage(fb.task)
    BY <1>1, <1>6 DEF UavDone, Phases, Truthful, HasImage, ImageStages
  <2>2. PhaseSound(m)' /\ Owed(m)' = 1 /\ Owed(m) = 1
    BY <1>1, <1>2, <1>4, <1>6, <2>1
       DEF Photographed, PhaseSound, HasImage, Owed, UavPhases, UgvPhases
  <2>3. /\ phase'[m] # None
        /\ \A o \in Missions \ {m} :
             phase'[o] = phase[o] /\ mission_result'[o] = mission_result[o]
    BY <1>4, <1>6, <2>1 DEF Photographed
  <2>4. Owed(m)' <= Owed(m)
    BY <2>2
  <2> QED BY <1>3, <2>2, <2>3, <2>4
<1>7. CASE UgvAccepts(fb) /\ MoveTo(m, "UGV_EXECUTING")
  <2>1. phase[m] = "UGV_ASSIGNED" /\ "UGV_EXECUTING" \in Phases
    BY <1>7 DEF UgvAccepts, Phases
  <2>2. PhaseSound(m)' /\ Owed(m)' = 0 /\ Owed(m) = 0
    BY <1>1, <1>2, <1>4, <1>7, <2>1
       DEF MoveTo, MissionInv, PhaseSound, Owed, UavPhases, UgvPhases
  <2>3. /\ phase'[m] # None
        /\ \A o \in Missions \ {m} :
             phase'[o] = phase[o] /\ mission_result'[o] = mission_result[o]
    BY <1>4, <1>7, <2>1 DEF MoveTo
  <2>4. Owed(m)' <= Owed(m)
    BY <2>2
  <2> QED BY <1>3, <2>2, <2>3, <2>4
<1>8. CASE UgvDone(fb) /\ Conclude(m, "COMPLETED", "COMPLETED")
  <2>1. /\ phase[m] \in UgvPhases
        /\ pickup_task_id[m] = fb.task /\ stage[fb.task] = "COMPLETED"
    BY <1>1, <1>8 DEF UgvDone, Truthful
  <2>2. /\ phase'[m] = "COMPLETED" /\ mission_result'[m] = "COMPLETED"
        /\ phase'[m] # None
        /\ \A o \in Missions \ {m} :
             phase'[o] = phase[o] /\ mission_result'[o] = mission_result[o]
    BY <1>1, <1>8, ConstantsAssumption DEF Conclude, TypeOK, Phases
  <2>3. PhaseSound(m)' /\ Owed(m)' = 0 /\ Owed(m) = 0
    BY <1>1, <1>2, <2>1, <2>2 DEF PhaseSound, Owed, UavPhases, UgvPhases
  <2> QED BY <1>3, <2>2, <2>3
<1> QED BY <1>5, <1>6, <1>7, <1>8 DEF Advance

\* Everything else leaves the missions alone.
LEMMA OtherStep ==
  ASSUME TypeOK, TypeOK', IInv, [Next]_vars, UNCHANGED fsmVars,
         DOMAIN stage' = DOMAIN stage
  PROVE  IInv'
<1>1. Keeps(stage', stage) /\ Numbered' /\ WireSound'
  BY StepKeeps, WireStep DEF IInv
<1>2. ASSUME NEW m \in Missions PROVE MissionInv(m)'
  <2>1. Same(m)
    BY DEF Same, fsmVars
  <2> QED BY <1>1, <2>1, SameKeeps DEF IInv
<1>3. PickupsSeen'
  BY <1>1, PickupsKeep DEF IInv
<1> QED BY <1>1, <1>2, <1>3 DEF IInv

-----------------------------------------------------------------------------
(* The theorems                                                            *)

\* THEOREM: the inductive invariant holds in every reachable state.
THEOREM Invariance == Spec => []IInv
<1>1. Init => IInv
  BY ConstantsAssumption
     DEF Init, IInv, Numbered, WireSound, PickupsSeen, MissionInv, Recorded,
         PhaseSound, Budget, UavPhases, UgvPhases, Phases
<1>2. TypeOK /\ TypeOK' /\ IInv /\ [Next]_vars => IInv'
  <2> SUFFICES ASSUME TypeOK, TypeOK', IInv, [Next]_vars PROVE IInv'
    OBVIOUS
  <2>1. ASSUME NEW m \in Missions, CreateMission(m) PROVE IInv'
    BY <2>1, CreateStep
  <2>2. ASSUME NEW m \in Missions, NEW garbage \in BOOLEAN,
               OnInspectionResult(m, garbage)
        PROVE  IInv'
    BY <2>2, ConfirmStep
  <2>3. ASSUME NEW fb \in wire, OnFeedback(fb) PROVE IInv'
    <3>1. CASE OnFailure(fb)
      BY <2>3, <3>1, FailureStep
    <3>2. CASE Advance(fb)
      BY <2>3, <3>2, AdvanceStep
    <3>3. CASE Ignore(fb)
      BY <3>3, OtherStep DEF Ignore
    <3> QED BY <2>3, <3>1, <3>2, <3>3 DEF OnFeedback
  <2>5. ASSUME NEW t \in DOMAIN stage, AssignmentLost(t) \/ DeviceStep(t)
        PROVE  IInv'
    BY <2>5, EnvironmentStep, EnvironmentKeeps, OtherStep
  <2>6. CASE UNCHANGED vars
    BY <2>6, OtherStep DEF vars, deviceVars
  <2> QED BY <2>1, <2>2, <2>3, <2>5, <2>6 DEF Next
<1> QED BY <1>1, <1>2, TypeCorrect, PTL DEF Spec

\* THEOREM: the device a mission waits for is the recorded one and has not
\* failed the mission before.
THEOREM AssigneeCorrect == Spec => []AssigneeSound
<1>1. IInv => AssigneeSound
  BY DEF IInv, MissionInv, Recorded, PhaseSound, AssigneeSound
<1> QED BY <1>1, Invariance, PTL

\* THEOREM: a mission sends out at most two assignments per attempt.
THEOREM DispatchBounded == Spec => []DispatchBound
<1>1. TypeOK /\ IInv => DispatchBound
  <2> SUFFICES ASSUME TypeOK, IInv, NEW m \in Missions
               PROVE  dispatched[m] <= 2 + 2 * MaxReassign
    BY DEF DispatchBound
  <2>1. /\ Attempts(m) \in Nat /\ Attempts(m) <= 1 + MaxReassign
        /\ Owed(m) \in Nat /\ dispatched[m] \in Nat /\ MaxReassign \in Nat
    BY ConstantsAssumption DEF Attempts, Owed, TypeOK
  <2>2. dispatched[m] = 0 \/ dispatched[m] + Owed(m) <= 2 * Attempts(m)
    BY DEF IInv, MissionInv, Budget
  <2> QED BY <2>1, <2>2
<1> QED BY <1>1, TypeCorrect, Invariance, PTL

\* THEOREM: the operator is asked only about a photograph that exists.
THEOREM ConfirmShowsImage == Spec => []ConfirmHasImage
<1>1. IInv => ConfirmHasImage
  BY DEF IInv, MissionInv, Recorded, PhaseSound, ConfirmHasImage
<1> QED BY <1>1, Invariance, PTL

\* THEOREM: no UGV is sent for a mission without a photograph.
THEOREM PickupNeedsImage == Spec => []PickupAfterImage
<1>1. IInv => PickupAfterImage
  BY DEF IInv, PickupsSeen, Seen, PickupAfterImage
<1> QED BY <1>1, Invariance, PTL

\* THEOREM: a COMPLETED mission was judged clean, or its UGV has finished.
THEOREM CompletionCorrect == Spec => []CompletionJustified
<1>1. IInv => CompletionJustified
  BY DEF IInv, MissionInv, Recorded, PhaseSound, CompletionJustified
<1> QED BY <1>1, Invariance, PTL

-----------------------------------------------------------------------------
(* The state machine implements MissionContract                            *)

Photos     == {m \in Missions : SomeTask(m, "INSPECT_TARGET", ImageStages)}
Agreements == {m \in Missions : SomeTask(m, "PICKUP_AND_DELIVER", Stages)}
Deliveries == {m \in Missions : SomeTask(m, "PICKUP_AND_DELIVER", {"COMPLETED"})}

\* A new assignment is no photograph and no delivery, and it is an agreement
\* only if it is for a UGV.
LEMMA SentTask ==
  ASSUME TypeOK, TypeOK', NEW t \in Task, t.mission \in Missions,
         DOMAIN stage' = DOMAIN stage \cup {t}, stage'[t] = "SENT",
         t \notin DOMAIN stage,
         \A u \in DOMAIN stage : stage'[u] = stage[u]
  PROVE  /\ Photos' = Photos /\ Deliveries' = Deliveries
         /\ Agreements' = IF t.type = "PICKUP_AND_DELIVER"
                            THEN Agreements \cup {t.mission} ELSE Agreements
<1>1. Photos' = Photos
  BY DEF Photos, SomeTask, ImageStages
<1>2. Deliveries' = Deliveries
  BY DEF Deliveries, SomeTask
<1>3. /\ \A u \in DOMAIN stage  : stage[u] \in Stages
      /\ \A u \in DOMAIN stage' : stage'[u] \in Stages
  BY DEF TypeOK
<1>4. \A m \in Missions :
        m \in Agreements <=>
          \E u \in DOMAIN stage : u.mission = m /\ u.type = "PICKUP_AND_DELIVER"
  BY <1>3 DEF Agreements, SomeTask
<1>5. \A m \in Missions :
        m \in Agreements' <=>
          \E u \in DOMAIN stage' : u.mission = m /\ u.type = "PICKUP_AND_DELIVER"
  BY <1>3 DEF Agreements, SomeTask
<1>6. Agreements \subseteq Missions /\ Agreements' \subseteq Missions
  BY DEF Agreements
<1>7. CASE t.type = "PICKUP_AND_DELIVER"
  <2>1. \A m \in Missions : m \in Agreements' <=> m \in Agreements \/ m = t.mission
    BY <1>4, <1>5, <1>7
  <2>2. Agreements' = Agreements \cup {t.mission}
    BY <1>6, <2>1
  <2> QED BY <1>1, <1>2, <1>7, <2>2
<1>8. CASE t.type # "PICKUP_AND_DELIVER"
  <2>1. \A m \in Missions : m \in Agreements' <=> m \in Agreements
    BY <1>4, <1>5, <1>8
  <2>2. Agreements' = Agreements
    BY <1>6, <2>1
  <2> QED BY <1>1, <1>2, <1>8, <2>2
<1> QED BY <1>7, <1>8

\* Assignments as MissionContract sees them.
LEMMA AssignUavSeen ==
  ASSUME TypeOK, TypeOK', Numbered, NEW m \in Missions, NEW exclude,
         AssignUav(m, exclude)
  PROVE  /\ phase'[m] \in {"UAV_ASSIGNED", "FAILED"}
         /\ Photos' = Photos /\ Deliveries' = Deliveries
         /\ Agreements' = Agreements
<1>1. CASE stage' = stage
  BY <1>1, AssignUavEffect DEF Photos, Deliveries, Agreements, SomeTask
<1>2. ASSUME NEW a \in Candidates(Uavs, exclude),
             Publish(NewTask(m, "INSPECT_TARGET", a))
      PROVE  /\ Photos' = Photos /\ Deliveries' = Deliveries
             /\ Agreements' = Agreements
  <2>1. a \in Agents /\ "INSPECT_TARGET" \in TaskTypes
    BY DEF Candidates, Agents, TaskTypes
  <2> DEFINE t == NewTask(m, "INSPECT_TARGET", a)
  <2>2. t \in Task /\ t.mission = m /\ t.type = "INSPECT_TARGET"
    BY <1>2, <2>1, PublishType DEF NewTask
  <2>3. /\ DOMAIN stage' = DOMAIN stage \cup {t} /\ stage'[t] = "SENT"
        /\ t \notin DOMAIN stage /\ \A u \in DOMAIN stage : stage'[u] = stage[u]
    BY <1>2, <2>1, PublishFresh
  <2> HIDE DEF t
  <2> QED BY <2>2, <2>3, SentTask
<1> QED BY <1>1, <1>2, AssignUavEffect DEF AssignUav

LEMMA AssignUgvSeen ==
  ASSUME TypeOK, TypeOK', Numbered, NEW m \in Missions, NEW exclude,
         NEW pickup \in Optional(Task), AssignUgv(m, exclude, pickup)
  PROVE  /\ Photos' = Photos /\ Deliveries' = Deliveries
         /\ \/ phase'[m] = "UGV_ASSIGNED" /\ Agreements' = Agreements \cup {m}
            \/ phase'[m] = "FAILED" /\ Agreements' = Agreements
<1>1. CASE phase'[m] = "FAILED" /\ stage' = stage
  BY <1>1 DEF Photos, Deliveries, Agreements, SomeTask
<1>2. ASSUME NEW a \in Candidates(Ugvs, exclude),
             Publish(NewTask(m, "PICKUP_AND_DELIVER", a)),
             phase' = [phase EXCEPT ![m] = "UGV_ASSIGNED"]
      PROVE  /\ Photos' = Photos /\ Deliveries' = Deliveries
             /\ phase'[m] = "UGV_ASSIGNED" /\ Agreements' = Agreements \cup {m}
  <2>1. a \in Agents /\ "PICKUP_AND_DELIVER" \in TaskTypes
    BY DEF Candidates, Agents, TaskTypes
  <2> DEFINE t == NewTask(m, "PICKUP_AND_DELIVER", a)
  <2>2. t \in Task /\ t.mission = m /\ t.type = "PICKUP_AND_DELIVER"
    BY <1>2, <2>1, PublishType DEF NewTask
  <2>3. /\ DOMAIN stage' = DOMAIN stage \cup {t} /\ stage'[t] = "SENT"
        /\ t \notin DOMAIN stage /\ \A u \in DOMAIN stage : stage'[u] = stage[u]
    BY <1>2, <2>1, PublishFresh
  <2>4. phase'[m] = "UGV_ASSIGNED"
    BY <1>2 DEF TypeOK
  <2> HIDE DEF t
  <2> QED BY <2>2, <2>3, <2>4, SentTask
<1>3. CASE Conclude(m, "FAILED", "NO_DEVICE") /\ UNCHANGED <<ugv_agent_id, stage, dispatched>>
  BY <1>1, <1>3 DEF Conclude, TypeOK
<1> QED BY <1>2, <1>3 DEF AssignUgv

\* Only the phase of the mission in hand changes its standing.
LEMMA StandingStep ==
  ASSUME TypeOK, TypeOK', NEW m \in Missions, NEW s, Standing(m)' = s,
         \A o \in Missions \ {m} : phase'[o] = phase[o]
  PROVE  Contract!Stand(m, s)
<1>1. \A o \in Missions \ {m} : Standing(o)' = Standing(o)
  BY DEF Standing
<1> QED BY <1>1 DEF Contract!Stand

\* Phases and standings correspond.
LEMMA Standings ==
  ASSUME NEW m \in Missions
  PROVE  /\ phase[m] = None => Standing(m) = "none"
         /\ phase[m] \in UavPhases => Standing(m) = "inspecting"
         /\ phase[m] \in UgvPhases => Standing(m) = "clearing"
         /\ phase[m] = "AWAITING_CONFIRM" => Standing(m) = "asking"
         /\ phase[m] = "COMPLETED" => Standing(m) = "completed"
         /\ phase[m] = "FAILED" => Standing(m) = "failed"
         /\ TypeOK /\ phase[m] # None => Standing(m) # "none"
  BY ConstantsAssumption
     DEF Standing, UavPhases, UgvPhases, TypeOK, Optional, Phases

LEMMA StandingsNext ==
  ASSUME NEW m \in Missions
  PROVE  /\ phase'[m] \in UavPhases => Standing(m)' = "inspecting"
         /\ phase'[m] \in UgvPhases => Standing(m)' = "clearing"
         /\ phase'[m] = "AWAITING_CONFIRM" => Standing(m)' = "asking"
         /\ phase'[m] = "COMPLETED" => Standing(m)' = "completed"
         /\ phase'[m] = "FAILED" => Standing(m)' = "failed"
  BY ConstantsAssumption DEF Standing, UavPhases, UgvPhases, Phases

\* What a device does is a photograph, a delivery or nothing to the contract.
LEMMA DeviceContract ==
  ASSUME TypeOK, TypeOK', IInv, NEW t \in DOMAIN stage,
         AssignmentLost(t) \/ DeviceStep(t)
  PROVE  [Contract!Next]_Contract!contractVars
<1> DEFINE m == t.mission
<1>1. PICK s \in Stages :
        /\ stage' = [stage EXCEPT ![t] = s]
        /\ HasImage(t) => s \in ImageStages
        /\ stage[t] # "COMPLETED"
  BY EnvironmentStep
<1>2. UNCHANGED fsmVars
  BY EnvironmentStep
<1>3. /\ m \in Missions /\ t.type \in TaskTypes
      /\ phase[m] # None /\ stage[t] \in Stages
  <2>1. t \in Task
    BY DEF TypeOK
  <2>2. m \in Missions /\ t.type \in TaskTypes
    BY <2>1 DEF Task
  <2>3. 1 <= t.n /\ t.n <= dispatched[m] /\ t.n \in Nat /\ dispatched[m] \in Nat
    BY <2>1, <2>2 DEF IInv, Numbered, TypeOK, Task
  <2>4. dispatched[m] # 0
    BY <2>3
  <2> QED BY <2>2, <2>4 DEF IInv, MissionInv, Budget, TypeOK
<1>4. /\ DOMAIN stage' = DOMAIN stage /\ stage'[t] = s
      /\ \A u \in DOMAIN stage \ {t} : stage'[u] = stage[u]
  BY <1>1 DEF TypeOK
<1>5. /\ [o \in Missions |-> Standing(o)]' = [o \in Missions |-> Standing(o)]
      /\ reassign_count' = reassign_count
  BY <1>2 DEF fsmVars, Standing
<1>6. Agreements' = Agreements
  BY <1>4, <1>3, <1>1 DEF Agreements, SomeTask
<1>7. Photos' = IF t.type = "INSPECT_TARGET" /\ s \in ImageStages
                  THEN Photos \cup {m} ELSE Photos
  BY <1>4, <1>3, <1>1 DEF Photos, SomeTask, HasImage
<1>8. Deliveries' = IF t.type = "PICKUP_AND_DELIVER" /\ s = "COMPLETED"
                      THEN Deliveries \cup {m} ELSE Deliveries
  BY <1>4, <1>3, <1>1 DEF Deliveries, SomeTask
<1>9. t.type # "PICKUP_AND_DELIVER" \/ t.type # "INSPECT_TARGET"
  OBVIOUS
<1>10. CASE t.type = "INSPECT_TARGET" /\ s \in ImageStages
  <2>1. Standing(m) # "none"
    BY <1>3, Standings
  <2>2. Contract!Photograph(m)
    BY <1>3, <1>5, <1>6, <1>7, <1>8, <1>10, <2>1
       DEF Contract!Photograph, Photos, Agreements, Deliveries
  <2> QED BY <1>3, <2>2 DEF Contract!Next
<1>11. CASE t.type = "PICKUP_AND_DELIVER" /\ s = "COMPLETED"
  <2>1. m \in Agreements
    BY <1>3, <1>11 DEF Agreements, SomeTask
  <2>2. Contract!Deliver(m)
    BY <1>5, <1>6, <1>7, <1>8, <1>11, <2>1
       DEF Contract!Deliver, Photos, Agreements, Deliveries
  <2> QED BY <1>3, <2>2 DEF Contract!Next
<1>12. CASE Photos' = Photos /\ Deliveries' = Deliveries
  BY <1>5, <1>6, <1>12 DEF Contract!contractVars, Photos, Agreements, Deliveries
<1> QED BY <1>7, <1>8, <1>10, <1>11, <1>12

\* _on_failure is a failure of the contract.
LEMMA FailureContract ==
  ASSUME TypeOK, TypeOK', IInv, NEW fb \in wire, OnFeedback(fb), OnFailure(fb)
  PROVE  Contract!Next
<1> DEFINE m == fb.task.mission
           exclude == failed_agents[m] \cup {fb.task.agent}
<1>1. /\ m \in Missions /\ phase[m] # None /\ fb.task \in DOMAIN stage
      /\ fb.task # None /\ MissionInv(m) /\ Numbered
  BY FeedbackFacts DEF IInv
<1>2. /\ reassign_count' = [reassign_count EXCEPT ![m] = @ + 1]
      /\ reassign_count[m] \in Nat /\ Standing(m) # "none"
      /\ None \in Optional(Task)
  BY <1>1, Standings DEF OnFailure, TypeOK, Optional
<1>3. CASE RetriesLeft(m) /\ AssignUav(m, exclude)
  <2>1. /\ phase'[m] \in {"UAV_ASSIGNED", "FAILED"}
        /\ Photos' = Photos /\ Deliveries' = Deliveries /\ Agreements' = Agreements
    BY <1>1, <1>3, AssignUavSeen
  <2>2. \A o \in Missions \ {m} : phase'[o] = phase[o]
    BY <1>1, <1>3, AssignUavFrame
  <2>3. Contract!Stand(m, "inspecting") \/ Contract!Stand(m, "failed")
    BY <1>1, <2>1, <2>2, StandingsNext, StandingStep DEF UavPhases
  <2>4. reassign_count[m] < MaxReassign
    BY <1>2, <1>3, ConstantsAssumption DEF RetriesLeft
  <2>5. Contract!Failure(m)
    BY <1>1, <1>2, <2>1, <2>3, <2>4
       DEF Contract!Failure, Photos, Agreements, Deliveries
  <2> QED BY <1>1, <2>5 DEF Contract!Next
<1>4. CASE /\ RetriesLeft(m) /\ fb.task = pickup_task_id[m]
           /\ AssignUgv(m, exclude, None)
  <2>1. m \in Agreements
    BY <1>1, <1>4 DEF MissionInv, Recorded, Agreements, SomeTask, TypeOK
  <2>2. /\ phase'[m] \in {"UGV_ASSIGNED", "FAILED"}
        /\ Photos' = Photos /\ Deliveries' = Deliveries /\ Agreements' = Agreements
    BY <1>1, <1>2, <1>4, <2>1, AssignUgvSeen
  <2>3. \A o \in Missions \ {m} : phase'[o] = phase[o]
    BY <1>1, <1>2, <1>4, AssignUgvFrame
  <2>4. Contract!Stand(m, "clearing") \/ Contract!Stand(m, "failed")
    BY <1>1, <2>2, <2>3, StandingsNext, StandingStep DEF UgvPhases
  <2>5. reassign_count[m] < MaxReassign
    BY <1>2, <1>4, ConstantsAssumption DEF RetriesLeft
  <2>6. Contract!Failure(m)
    BY <1>1, <1>2, <2>1, <2>2, <2>4, <2>5
       DEF Contract!Failure, Photos, Agreements, Deliveries
  <2> QED BY <1>1, <2>6 DEF Contract!Next
<1>5. CASE /\ \E why \in FailureReasons : Conclude(m, "FAILED", why)
           /\ UNCHANGED stage
  <2>1. phase'[m] = "FAILED" /\ \A o \in Missions \ {m} : phase'[o] = phase[o]
    BY <1>1, <1>5 DEF Conclude, TypeOK
  <2>2. Contract!Stand(m, "failed")
    BY <1>1, <2>1, StandingsNext, StandingStep
  <2>3. Photos' = Photos /\ Deliveries' = Deliveries /\ Agreements' = Agreements
    BY <1>5 DEF Photos, Deliveries, Agreements, SomeTask
  <2>4. Contract!Failure(m)
    BY <1>1, <1>2, <2>2, <2>3
       DEF Contract!Failure, Photos, Agreements, Deliveries
  <2> QED BY <1>1, <2>4 DEF Contract!Next
<1> QED BY <1>3, <1>4, <1>5 DEF OnFailure, FailureReasons

\* The branches that advance a mission ask, finish or change nothing.
LEMMA AdvanceContract ==
  ASSUME TypeOK, TypeOK', IInv, NEW fb \in wire, OnFeedback(fb), Advance(fb)
  PROVE  [Contract!Next]_Contract!contractVars
<1> DEFINE m == fb.task.mission
<1>1. /\ m \in Missions /\ phase[m] # None /\ fb.task \in DOMAIN stage
      /\ fb.task # None /\ MissionInv(m) /\ Truthful(fb, stage)
  BY FeedbackFacts DEF IInv
<1>2. /\ reassign_count' = reassign_count /\ stage' = stage
      /\ Photos' = Photos /\ Deliveries' = Deliveries /\ Agreements' = Agreements
  BY DEF Advance, Photos, Deliveries, Agreements, SomeTask
<1>3. ASSUME Standing(m)' = Standing(m),
             \A o \in Missions \ {m} : phase'[o] = phase[o]
      PROVE  UNCHANGED Contract!contractVars
  <2>1. \A o \in Missions \ {m} : Standing(o)' = Standing(o)
    BY <1>3 DEF Standing
  <2>2. [o \in Missions |-> Standing(o)]' = [o \in Missions |-> Standing(o)]
    BY <1>3, <2>1
  <2> QED BY <1>2, <2>2 DEF Contract!contractVars, Photos, Agreements, Deliveries
<1>4. CASE UavAccepts(fb) /\ MoveTo(m, "UAV_INSPECTING")
  <2>1. /\ phase[m] \in UavPhases /\ phase'[m] \in UavPhases
        /\ \A o \in Missions \ {m} : phase'[o] = phase[o]
    BY <1>1, <1>4 DEF UavAccepts, MoveTo, UavPhases, TypeOK
  <2> QED BY <1>1, <1>3, <2>1, Standings, StandingsNext
<1>5. CASE UgvAccepts(fb) /\ MoveTo(m, "UGV_EXECUTING")
  <2>1. /\ phase[m] \in UgvPhases /\ phase'[m] \in UgvPhases
        /\ \A o \in Missions \ {m} : phase'[o] = phase[o]
    BY <1>1, <1>5 DEF UgvAccepts, MoveTo, UgvPhases, TypeOK
  <2> QED BY <1>1, <1>3, <2>1, Standings, StandingsNext
<1>6. CASE UavDone(fb) /\ Photographed(fb)
  <2>1. /\ phase[m] \in UavPhases /\ phase'[m] = "AWAITING_CONFIRM"
        /\ \A o \in Missions \ {m} : phase'[o] = phase[o]
        /\ inspect_task_id[m] = fb.task /\ stage[fb.task] \in ImageStages
    BY <1>1, <1>6 DEF UavDone, Photographed, Truthful, ImageStages, TypeOK
  <2>2. m \in Photos
    BY <1>1, <2>1 DEF Photos, SomeTask, MissionInv, Recorded
  <2>3. Standing(m) = "inspecting" /\ Contract!Stand(m, "asking")
    BY <1>1, <2>1, Standings, StandingsNext, StandingStep
  <2>4. Contract!Ask(m)
    BY <1>1, <1>2, <2>2, <2>3 DEF Contract!Ask, Photos, Agreements, Deliveries
  <2> QED BY <1>1, <2>4 DEF Contract!Next
<1>7. CASE UgvDone(fb) /\ Conclude(m, "COMPLETED", "COMPLETED")
  <2>1. /\ phase[m] \in UgvPhases /\ phase'[m] = "COMPLETED"
        /\ \A o \in Missions \ {m} : phase'[o] = phase[o]
        /\ pickup_task_id[m] = fb.task /\ stage[fb.task] = "COMPLETED"
    BY <1>1, <1>7 DEF UgvDone, Conclude, Truthful, TypeOK
  <2>2. m \in Deliveries
    BY <1>1, <2>1 DEF Deliveries, SomeTask, MissionInv, Recorded
  <2>3. Standing(m) = "clearing" /\ Contract!Stand(m, "completed")
    BY <1>1, <2>1, Standings, StandingsNext, StandingStep
  <2>4. Contract!Finish(m)
    BY <1>1, <1>2, <2>2, <2>3 DEF Contract!Finish, Photos, Agreements, Deliveries
  <2> QED BY <1>1, <2>4 DEF Contract!Next
<1> QED BY <1>4, <1>5, <1>6, <1>7 DEF Advance

\* create_mission and the operator's verdict.
LEMMA CreateContract ==
  ASSUME TypeOK, TypeOK', IInv, NEW m \in Missions, CreateMission(m)
  PROVE  Contract!Next
<1>1. /\ AssignUav(m, failed_agents[m]) /\ Numbered /\ phase[m] = None
      /\ reassign_count' = reassign_count
  BY DEF CreateMission, IInv
<1>2. /\ phase'[m] \in {"UAV_ASSIGNED", "FAILED"}
      /\ Photos' = Photos /\ Deliveries' = Deliveries /\ Agreements' = Agreements
  BY <1>1, AssignUavSeen
<1>3. \A o \in Missions \ {m} : phase'[o] = phase[o]
  BY <1>1, AssignUavFrame
<1>4. Contract!Stand(m, "inspecting") \/ Contract!Stand(m, "failed")
  BY <1>2, <1>3, StandingsNext, StandingStep DEF UavPhases
<1>5. Standing(m) = "none"
  BY <1>1, Standings
<1>6. Contract!Create(m)
  BY <1>1, <1>2, <1>4, <1>5 DEF Contract!Create, Photos, Agreements, Deliveries
<1> QED BY <1>6 DEF Contract!Next

LEMMA VerdictContract ==
  ASSUME TypeOK, TypeOK', IInv, NEW m \in Missions, NEW garbage \in BOOLEAN,
         OnInspectionResult(m, garbage)
  PROVE  Contract!Next
<1>1. /\ Numbered /\ phase[m] = "AWAITING_CONFIRM"
      /\ reassign_count' = reassign_count /\ pickup_task_id[m] \in Optional(Task)
  BY DEF OnInspectionResult, IInv, TypeOK
<1>2. Standing(m) = "asking"
  BY <1>1, Standings
<1>3. CASE AssignUgv(m, failed_agents[m], pickup_task_id[m])
  <2>1. /\ Photos' = Photos /\ Deliveries' = Deliveries
        /\ \/ phase'[m] = "UGV_ASSIGNED" /\ Agreements' = Agreements \cup {m}
           \/ phase'[m] = "FAILED" /\ Agreements' = Agreements
    BY <1>1, <1>3, AssignUgvSeen
  <2>2. \A o \in Missions \ {m} : phase'[o] = phase[o]
    BY <1>1, <1>3, AssignUgvFrame
  <2>3. \/ Contract!Stand(m, "clearing") /\ Agreements' = Agreements \cup {m}
        \/ Contract!Stand(m, "failed") /\ Agreements' = Agreements
    BY <2>1, <2>2, StandingsNext, StandingStep DEF UgvPhases
  <2>4. Contract!Verdict(m)
    BY <1>1, <1>2, <2>1, <2>3
       DEF Contract!Verdict, Photos, Agreements, Deliveries
  <2> QED BY <2>4 DEF Contract!Next
<1>4. CASE Conclude(m, "COMPLETED", "COMPLETED") /\ UNCHANGED stage
  <2>1. phase'[m] = "COMPLETED" /\ \A o \in Missions \ {m} : phase'[o] = phase[o]
    BY <1>4 DEF Conclude, TypeOK
  <2>2. Contract!Stand(m, "completed")
    BY <2>1, StandingsNext, StandingStep
  <2>3. Photos' = Photos /\ Deliveries' = Deliveries /\ Agreements' = Agreements
    BY <1>4 DEF Photos, Deliveries, Agreements, SomeTask
  <2>4. Contract!Verdict(m)
    BY <1>1, <1>2, <2>2, <2>3
       DEF Contract!Verdict, Photos, Agreements, Deliveries
  <2> QED BY <2>4 DEF Contract!Next
<1> QED BY <1>3, <1>4 DEF OnInspectionResult

\* THEOREM: the state machine implements MissionContract: every handler is one
\* of its steps, and what the devices do is a photograph, a delivery or nothing.
THEOREM Refinement == Spec => KeepsContract
<1>1. Init => Contract!Init
  <2> SUFFICES ASSUME Init PROVE Contract!Init
    OBVIOUS
  <2>1. \A m \in Missions : Standing(m) = "none"
    BY Standings DEF Init
  <2>2. DOMAIN stage = {}
    BY DEF Init
  <2> QED BY <2>1, <2>2 DEF Contract!Init, Init, SomeTask
<1>2. TypeOK /\ TypeOK' /\ IInv /\ [Next]_vars => [Contract!Next]_Contract!contractVars
  <2> SUFFICES ASSUME TypeOK, TypeOK', IInv, [Next]_vars
               PROVE  [Contract!Next]_Contract!contractVars
    OBVIOUS
  <2>1. ASSUME UNCHANGED fsmVars, UNCHANGED stage
        PROVE  UNCHANGED Contract!contractVars
    <3>1. [o \in Missions |-> Standing(o)]' = [o \in Missions |-> Standing(o)]
      BY <2>1 DEF Standing, fsmVars
    <3>2. Photos' = Photos /\ Deliveries' = Deliveries /\ Agreements' = Agreements
      BY <2>1 DEF Photos, Deliveries, Agreements, SomeTask
    <3> QED BY <2>1, <3>1, <3>2
            DEF Contract!contractVars, fsmVars, Photos, Deliveries, Agreements
  <2>2. ASSUME NEW m \in Missions, CreateMission(m) PROVE Contract!Next
    BY <2>2, CreateContract
  <2>3. ASSUME NEW m \in Missions, NEW garbage \in BOOLEAN,
               OnInspectionResult(m, garbage)
        PROVE  Contract!Next
    BY <2>3, VerdictContract
  <2>4. ASSUME NEW fb \in wire, OnFeedback(fb)
        PROVE  [Contract!Next]_Contract!contractVars
    BY <2>1, <2>4, FailureContract, AdvanceContract DEF OnFeedback, Ignore
  <2>5. ASSUME NEW t \in DOMAIN stage, AssignmentLost(t) \/ DeviceStep(t)
        PROVE  [Contract!Next]_Contract!contractVars
    BY <2>5, DeviceContract
  <2>6. CASE UNCHANGED vars
    BY <2>1, <2>6 DEF vars, deviceVars
  <2> QED BY <2>2, <2>3, <2>4, <2>5, <2>6 DEF Next
<1> QED BY <1>1, <1>2, TypeCorrect, Invariance, PTL DEF Spec, KeepsContract, Contract!Spec

=============================================================================
