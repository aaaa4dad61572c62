----------------------------- MODULE DeviceLink -----------------------------
(***************************************************************************)
(* One device process (device_agent.py) and the gateway it connects to     *)
(* (server.py ws_agent, registry.py, bus.py): below the messages that      *)
(* MissionFsm exchanges with a device.                                     *)
(*                                                                         *)
(* The device runs three coroutines per connection, which all end with it, *)
(* so a send may be the last thing a coroutine does; its task outlives the *)
(* connection.  At the gateway every connection has a handler of its own,  *)
(* and the handler of a broken connection still works off what has arrived *)
(* while the device is already connected again.                            *)
(*                                                                         *)
(* What a device has written arrives (the loss of assignments and feedback *)
(* is MissionFsm's).  Positions are left out: the device arrives some time.*)
(***************************************************************************)
EXTENDS Naturals, Sequences

CONSTANTS
  Inspections,   \* tasks of type INSPECT_TARGET
  Pickups,       \* tasks of type PICKUP_AND_DELIVER
  None,          \* Python's None
  ConnectFails,  \* TRUE: websockets.connect may raise
  MaxSessions    \* connections made; the last one does not break

Tasks == Inspections \cup Pickups

Sessions == 1..MaxSessions

ASSUME LinkAssumption ==
  /\ None \notin Tasks
  /\ ConnectFails \in BOOLEAN
  /\ MaxSessions \in Nat \ {0}

VARIABLES
  session,       \* the last connection made, 0 before the first
  connected,     \* its coroutines run
  work_state,    \* of the device
  current_task,  \* of the device
  task_phase,    \* _task_phase: "", "to_target", "working" or "returning"
  sending,       \* the execution loop waits for its send to return
  net,           \* each connection: "unused", "up" or "broken"
  up,            \* messages from the device not yet handled, by connection
  down,          \* assignments not yet received, by connection
  handler,       \* ws_agent of each connection: "none", "accepted", "greeted" or "ended"
  agent_link,    \* agent_links of this device, 0 if there is none
  registry,      \* work state in the registry, "OFFLINE" if it is judged offline
  assigned,      \* tasks published for this device
  reported       \* feedback that reached the bus

device_vars  == <<work_state, current_task, task_phase, sending>>
net_vars     == <<session, connected, net>>
gateway_vars == <<handler, agent_link, registry>>
lvars        == <<device_vars, net_vars, up, down, gateway_vars, assigned, reported>>

TaskPhases == {"", "to_target", "working", "returning"}

WorkStates == {"OFFLINE", "IDLE", "EXECUTING", "RETURNING"}

Statuses == {"ACCEPTED", "REJECTED", "IN_PROGRESS", "IMAGE_CAPTURED", "COMPLETED"}

Hello == [kind |-> "hello"]

AgentState(state) == [kind |-> "agent_state", work_state |-> state]

Feedback(task, status) == [kind |-> "task_feedback", task |-> task, status |-> status]

-----------------------------------------------------------------------------
(* The device: connection                                                  *)

\* The coroutines still run and the connection takes what they send.
Online == connected /\ net[session] = "up"

Send(message) == up' = [up EXCEPT ![session] = Append(@, message)]

\* The device connects again at once; what it was doing goes on.
OpenSession ==
  /\ ~connected /\ session < MaxSessions
  /\ session' = session + 1
  /\ connected' = TRUE
  /\ net' = [net EXCEPT ![session + 1] = "up"]
  /\ handler' = [handler EXCEPT ![session + 1] = "accepted"]
  /\ up' = [up EXCEPT ![session + 1] = <<Hello>>]
  /\ UNCHANGED <<device_vars, down, agent_link, registry, assigned, reported>>

\* The except branch of run.
ConnectRaises ==
  /\ ConnectFails
  /\ ~connected
  /\ work_state' = "OFFLINE"
  /\ UNCHANGED <<current_task, task_phase, sending>>
  /\ UNCHANGED <<net_vars, up, down, gateway_vars, assigned, reported>>

LinkBreaks ==
  /\ Online /\ session < MaxSessions
  /\ net' = [net EXCEPT ![session] = "broken"]
  /\ UNCHANGED <<device_vars, session, connected, up, down, gateway_vars, assigned, reported>>

\* One coroutine notices, the others are cancelled.  A send that was waiting has
\* written its message and does not return.
TearDown ==
  /\ connected /\ net[session] = "broken"
  /\ connected' = FALSE
  /\ sending' = FALSE
  /\ UNCHANGED <<work_state, current_task, task_phase, session, net>>
  /\ UNCHANGED <<up, down, gateway_vars, assigned, reported>>

HeartbeatQueued ==
  \E i \in 1..Len(up[session]) : up[session][i].kind = "agent_state"

\* At most one heartbeat is on its way: a bound.
Heartbeat ==
  /\ Online /\ ~HeartbeatQueued
  /\ Send(AgentState(work_state))
  /\ UNCHANGED <<device_vars, net_vars, down, gateway_vars, assigned, reported>>

-----------------------------------------------------------------------------
(* The device: tasks                                                       *)

\* _on_assignment.  The rejection is made out with the task in execution.
OnAssignment ==
  /\ Online /\ down[session] # <<>>
  /\ down' = [down EXCEPT ![session] = Tail(@)]
  /\ \/ /\ current_task # None
        /\ Send(Feedback(current_task, "REJECTED"))
        /\ UNCHANGED <<work_state, current_task, task_phase>>
     \/ /\ current_task = None
        /\ current_task' = Head(down[session])
        /\ task_phase' = "to_target"
        /\ work_state' = "EXECUTING"
        /\ Send(Feedback(current_task', "ACCEPTED"))
  /\ UNCHANGED <<sending, net_vars, gateway_vars, assigned, reported>>

\* The phase changes before the message is sent.
ArriveAtTarget ==
  /\ Online /\ task_phase = "to_target" /\ ~sending
  /\ task_phase' = "working"
  /\ Send(Feedback(current_task, "IN_PROGRESS"))
  /\ UNCHANGED <<work_state, current_task, sending, net_vars, down, gateway_vars, assigned, reported>>

\* What the end of the work, or of the way home, is reported as.
Report == IF task_phase = "working" /\ current_task \in Inspections THEN "IMAGE_CAPTURED" ELSE "COMPLETED"

FinishFirst ==  \* a mistake: the task is finished before its report is sent
  /\ Online /\ task_phase \in {"working", "returning"} /\ ~sending
  /\ current_task' = None /\ task_phase' = "" /\ work_state' = "IDLE"
  /\ Send(Feedback(current_task, Report)) \/ UNCHANGED up
  /\ UNCHANGED <<sending, net_vars, down, gateway_vars, assigned, reported>>

\* After the stable time, or back at the start, the loop sends ...
SendReport ==
  /\ Online /\ task_phase \in {"working", "returning"} /\ ~sending
  /\ Send(Feedback(current_task, Report))
  /\ sending' = TRUE
  /\ UNCHANGED <<work_state, current_task, task_phase, net_vars, down, gateway_vars, assigned, reported>>

\* ... and goes on when the send has returned.
StateAfterImage == "RETURNING"

Reported ==
  /\ Online /\ sending
  /\ sending' = FALSE
  /\ \/ /\ Report = "IMAGE_CAPTURED"
        /\ task_phase' = "returning"
        /\ work_state' = StateAfterImage
        /\ UNCHANGED current_task
     \/ /\ Report = "COMPLETED"
        /\ current_task' = None
        /\ task_phase' = ""
        /\ work_state' = "IDLE"
  /\ UNCHANGED <<net_vars, up, down, gateway_vars, assigned, reported>>

-----------------------------------------------------------------------------
(* The gateway                                                             *)

First(s) == Head(up[s])

Taken(s) == up' = [up EXCEPT ![s] = Tail(@)]

\* A hello is handled before the next connection of the device has said its own.
HandleHello(s) ==
  /\ handler[s] = "accepted" /\ up[s] # <<>>
  /\ \A r \in 1..(s - 1) : handler[r] # "accepted"
  /\ First(s).kind = "hello"
  /\ Taken(s)
  /\ handler' = [handler EXCEPT ![s] = "greeted"]
  /\ agent_link' = s
  /\ UNCHANGED <<device_vars, net_vars, down, registry, assigned, reported>>

StateSeen(s) == First(s).work_state

\* on_state: a heartbeat replaces what the registry knew.
HandleState(s) ==
  /\ handler[s] = "greeted" /\ up[s] # <<>>
  /\ First(s).kind = "agent_state"
  /\ Taken(s)
  /\ registry' = StateSeen(s)
  /\ UNCHANGED <<device_vars, net_vars, down, handler, agent_link, assigned, reported>>

HandleFeedback(s) ==
  /\ handler[s] = "greeted" /\ up[s] # <<>>
  /\ First(s).kind = "task_feedback"
  /\ Taken(s)
  /\ reported' = reported \cup {<<First(s).task, First(s).status>>}
  /\ UNCHANGED <<device_vars, net_vars, down, gateway_vars, assigned>>

LinkAfterAny(s) == 0  \* a mistake: the link is deleted whosever it is

LinkAfter(s) == IF agent_link = s THEN 0 ELSE agent_link

\* All that arrived has been read: WebSocketDisconnect.
Disconnected(s) ==
  /\ handler[s] = "greeted" /\ up[s] = <<>> /\ net[s] = "broken"
  /\ handler' = [handler EXCEPT ![s] = "ended"]
  /\ agent_link' = LinkAfter(s)
  /\ UNCHANGED <<device_vars, net_vars, up, down, registry, assigned, reported>>

\* Longer than OFFLINE_S without a heartbeat.
JudgeOffline ==
  /\ ~connected
  /\ registry' = "OFFLINE"
  /\ UNCHANGED <<device_vars, net_vars, up, down, handler, agent_link, assigned, reported>>

\* The state machine selects the device and _route_assignment sends it the task,
\* drops it for want of a link, or fails to send it.
Assign(t) ==
  /\ t \notin assigned
  /\ registry = "IDLE"
  /\ assigned' = assigned \cup {t}
  /\ IF agent_link # 0 /\ net[agent_link] = "up"
       THEN down' = [down EXCEPT ![agent_link] = Append(@, t)]
       ELSE UNCHANGED down
  /\ UNCHANGED <<device_vars, net_vars, up, gateway_vars, reported>>

-----------------------------------------------------------------------------
LinkInit ==
  /\ session = 0 /\ connected = FALSE
  /\ work_state = "IDLE" /\ current_task = None /\ task_phase = "" /\ sending = FALSE
  /\ net = [s \in Sessions |-> "unused"]
  /\ up = [s \in Sessions |-> <<>>]
  /\ down = [s \in Sessions |-> <<>>]
  /\ handler = [s \in Sessions |-> "none"]
  /\ agent_link = 0
  /\ registry = "OFFLINE"
  /\ assigned = {} /\ reported = {}

Device == OpenSession \/ TearDown \/ Heartbeat \/ OnAssignment \/ ArriveAtTarget \/ SendReport \/ Reported

Gateway(s) == HandleHello(s) \/ HandleState(s) \/ HandleFeedback(s) \/ Disconnected(s)

LinkNext ==
  \/ Device \/ ConnectRaises \/ LinkBreaks
  \/ \E s \in Sessions : Gateway(s)
  \/ JudgeOffline
  \/ \E t \in Tasks : Assign(t)

\* Each coroutine of the device and each handler runs.
LinkFairness ==
  /\ WF_lvars(OpenSession) /\ WF_lvars(TearDown)
  /\ WF_lvars(Heartbeat) /\ WF_lvars(OnAssignment)
  /\ WF_lvars(ArriveAtTarget \/ SendReport \/ Reported)
  /\ \A s \in Sessions : WF_lvars(Gateway(s))

LinkSpec == LinkInit /\ [][LinkNext]_lvars /\ LinkFairness

-----------------------------------------------------------------------------
(* Properties                                                              *)

Message == {Hello} \cup {AgentState(w) : w \in WorkStates}
             \cup {Feedback(t, status) : t \in Tasks, status \in Statuses}

\* Type invariant; the device's variables about its task agree, so that a device with
\* a task never reports itself free.
LinkTypeOK ==
  /\ session \in 0..MaxSessions /\ connected \in BOOLEAN
  /\ connected => session # 0
  /\ work_state \in WorkStates
  /\ current_task \in Tasks \cup {None}
  /\ task_phase \in TaskPhases
  /\ sending \in BOOLEAN
  /\ current_task = None <=> task_phase = ""
  /\ work_state \in {"EXECUTING", "RETURNING"} => current_task # None
  /\ current_task # None => work_state # "IDLE"
  /\ net \in [Sessions -> {"unused", "up", "broken"}]
  /\ up \in [Sessions -> Seq(Message)]
  /\ down \in [Sessions -> Seq(Tasks)]
  /\ handler \in [Sessions -> {"none", "accepted", "greeted", "ended"}]
  /\ agent_link \in 0..MaxSessions
  /\ registry \in WorkStates
  /\ assigned \subseteq Tasks
  /\ reported \subseteq Tasks \X Statuses

\* server.py:179: the end of an old connection never takes the link of a newer one,
\* and no link outlives its connection's handler.
Routed ==
  /\ agent_link # 0 => handler[agent_link] = "greeted"
  /\ connected /\ handler[session] = "greeted" => agent_link = session

\* device_agent.py:120: through all reconnections, the end of every accepted task
\* reaches the bus.
AcceptedIsReported ==
  \A t \in Tasks : current_task = t ~> <<t, "COMPLETED">> \in reported

\* registry.py:48: a device that reports again counts as online; once it stays
\* connected without a task it can be chosen again.
ComesBack == <>[](connected /\ current_task = None) => <>[](registry = "IDLE")

\* device_agent.py:163: REJECTED is the answer to an assignment that is not taken.
RejectedNotTaken ==
  \A t \in Tasks : <<t, "REJECTED">> \in reported => <<t, "ACCEPTED">> \notin reported

=============================================================================
