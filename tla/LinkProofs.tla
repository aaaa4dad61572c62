----------------------------- MODULE LinkProofs -----------------------------
(***************************************************************************)
(* Connections that break and are made again, with any number of them, any *)
(* tasks and any limits.                                                   *)
(*                                                                         *)
(* DeviceLink: Routed is not inductive.  That a late end of an old handler *)
(* takes nobody's link needs that the hellos were handled in the order of  *)
(* the connections (Greeted).                                              *)
(*                                                                         *)
(* ReadonlyAdapter: OnlineIsCurrent is not inductive.  That the snapshot   *)
(* is renewed in time follows from the time that is left until the next    *)
(* one, and that an old connection is never the reason from what           *)
(* mark_disconnected does before anything else (Current).                  *)
(***************************************************************************)
EXTENDS DeviceLink, ReadonlyAdapter, TLAPS

-----------------------------------------------------------------------------
(* DeviceLink: types                                                       *)

LEMMA MessageFacts ==
  ASSUME NEW m \in Message
  PROVE  /\ m.kind = "agent_state" => m.work_state \in WorkStates
         /\ m.kind = "task_feedback" => m.task \in Tasks /\ m.status \in Statuses
<1>1. CASE m = Hello
  BY <1>1 DEF Hello
<1>2. ASSUME NEW w \in WorkStates, m = AgentState(w)
      PROVE  m.kind = "agent_state" /\ m.work_state \in WorkStates
  BY <1>2 DEF AgentState
<1>3. ASSUME NEW t \in Tasks, NEW status \in Statuses, m = Feedback(t, status)
      PROVE  m.kind = "task_feedback" /\ m.task \in Tasks /\ m.status \in Statuses
  BY <1>3 DEF Feedback
<1> QED BY <1>1, <1>2, <1>3 DEF Message

LEMMA MessagesMade ==
  /\ Hello \in Message
  /\ \A w \in WorkStates : AgentState(w) \in Message
  /\ \A t \in Tasks, status \in Statuses : Feedback(t, status) \in Message
BY DEF Message

\* A coroutine waits for its report only while it has something to report.
Waiting == sending => task_phase \in {"working", "returning"}

\* The device's side of the type invariant ...
DeviceTypes ==
  /\ work_state \in WorkStates
  /\ current_task \in Tasks \cup {None}
  /\ task_phase \in TaskPhases
  /\ sending \in BOOLEAN
  /\ current_task = None <=> task_phase = ""
  /\ work_state \in {"EXECUTING", "RETURNING"} => current_task # None
  /\ current_task # None => work_state # "IDLE"

\* ... the connections and what they carry ...
NetTypes ==
  /\ session \in 0..MaxSessions /\ connected \in BOOLEAN
  /\ connected => session # 0
  /\ net \in [Sessions -> {"unused", "up", "broken"}]
  /\ up \in [Sessions -> Seq(Message)]
  /\ down \in [Sessions -> Seq(Tasks)]

\* ... and the gateway's.
GatewayTypes ==
  /\ handler \in [Sessions -> {"none", "accepted", "greeted", "ended"}]
  /\ agent_link \in 0..MaxSessions
  /\ registry \in WorkStates
  /\ assigned \subseteq Tasks
  /\ reported \subseteq Tasks \X Statuses

LEMMA LinkTypeSplit ==
  /\ LinkTypeOK <=> DeviceTypes /\ NetTypes /\ GatewayTypes
  /\ LinkTypeOK' <=> DeviceTypes' /\ NetTypes' /\ GatewayTypes'
BY DEF LinkTypeOK, DeviceTypes, NetTypes, GatewayTypes

LEMMA PresentSession ==
  ASSUME NetTypes, connected
  PROVE  session \in Sessions
BY LinkAssumption DEF NetTypes, Sessions

LEMMA SendTypes ==
  ASSUME NetTypes, session \in Sessions, NEW m \in Message, Send(m)
  PROVE  up' \in [Sessions -> Seq(Message)]
<1>1. Append(up[session], m) \in Seq(Message)
  BY DEF NetTypes
<1> QED BY <1>1 DEF Send, NetTypes

LEMMA TakenTypes ==
  ASSUME NetTypes, NEW s \in Sessions, up[s] # <<>>
  PROVE  /\ First(s) \in Message
         /\ Taken(s) => up' \in [Sessions -> Seq(Message)]
<1>1. up[s] \in Seq(Message)
  BY DEF NetTypes
<1>2. Head(up[s]) \in Message /\ Tail(up[s]) \in Seq(Message)
  BY <1>1
<1> QED BY <1>2 DEF First, Taken, NetTypes

LEMMA LinkTypesKept ==
  ASSUME LinkTypeOK, Waiting, [LinkNext]_lvars
  PROVE  LinkTypeOK' /\ Waiting'
<1> USE LinkTypeSplit, LinkAssumption
<1> USE DEF device_vars, net_vars, gateway_vars
<1>1. CASE UNCHANGED lvars
  BY <1>1 DEF lvars, DeviceTypes, NetTypes, GatewayTypes, Waiting
<1>2. CASE OpenSession
  <2>1. session + 1 \in Sessions
    BY <1>2 DEF OpenSession, NetTypes, Sessions
  <2>2. <<Hello>> \in Seq(Message)
    BY MessagesMade
  <2>3. NetTypes'
    BY <1>2, <2>1, <2>2 DEF OpenSession, NetTypes, Sessions
  <2>4. GatewayTypes' /\ DeviceTypes' /\ Waiting'
    BY <1>2, <2>1 DEF OpenSession, GatewayTypes, DeviceTypes, Waiting
  <2> QED BY <2>3, <2>4
<1>3. CASE ConnectRaises
  BY <1>3 DEF ConnectRaises, NetTypes, GatewayTypes, DeviceTypes, Waiting, WorkStates
<1>4. CASE LinkBreaks \/ TearDown
  BY <1>4 DEF LinkBreaks, TearDown, NetTypes, GatewayTypes, DeviceTypes, Waiting
<1>5. CASE Heartbeat
  <2>1. session \in Sessions
    BY <1>5, PresentSession DEF Heartbeat, Online
  <2>2. AgentState(work_state) \in Message
    BY MessagesMade DEF DeviceTypes
  <2>3. up' \in [Sessions -> Seq(Message)]
    BY <1>5, <2>1, <2>2, SendTypes DEF Heartbeat
  <2> QED BY <1>5, <2>3 DEF Heartbeat, NetTypes, GatewayTypes, DeviceTypes, Waiting
<1>6. CASE OnAssignment
  <2>1. session \in Sessions /\ down[session] \in Seq(Tasks) /\ down[session] # <<>>
    BY <1>6, PresentSession DEF OnAssignment, Online, NetTypes
  <2>2. Head(down[session]) \in Tasks /\ Tail(down[session]) \in Seq(Tasks)
    BY <2>1
  <2>3. current_task # None => Feedback(current_task, "REJECTED") \in Message
    BY MessagesMade DEF DeviceTypes, Statuses
  <2>4. Feedback(Head(down[session]), "ACCEPTED") \in Message
    BY <2>2, MessagesMade DEF Statuses
  <2>5. up' \in [Sessions -> Seq(Message)]
    BY <1>6, <2>1, <2>3, <2>4, SendTypes DEF OnAssignment
  <2>6. NetTypes'
    BY <1>6, <2>2, <2>5 DEF OnAssignment, NetTypes
  <2>7. DeviceTypes' /\ Waiting' /\ GatewayTypes'
    BY <1>6, <2>2 DEF OnAssignment, DeviceTypes, GatewayTypes, Waiting, TaskPhases, WorkStates
  <2> QED BY <2>6, <2>7
<1>7. CASE ArriveAtTarget
  <2>1. session \in Sessions
    BY <1>7, PresentSession DEF ArriveAtTarget, Online
  <2>2. Feedback(current_task, "IN_PROGRESS") \in Message
    BY <1>7, MessagesMade DEF ArriveAtTarget, DeviceTypes, Statuses
  <2>3. up' \in [Sessions -> Seq(Message)]
    BY <1>7, <2>1, <2>2, SendTypes DEF ArriveAtTarget
  <2> QED
    BY <1>7, <2>3 DEF ArriveAtTarget, NetTypes, GatewayTypes, DeviceTypes, Waiting, TaskPhases
<1>8. CASE SendReport
  <2>1. session \in Sessions
    BY <1>8, PresentSession DEF SendReport, Online
  <2>2. Feedback(current_task, Report) \in Message
    BY <1>8, MessagesMade DEF SendReport, Report, DeviceTypes, Statuses
  <2>3. up' \in [Sessions -> Seq(Message)]
    BY <1>8, <2>1, <2>2, SendTypes DEF SendReport
  <2> QED BY <1>8, <2>3 DEF SendReport, NetTypes, GatewayTypes, DeviceTypes, Waiting
<1>9. CASE Reported
  BY <1>9 DEF Reported, Report, StateAfterImage, NetTypes, GatewayTypes, DeviceTypes, Waiting,
     TaskPhases, WorkStates
<1>10. ASSUME NEW s \in Sessions, Gateway(s)
       PROVE  LinkTypeOK' /\ Waiting'
  <2>1. UNCHANGED <<device_vars, net_vars, down, assigned>>
    BY <1>10 DEF Gateway, HandleHello, HandleState, HandleFeedback, Disconnected
  <2>2. up' \in [Sessions -> Seq(Message)]
    BY <1>10, TakenTypes DEF Gateway, HandleHello, HandleState, HandleFeedback, Disconnected, NetTypes
  <2>3. up[s] # <<>> => First(s) \in Message
    BY TakenTypes
  <2>4. s \in 1..MaxSessions
    BY DEF Sessions
  <2>5. GatewayTypes'
    <3>1. CASE HandleHello(s)
      BY <3>1, <2>4 DEF HandleHello, GatewayTypes
    <3>2. CASE HandleState(s)
      BY <3>2, <2>3, MessageFacts DEF HandleState, StateSeen, GatewayTypes
    <3>3. CASE HandleFeedback(s)
      BY <3>3, <2>3, MessageFacts DEF HandleFeedback, GatewayTypes
    <3>4. CASE Disconnected(s)
      BY <3>4 DEF Disconnected, LinkAfter, GatewayTypes
    <3> QED BY <1>10, <3>1, <3>2, <3>3, <3>4 DEF Gateway
  <2> QED BY <2>1, <2>2, <2>5 DEF NetTypes, DeviceTypes, Waiting
<1>11. CASE JudgeOffline
  BY <1>11 DEF JudgeOffline, NetTypes, GatewayTypes, DeviceTypes, Waiting, WorkStates
<1>12. ASSUME NEW t \in Tasks, Assign(t)
       PROVE  LinkTypeOK' /\ Waiting'
  <2>1. down' \in [Sessions -> Seq(Tasks)]
    <3>1. CASE down' = down
      BY <3>1 DEF NetTypes
    <3>2. CASE agent_link # 0 /\ down' = [down EXCEPT ![agent_link] = Append(@, t)]
      <4>1. agent_link \in Sessions
        BY <3>2 DEF GatewayTypes, Sessions
      <4>2. Append(down[agent_link], t) \in Seq(Tasks)
        BY <4>1 DEF NetTypes
      <4> QED BY <3>2, <4>2 DEF NetTypes
    <3> QED BY <1>12, <3>1, <3>2 DEF Assign
  <2> QED BY <1>12, <2>1 DEF Assign, NetTypes, GatewayTypes, DeviceTypes, Waiting
<1> QED
  BY <1>1, <1>2, <1>3, <1>4, <1>5, <1>6, <1>7, <1>8, <1>9, <1>10, <1>11, <1>12 DEF LinkNext, Device

-----------------------------------------------------------------------------
(* DeviceLink: the link of the present connection                          *)

\* Connections that were not made have no handler, those that were have one; and
\* the handlers have read their hellos in the order of the connections.
Greeted ==
  /\ \A s \in Sessions : handler[s] = "none" <=> s > session
  /\ \A r, s \in Sessions :
       r < s /\ handler[s] \in {"greeted", "ended"} => handler[r] # "accepted"

Routing == Greeted /\ Routed

LEMMA GatewayRoutes ==
  ASSUME LinkTypeOK, Routing, NEW s \in Sessions, Gateway(s)
  PROVE  Routing'
<1>1. s \in 1..MaxSessions /\ MaxSessions \in Nat \ {0} /\ NetTypes /\ GatewayTypes
  BY LinkTypeSplit, LinkAssumption DEF Sessions
<1>2. UNCHANGED <<session, connected>>
  BY DEF Gateway, HandleHello, HandleState, HandleFeedback, Disconnected, net_vars
<1>3. CASE HandleHello(s)
  <2>1. /\ handler[s] = "accepted" /\ agent_link' = s
        /\ handler' = [handler EXCEPT ![s] = "greeted"]
        /\ \A r \in 1..(s - 1) : handler[r] # "accepted"
    BY <1>3 DEF HandleHello
  <2>2. handler'[s] = "greeted" /\ \A r \in Sessions : r # s => handler'[r] = handler[r]
    BY <1>1, <2>1 DEF GatewayTypes
  <2>3. Greeted'
    BY <1>1, <1>2, <2>1, <2>2 DEF Routing, Greeted, Sessions, NetTypes
  <2>4. connected /\ handler'[session] = "greeted" => session = s
    <3> SUFFICES ASSUME connected, handler'[session] = "greeted", session # s
                 PROVE  FALSE
      OBVIOUS
    <3>1. session \in Sessions /\ handler[session] = "greeted"
      BY <1>1, <2>2, PresentSession
    <3>2. s < session
      BY <1>1, <2>1, <3>1 DEF Routing, Greeted, NetTypes, Sessions
    <3> QED BY <2>1, <3>1, <3>2 DEF Routing, Greeted
  <2> QED BY <1>2, <2>1, <2>2, <2>3, <2>4 DEF Routing, Routed
<1>4. CASE HandleState(s) \/ HandleFeedback(s)
  BY <1>2, <1>4 DEF HandleState, HandleFeedback, gateway_vars, Routing, Greeted, Routed
<1>5. CASE Disconnected(s)
  <2>1. /\ handler[s] = "greeted" /\ net[s] = "broken" /\ agent_link' = LinkAfter(s)
        /\ handler' = [handler EXCEPT ![s] = "ended"]
    BY <1>5 DEF Disconnected
  <2>2. handler'[s] = "ended" /\ \A r \in Sessions : r # s => handler'[r] = handler[r]
    BY <1>1, <2>1 DEF GatewayTypes
  <2>3. Greeted'
    BY <1>1, <1>2, <2>1, <2>2 DEF Routing, Greeted, NetTypes
  <2>4. agent_link' # 0 => agent_link' = agent_link /\ agent_link # s /\ agent_link \in Sessions
    BY <1>1, <2>1 DEF LinkAfter, GatewayTypes, Sessions
  <2>5. connected /\ handler'[session] = "greeted" => agent_link' = session
    BY <1>1, <2>1, <2>2, PresentSession DEF Routing, Routed, LinkAfter, NetTypes, Sessions
  <2> QED BY <1>2, <2>2, <2>3, <2>4, <2>5 DEF Routing, Routed
<1> QED BY <1>3, <1>4, <1>5 DEF Gateway

LEMMA RoutingKept ==
  ASSUME LinkTypeOK, Routing, [LinkNext]_lvars
  PROVE  Routing'
<1>1. MaxSessions \in Nat \ {0} /\ NetTypes /\ GatewayTypes
  BY LinkTypeSplit, LinkAssumption
<1>2. CASE OpenSession
  <2>1. /\ session < MaxSessions /\ session' = session + 1
        /\ handler' = [handler EXCEPT ![session + 1] = "accepted"]
        /\ agent_link' = agent_link
    BY <1>2 DEF OpenSession
  <2>2. session + 1 \in Sessions /\ handler[session + 1] = "none"
    BY <1>1, <2>1 DEF Routing, Greeted, NetTypes, Sessions
  <2>3. /\ handler'[session + 1] = "accepted"
        /\ \A r \in Sessions : r # session + 1 => handler'[r] = handler[r]
    BY <1>1, <2>1, <2>2 DEF GatewayTypes
  <2>4. \A t \in Sessions : t > session + 1 => handler[t] = "none"
    BY <1>1 DEF Routing, Greeted, NetTypes, Sessions
  <2>5. Greeted'
    BY <1>1, <2>1, <2>2, <2>3, <2>4 DEF Routing, Greeted, NetTypes, Sessions
  <2>6. Routed'
    BY <1>1, <2>1, <2>2, <2>3 DEF Routing, Routed, GatewayTypes, Sessions
  <2> QED BY <2>5, <2>6 DEF Routing
<1>3. ASSUME NEW s \in Sessions, Gateway(s)
      PROVE  Routing'
  BY <1>3, GatewayRoutes
<1>4. CASE TearDown
  BY <1>4 DEF TearDown, gateway_vars, Routing, Greeted, Routed
<1>5. CASE UNCHANGED <<session, connected, handler, agent_link>>
  BY <1>5 DEF Routing, Greeted, Routed
<1> QED
  BY <1>2, <1>3, <1>4, <1>5 DEF LinkNext, Device, ConnectRaises, LinkBreaks, Heartbeat, OnAssignment,
     ArriveAtTarget, SendReport, Reported, JudgeOffline, Assign, net_vars, gateway_vars, lvars

LEMMA LinkInitial == LinkInit => LinkTypeOK /\ Waiting /\ Routing
<1> SUFFICES ASSUME LinkInit PROVE LinkTypeOK /\ Waiting /\ Routing
  OBVIOUS
<1>1. /\ ~connected /\ connected \in BOOLEAN
      /\ ~sending /\ sending \in BOOLEAN
  BY Zenon DEF LinkInit
<1>2. /\ session = 0 /\ agent_link = 0 /\ MaxSessions \in Nat \ {0}
      /\ net = [s \in Sessions |-> "unused"]
      /\ handler = [s \in Sessions |-> "none"]
      /\ registry = "OFFLINE" /\ assigned = {} /\ reported = {}
  BY LinkAssumption DEF LinkInit
<1>3. up = [s \in Sessions |-> <<>>] /\ down = [s \in Sessions |-> <<>>]
  BY DEF LinkInit
<1>4. DeviceTypes /\ Waiting
  BY <1>1 DEF LinkInit, DeviceTypes, Waiting, WorkStates, TaskPhases
<1>5. NetTypes
  <2>1. up \in [Sessions -> Seq(Message)] /\ down \in [Sessions -> Seq(Tasks)]
    <3>1. <<>> \in Seq(Message) /\ <<>> \in Seq(Tasks)
      OBVIOUS
    <3> QED BY <1>3, <3>1, Zenon
  <2> QED BY <1>1, <1>2, <2>1 DEF NetTypes
<1>6. GatewayTypes
  BY <1>2 DEF GatewayTypes, WorkStates
<1>7. Routing
  BY <1>1, <1>2 DEF Routing, Greeted, Routed, Sessions
<1> QED BY <1>4, <1>5, <1>6, <1>7, LinkTypeSplit

\* The types of device and gateway; whether a device has a task, and what it is
\* doing, never disagree.
THEOREM LinkTypeCorrect == LinkSpec => []LinkTypeOK
<1>1. LinkInit => LinkTypeOK /\ Waiting
  BY LinkInitial
<1>2. LinkTypeOK /\ Waiting /\ [LinkNext]_lvars => (LinkTypeOK /\ Waiting)'
  BY LinkTypesKept
<1> QED BY <1>1, <1>2, PTL DEF LinkSpec

\* However many connections follow each other and however late the handlers of the
\* old ones end, the link is the present connection's once it has said hello, and
\* no link outlives its handler.
THEOREM LinkIsPresent == LinkSpec => []Routed
<1>1. LinkInit => Routing
  BY LinkInitial
<1>2. LinkTypeOK /\ Routing /\ [LinkNext]_lvars => Routing'
  BY RoutingKept
<1>3. Routing => Routed
  BY DEF Routing
<1> QED BY <1>1, <1>2, <1>3, LinkTypeCorrect, PTL DEF LinkSpec

-----------------------------------------------------------------------------
(* DeviceLink: what the bus is told                                        *)

\* Feedback on its way, tasks on theirs, the task in execution and what the bus was
\* told are all of tasks the master has published for the device.
Known(m, tasks) == m.kind = "task_feedback" => m.task \in tasks

NothingInvented ==
  /\ current_task # None => current_task \in assigned
  /\ \A s \in Sessions : \A i \in 1..Len(down[s]) : down[s][i] \in assigned
  /\ \A s \in Sessions : \A i \in 1..Len(up[s]) : Known(up[s][i], assigned)
  /\ \A pair \in reported : pair[1] \in assigned

LEMMA EachAppended ==
  ASSUME NEW S, NEW q \in Seq(S), NEW m \in S
  PROVE  \A i \in 1..Len(Append(q, m)) :
           \/ i \in 1..Len(q) /\ Append(q, m)[i] = q[i]
           \/ Append(q, m)[i] = m
OBVIOUS

LEMMA EachOfTail ==
  ASSUME NEW S, NEW q \in Seq(S), q # <<>>
  PROVE  /\ Len(q) \in Nat \ {0} /\ Head(q) = q[1]
         /\ \A i \in 1..Len(Tail(q)) : i + 1 \in 1..Len(q) /\ Tail(q)[i] = q[i + 1]
OBVIOUS

\* What the device sends speaks of its task.
LEMMA SendInvents ==
  ASSUME NetTypes, NothingInvented, session \in Sessions, NEW m \in Message, Known(m, assigned), Send(m),
         UNCHANGED assigned
  PROVE  \A s \in Sessions : \A i \in 1..Len(up'[s]) : Known(up'[s][i], assigned')
<1>1. /\ up'[session] = Append(up[session], m) /\ up[session] \in Seq(Message)
      /\ \A s \in Sessions : s # session => up'[s] = up[s]
  BY DEF Send, NetTypes
<1>2. \A i \in 1..Len(up'[session]) :
        \/ i \in 1..Len(up[session]) /\ up'[session][i] = up[session][i]
        \/ up'[session][i] = m
  BY <1>1, EachAppended
<1> QED BY <1>1, <1>2 DEF NothingInvented, Known

LEMMA TakenInvents ==
  ASSUME NetTypes, NothingInvented, NEW s \in Sessions, up[s] # <<>>, Taken(s), UNCHANGED assigned
  PROVE  /\ Known(First(s), assigned)
         /\ \A r \in Sessions : \A i \in 1..Len(up'[r]) : Known(up'[r][i], assigned')
<1>1. /\ up'[s] = Tail(up[s]) /\ up[s] \in Seq(Message)
      /\ \A r \in Sessions : r # s => up'[r] = up[r]
  BY DEF Taken, NetTypes
<1>2. /\ Len(up[s]) \in Nat \ {0} /\ Head(up[s]) = up[s][1]
      /\ \A i \in 1..Len(up'[s]) : i + 1 \in 1..Len(up[s]) /\ up'[s][i] = up[s][i + 1]
  BY <1>1, EachOfTail
<1>3. Known(First(s), assigned)
  BY <1>2 DEF NothingInvented, First
<1>4. ASSUME NEW r \in Sessions, NEW i \in 1..Len(up'[r])
      PROVE  Known(up'[r][i], assigned')
  <2>1. CASE r = s
    <3>1. i + 1 \in 1..Len(up[s]) /\ up'[s][i] = up[s][i + 1]
      BY <1>2, <2>1
    <3> QED BY <2>1, <3>1 DEF NothingInvented
  <2>2. CASE r # s
    BY <1>1, <2>2 DEF NothingInvented
  <2> QED BY <2>1, <2>2
<1> QED BY <1>3, <1>4

LEMMA InventionKept ==
  ASSUME LinkTypeOK, NothingInvented, [LinkNext]_lvars
  PROVE  NothingInvented'
<1> USE DEF device_vars, net_vars, gateway_vars
<1>1. DeviceTypes /\ NetTypes /\ GatewayTypes
  BY LinkTypeSplit
<1>2. connected => session \in Sessions
  BY <1>1, PresentSession
<1>3. CASE UNCHANGED <<current_task, up, down, assigned, reported>>
  BY <1>3 DEF NothingInvented, Known
<1>4. CASE OpenSession
  <2>1. session + 1 \in Sessions
    BY <1>1, <1>4, LinkAssumption DEF OpenSession, NetTypes, Sessions
  <2>2. up'[session + 1] = <<Hello>> /\ \A s \in Sessions : s # session + 1 => up'[s] = up[s]
    BY <1>1, <1>4, <2>1 DEF OpenSession, NetTypes
  <2>3. \A i \in 1..Len(<<Hello>>) : <<Hello>>[i] = Hello
    OBVIOUS
  <2>4. Hello.kind = "hello"
    BY DEF Hello
  <2>5. \A s \in Sessions : \A i \in 1..Len(up'[s]) : Known(up'[s][i], assigned')
    <3> SUFFICES ASSUME NEW s \in Sessions, NEW i \in 1..Len(up'[s])
                 PROVE  Known(up'[s][i], assigned')
      OBVIOUS
    <3>1. CASE s = session + 1
      BY <2>2, <2>3, <2>4, <3>1 DEF Known
    <3>2. CASE s # session + 1
      BY <1>4, <2>2, <3>2 DEF OpenSession, NothingInvented, Known
    <3> QED BY <3>1, <3>2
  <2> QED BY <1>4, <2>5 DEF OpenSession, NothingInvented
<1>5. CASE Heartbeat
  <2>1. AgentState(work_state) \in Message /\ Known(AgentState(work_state), assigned)
    BY <1>1, MessagesMade DEF DeviceTypes, AgentState, Known
  <2>2. \A s \in Sessions : \A i \in 1..Len(up'[s]) : Known(up'[s][i], assigned')
    BY <1>1, <1>2, <1>5, <2>1, SendInvents DEF Heartbeat, Online
  <2> QED BY <1>5, <2>2 DEF Heartbeat, NothingInvented
<1>6. CASE OnAssignment
  <2>1. session \in Sessions /\ down[session] # <<>> /\ down[session] \in Seq(Tasks)
    BY <1>1, <1>2, <1>6 DEF OnAssignment, Online, NetTypes
  <2>2. /\ Len(down[session]) \in Nat \ {0} /\ Head(down[session]) = down[session][1]
        /\ \A i \in 1..Len(Tail(down[session])) :
             i + 1 \in 1..Len(down[session]) /\ Tail(down[session])[i] = down[session][i + 1]
    BY <2>1, EachOfTail
  <2>3. Head(down[session]) \in assigned /\ Head(down[session]) \in Tasks
    BY <2>1, <2>2 DEF NothingInvented
  <2>4. \A s \in Sessions : \A i \in 1..Len(down'[s]) : down'[s][i] \in assigned
    <3>1. /\ down'[session] = Tail(down[session])
          /\ \A s \in Sessions : s # session => down'[s] = down[s]
      BY <1>1, <1>6, <2>1 DEF OnAssignment, NetTypes
    <3>2. ASSUME NEW s \in Sessions, NEW i \in 1..Len(down'[s])
          PROVE  down'[s][i] \in assigned
      <4>1. CASE s = session
        <5>1. i + 1 \in 1..Len(down[session]) /\ down'[session][i] = down[session][i + 1]
          BY <2>2, <3>1, <4>1
        <5> QED BY <2>1, <4>1, <5>1 DEF NothingInvented
      <4>2. CASE s # session
        BY <3>1, <4>2 DEF NothingInvented
      <4> QED BY <4>1, <4>2
    <3> QED BY <3>2
  <2>5. ASSUME NEW t \in Tasks, t \in assigned, NEW status \in Statuses, Send(Feedback(t, status))
        PROVE  \A s \in Sessions : \A i \in 1..Len(up'[s]) : Known(up'[s][i], assigned')
    <3>1. Feedback(t, status) \in Message /\ Known(Feedback(t, status), assigned)
      BY <2>5, MessagesMade DEF Feedback, Known
    <3> QED BY <1>1, <1>6, <2>1, <2>5, <3>1, SendInvents DEF OnAssignment
  <2>6. \A s \in Sessions : \A i \in 1..Len(up'[s]) : Known(up'[s][i], assigned')
    <3>1. \/ current_task # None /\ Send(Feedback(current_task, "REJECTED"))
          \/ current_task' = Head(down[session]) /\ Send(Feedback(current_task', "ACCEPTED"))
      BY <1>6 DEF OnAssignment
    <3>2. CASE current_task # None /\ Send(Feedback(current_task, "REJECTED"))
      <4>1. current_task \in Tasks /\ current_task \in assigned
        BY <1>1, <3>2 DEF DeviceTypes, NothingInvented
      <4> QED BY <2>5, <3>2, <4>1 DEF Statuses
    <3>3. CASE current_task' = Head(down[session]) /\ Send(Feedback(current_task', "ACCEPTED"))
      BY <2>3, <2>5, <3>3 DEF Statuses
    <3> QED BY <3>1, <3>2, <3>3
  <2> QED BY <1>6, <2>3, <2>4, <2>6 DEF OnAssignment, NothingInvented
<1>7. CASE ArriveAtTarget \/ SendReport
  <2>1. current_task \in Tasks /\ current_task \in assigned /\ session \in Sessions
    BY <1>1, <1>2, <1>7 DEF ArriveAtTarget, SendReport, Online, DeviceTypes, NothingInvented
  <2>2. PICK status \in Statuses : Send(Feedback(current_task, status))
    BY <1>7 DEF ArriveAtTarget, SendReport, Report, Statuses
  <2>3. Feedback(current_task, status) \in Message /\ Known(Feedback(current_task, status), assigned)
    BY <2>1, MessagesMade DEF Feedback, Known
  <2>4. \A s \in Sessions : \A i \in 1..Len(up'[s]) : Known(up'[s][i], assigned')
    BY <1>1, <1>7, <2>1, <2>2, <2>3, SendInvents DEF ArriveAtTarget, SendReport
  <2> QED BY <1>7, <2>4 DEF ArriveAtTarget, SendReport, NothingInvented
<1>8. CASE Reported
  BY <1>8 DEF Reported, NothingInvented, Known
<1>9. ASSUME NEW s \in Sessions, HandleHello(s) \/ HandleState(s) \/ HandleFeedback(s)
      PROVE  NothingInvented'
  <2>1. /\ Known(First(s), assigned)
        /\ \A r \in Sessions : \A i \in 1..Len(up'[r]) : Known(up'[r][i], assigned')
    BY <1>1, <1>9, TakenInvents DEF HandleHello, HandleState, HandleFeedback
  <2>2. \A pair \in reported' : pair[1] \in assigned
    BY <1>9, <2>1 DEF HandleHello, HandleState, HandleFeedback, NothingInvented, Known
  <2> QED BY <1>9, <2>1, <2>2 DEF HandleHello, HandleState, HandleFeedback, NothingInvented
<1>10. ASSUME NEW t \in Tasks, Assign(t)
       PROVE  NothingInvented'
  <2>1. assigned' = assigned \cup {t} /\ UNCHANGED <<current_task, up, reported>>
    BY <1>10 DEF Assign
  <2>2. \A s \in Sessions : \A i \in 1..Len(down'[s]) : down'[s][i] \in assigned'
    <3>1. CASE down' = down
      BY <2>1, <3>1 DEF NothingInvented
    <3>2. CASE agent_link # 0 /\ down' = [down EXCEPT ![agent_link] = Append(@, t)]
      <4>1. agent_link \in Sessions /\ down[agent_link] \in Seq(Tasks)
        BY <1>1, <3>2 DEF GatewayTypes, NetTypes, Sessions
      <4>2. /\ down'[agent_link] = Append(down[agent_link], t)
            /\ \A s \in Sessions : s # agent_link => down'[s] = down[s]
        BY <1>1, <3>2, <4>1 DEF NetTypes
      <4>3. \A i \in 1..Len(down'[agent_link]) :
              \/ i \in 1..Len(down[agent_link]) /\ down'[agent_link][i] = down[agent_link][i]
              \/ down'[agent_link][i] = t
        BY <4>1, <4>2, EachAppended
      <4> QED BY <2>1, <4>1, <4>2, <4>3 DEF NothingInvented
    <3> QED BY <1>10, <3>1, <3>2 DEF Assign
  <2> QED BY <2>1, <2>2 DEF NothingInvented, Known
<1> QED
  BY <1>3, <1>4, <1>5, <1>6, <1>7, <1>8, <1>9, <1>10
     DEF LinkNext, Device, Gateway, ConnectRaises, LinkBreaks, TearDown, Disconnected, JudgeOffline, lvars

\* Through all reconnections, no feedback reaches the bus of a task that was not
\* published for this device.
THEOREM FeedbackIsOfAssigned == LinkSpec => []NothingInvented
<1>1. LinkInit => NothingInvented
  <2> SUFFICES ASSUME LinkInit PROVE NothingInvented
    OBVIOUS
  <2>1. \A s \in Sessions : up[s] = <<>> /\ down[s] = <<>>
    BY DEF LinkInit
  <2>2. Len(<<>>) = 0
    OBVIOUS
  <2>3. current_task = None /\ reported = {}
    BY DEF LinkInit
  <2> QED BY <2>1, <2>2, <2>3 DEF NothingInvented
<1>2. LinkTypeOK /\ NothingInvented /\ [LinkNext]_lvars => NothingInvented'
  BY InventionKept
<1> QED BY <1>1, <1>2, LinkTypeCorrect, PTL DEF LinkSpec

-----------------------------------------------------------------------------
(* ReadonlyAdapter: the snapshot and the connection                        *)

Connected == phase \in {"loop", "receive"}

\* While there is no connection nothing was heard and nothing is online; while
\* there is one, the projector knows the age of its last message, and the next
\* snapshot is due before that age is beyond the limit.
Current ==
  /\ phase \in {"connect", "loop", "receive", "sleep", "stopped"}
  /\ last_rx_monotonic \in Ages /\ heard_ago \in Ages
  /\ next_publish \in 0 .. PublishEvery
  /\ phase \in {"connect", "sleep"} => last_rx_monotonic = Null /\ ~out.online
  /\ Connected => last_rx_monotonic = heard_ago
  /\ Connected /\ out.online =>
       /\ heard_ago # Null
       /\ next_publish >= 1
       /\ heard_ago + next_publish <= StaleAfter + PublishEvery

-----------------------------------------------------------------------------
(* ReadonlyAdapter: ages and snapshots                                     *)

LEMMA LaterFacts ==
  ASSUME NEW age \in Ages, NEW d \in Nat
  PROVE  /\ Later(age, d) \in Ages
         /\ Later(Null, d) = Null
         /\ age # Null => Later(age, d) # Null /\ Later(age, d) <= age + d
<1>1. Horizon \in Nat
  BY TimesAssumption
<1>2. Later(Null, d) = Null
  BY DEF Later
<1>3. CASE age = Null
  BY <1>2, <1>3
<1>4. CASE age # Null
  <2>1. age \in 0 .. Horizon
    BY <1>4 DEF Ages
  <2>2. Later(age, d) = Least(age + d, Horizon)
    BY <1>4 DEF Later
  <2>3. Least(age + d, Horizon) \in 0 .. Horizon /\ Least(age + d, Horizon) <= age + d
    BY <1>1, <2>1 DEF Least
  <2> QED BY <1>2, <1>4, <2>2, <2>3 DEF Ages, Null
<1> QED BY <1>3, <1>4

LEMMA SnapshotOnline ==
  ASSUME NEW age, NEW seen
  PROVE  /\ Snapshot(age, seen).online => age # Null /\ age <= StaleAfter
         /\ ~Snapshot(Null, seen).online
  BY DEF Snapshot

\* However a connection fails, what is published is offline.
LEMMA FailOffline ==
  ASSUME NEW failure, NEW age \in Ages, NEW seen, Fail(failure, age, seen)
  PROVE  /\ phase' \in {"sleep", "stopped"}
         /\ last_rx_monotonic' \in Ages
         /\ phase' = "sleep" => last_rx_monotonic' = Null /\ ~out'.online
<1>1. CASE failure \in Caught
  <2>1. last_rx_monotonic' = Null /\ out' = Snapshot(Null, seen) /\ phase' \in {"sleep", "stopped"}
    BY <1>1 DEF Fail, MarkDisconnected
  <2>2. ~out'.online
    BY <2>1, SnapshotOnline
  <2> QED BY <2>1, <2>2 DEF Ages
<1>2. CASE failure \notin Caught
  BY <1>2 DEF Fail
<1> QED BY <1>1, <1>2

-----------------------------------------------------------------------------
(* ReadonlyAdapter: every step keeps it                                    *)

LEMMA ConnectKeeps ==
  ASSUME Current, NEW d \in Durations, Connect(d)
  PROVE  Current'
<1>1. d \in Nat
  BY TimesAssumption DEF Durations
<1>2. last_rx_monotonic = Null /\ ~out.online /\ heard_ago \in Ages /\ next_publish \in 0 .. PublishEvery
  BY DEF Connect, Current
<1>3. Later(last_rx_monotonic, d) = Null /\ Null \in Ages
  BY <1>1, <1>2, LaterFacts DEF Ages
<1>4. CASE reachable
  <2>1. /\ phase' = "loop" /\ next_publish' = 0 /\ heard_ago' = Null
        /\ last_rx_monotonic' = Null /\ out' = out
    BY <1>3, <1>4 DEF Connect
  <2> QED BY <1>2, <1>3, <2>1, TimesAssumption DEF Current, Connected
<1>5. CASE ~reachable
  <2>1. /\ Fail("refused", Null, last_seen')
        /\ UNCHANGED <<next_publish, heard_ago>>
    BY <1>3, <1>5 DEF Connect, loop, history
  <2>2. /\ phase' \in {"sleep", "stopped"}
        /\ last_rx_monotonic' \in Ages
        /\ phase' = "sleep" => last_rx_monotonic' = Null /\ ~out'.online
    BY <1>3, <2>1, FailOffline
  <2> QED BY <1>2, <2>1, <2>2 DEF Current, Connected
<1> QED BY <1>4, <1>5

LEMMA SleepKeeps ==
  ASSUME Current, reconnect_delay \in Nat, Sleep
  PROVE  Current'
<1>1. /\ last_rx_monotonic = Null /\ ~out.online /\ phase' \in {"connect", "stopped"}
      /\ UNCHANGED <<out, next_publish>>
      /\ last_rx_monotonic' = Later(last_rx_monotonic, reconnect_delay)
      /\ heard_ago' = Later(heard_ago, reconnect_delay)
  BY DEF Sleep, Elapse, Current, loop
<1>2. last_rx_monotonic' = Null /\ heard_ago' \in Ages
  BY <1>1, LaterFacts DEF Current
<1> QED BY <1>1, <1>2 DEF Current, Connected

LEMMA FailingKeeps ==
  ASSUME Current, NEW failure, Fail(failure, last_rx_monotonic, last_seen),
         UNCHANGED <<next_publish, heard_ago>>
  PROVE  Current'
<1>1. /\ phase' \in {"sleep", "stopped"}
      /\ last_rx_monotonic' \in Ages
      /\ phase' = "sleep" => last_rx_monotonic' = Null /\ ~out'.online
  BY FailOffline DEF Current
<1> QED BY <1>1 DEF Current, Connected

LEMMA LoopKeeps ==
  ASSUME Current, Loop
  PROVE  Current'
<1>1. UNCHANGED <<next_publish, heard_ago>> /\ phase = "loop"
  BY DEF Loop, loop, history
<1>2. CASE phase' \in {"receive", "stopped"} /\ UNCHANGED <<last_rx_monotonic, out>>
  BY <1>1, <1>2 DEF Current, Connected
<1>3. CASE Fail(broken, last_rx_monotonic, last_seen)
  BY <1>1, <1>3, FailingKeeps
<1> QED BY <1>2, <1>3 DEF Loop

\* The rest of a turn, whatever the turn has brought.
LEMMA FinishKeeps ==
  ASSUME Current, phase = "receive", NEW d \in 0 .. 1, NEW age \in Ages, Finish(d, age),
         heard_ago' = age,
         age # Null => age = 0 \/ (heard_ago # Null /\ age <= heard_ago + d),
         age = Null => heard_ago = Null
  PROVE  Current'
<1>1. CASE last_rx' > Silence
  <2>1. Fail("silence", age, last_seen') /\ next_publish' = next_publish
    BY <1>1 DEF Finish
  <2>2. /\ phase' \in {"sleep", "stopped"}
        /\ last_rx_monotonic' \in Ages
        /\ phase' = "sleep" => last_rx_monotonic' = Null /\ ~out'.online
    BY <2>1, FailOffline
  <2> QED BY <2>1, <2>2 DEF Current, Connected
<1>2. CASE ~(last_rx' > Silence) /\ next_publish <= d
  <2>1. /\ phase' = "loop" /\ last_rx_monotonic' = age
        /\ next_publish' = PublishEvery /\ out' = Snapshot(age, last_seen')
    BY <1>2 DEF Finish
  <2>2. out'.online => age # Null /\ age <= StaleAfter
    BY <2>1, SnapshotOnline
  <2> QED BY <2>1, <2>2, TimesAssumption DEF Current, Connected, Ages, Null
<1>3. CASE ~(last_rx' > Silence) /\ ~(next_publish <= d)
  <2>1. /\ phase' = "loop" /\ last_rx_monotonic' = age
        /\ next_publish' = next_publish - d /\ out' = out
    BY <1>3 DEF Finish
  <2>2. next_publish \in 0 .. PublishEvery /\ next_publish > d
    BY <1>3 DEF Current
  <2>3. next_publish' \in 0 .. PublishEvery /\ next_publish' >= 1
    BY <2>1, <2>2, TimesAssumption
  <2>4. ASSUME out.online
        PROVE  age # Null /\ age + next_publish' <= StaleAfter + PublishEvery
    <3>1. heard_ago # Null /\ heard_ago + next_publish <= StaleAfter + PublishEvery
      BY <2>4 DEF Current, Connected
    <3>2. age # Null
      BY <3>1
    <3>3. heard_ago \in Nat /\ age \in Nat
      BY <3>1, <3>2, TimesAssumption DEF Current, Ages, Null
    <3> QED BY <2>1, <2>2, <3>1, <3>2, <3>3, TimesAssumption
  <2> QED BY <2>1, <2>3, <2>4 DEF Current, Connected
<1> QED BY <1>1, <1>2, <1>3

LEMMA ReceiveKeeps ==
  ASSUME Current, NEW m \in Messages, NEW d \in 0 .. 1, Receive(m, d)
  PROVE  Current'
<1>1. /\ phase = "receive"
      /\ Finish(d, LinkAge(m, d))
      /\ heard_ago' = IF Processed(m) THEN 0 ELSE Later(heard_ago, d)
  BY DEF Receive, Process
<1>2. last_rx_monotonic = heard_ago /\ heard_ago \in Ages
  BY <1>1 DEF Current, Connected
<1>3. LinkAge(m, d) = IF Processed(m) THEN 0 ELSE Later(heard_ago, d)
  BY <1>2 DEF LinkAge
<1>4. 0 \in Ages /\ 0 # Null
  BY TimesAssumption DEF Ages, Null
<1>5. Later(heard_ago, d) \in Ages
      /\ (heard_ago # Null => Later(heard_ago, d) # Null /\ Later(heard_ago, d) <= heard_ago + d)
      /\ (heard_ago = Null => Later(heard_ago, d) = Null)
  BY <1>2, LaterFacts
<1> HIDE DEF Ages, Null, Later
<1>6. CASE Processed(m)
  BY <1>1, <1>3, <1>4, <1>6, FinishKeeps
<1>7. CASE ~Processed(m)
  BY <1>1, <1>3, <1>5, <1>7, FinishKeeps
<1> QED BY <1>6, <1>7

LEMMA TimeOutKeeps ==
  ASSUME Current, TimeOut(1)
  PROVE  Current'
<1>1. /\ phase = "receive"
      /\ Finish(1, Later(last_rx_monotonic, 1))
      /\ heard_ago' = Later(heard_ago, 1)
  BY DEF TimeOut, Elapse
<1>2. last_rx_monotonic = heard_ago /\ heard_ago \in Ages
  BY <1>1 DEF Current, Connected
<1>3. Later(heard_ago, 1) \in Ages
      /\ (heard_ago # Null => Later(heard_ago, 1) # Null /\ Later(heard_ago, 1) <= heard_ago + 1)
      /\ (heard_ago = Null => Later(heard_ago, 1) = Null)
  BY <1>2, LaterFacts
<1> QED BY <1>1, <1>2, <1>3, FinishKeeps

\* The retry delay stays a number, whatever it is doubled to.
Delaying == reconnect_delay \in Nat

LEMMA DelayingKept ==
  ASSUME Delaying, [Next]_rvars
  PROVE  Delaying'
<1>1. reconnect_delay' \in {reconnect_delay, DelayInitial, Least(2 * reconnect_delay, DelayMax)}
  BY DEF Next, Connect, Sleep, Loop, Receive, TimeOut, ReceiveFails, Stop, Break, Reach, Sends, rvars
<1> QED BY <1>1, TimesAssumption DEF Delaying, Least

LEMMA StepKeeps ==
  ASSUME Delaying, Current, [Next]_rvars
  PROVE  Current'
<1>1. CASE UNCHANGED rvars
  BY <1>1 DEF rvars, projector, loop, history, Current, Connected
<1>2. ASSUME NEW d \in Durations, Connect(d)
      PROVE  Current'
  BY <1>2, ConnectKeeps
<1>3. CASE Sleep
  BY <1>3, SleepKeeps DEF Delaying
<1>4. CASE Loop
  BY <1>4, LoopKeeps
<1>5. ASSUME NEW m \in Messages, NEW d \in 0 .. 1, Receive(m, d)
      PROVE  Current'
  BY <1>5, ReceiveKeeps
<1>6. CASE TimeOut(1)
  BY <1>6, TimeOutKeeps
<1>7. CASE ReceiveFails
  BY <1>7, FailingKeeps DEF ReceiveFails, loop, history
<1>8. CASE Stop \/ Reach
  BY <1>8 DEF Stop, Reach, projector, loop, history, Current, Connected
<1>9. CASE \E how \in {"reset", "eof"} : Break(how)
  BY <1>9 DEF Break, projector, loop, history, Current, Connected
<1>10. CASE \E what \in {"messages", "noise", "nothing"} : Sends(what)
  BY <1>10 DEF Sends, projector, loop, history, Current, Connected
<1> QED BY <1>1, <1>2, <1>3, <1>4, <1>5, <1>6, <1>7, <1>8, <1>9, <1>10 DEF Next

LEMMA InitCurrent == Init => Current /\ Delaying
<1> SUFFICES ASSUME Init PROVE Current /\ Delaying
  OBVIOUS
<1>1. /\ phase = "connect" /\ last_rx_monotonic = Null /\ heard_ago = Null
      /\ next_publish = 0 /\ reconnect_delay = DelayInitial
  BY DEF Init
<1>2. ~out.online
  BY DEF Init
<1> QED BY <1>1, <1>2, TimesAssumption DEF Current, Delaying, Connected, Ages

-----------------------------------------------------------------------------
(* ReadonlyAdapter: theorem                                                *)

LEMMA Invariance == Spec => [](Current /\ Delaying)
<1>1. Current /\ Delaying /\ [Next]_rvars => (Current /\ Delaying)'
  BY StepKeeps, DelayingKept
<1> QED BY <1>1, InitCurrent, PTL DEF Spec

\* While the adapter runs, its last snapshot shows the vehicle online only if the
\* present connection has brought a message within the limit and one interval
\* between snapshots.
THEOREM ShowsCurrentLink == Spec => []OnlineIsCurrent
<1>1. Current => OnlineIsCurrent
  <2> SUFFICES ASSUME Current, phase # "stopped", out.online
               PROVE  /\ phase \in {"loop", "receive"}
                      /\ heard_ago # Null /\ heard_ago < StaleAfter + PublishEvery
    BY DEF OnlineIsCurrent
  <2>1. Connected
    BY DEF Current, Connected
  <2>2. heard_ago # Null /\ next_publish >= 1
        /\ heard_ago + next_publish <= StaleAfter + PublishEvery
    BY <2>1 DEF Current
  <2>3. heard_ago \in Nat /\ next_publish \in Nat
    BY <2>2, TimesAssumption DEF Current, Ages, Null
  <2> QED BY <2>1, <2>2, <2>3, TimesAssumption DEF Connected
<1> QED BY <1>1, Invariance, PTL


=============================================================================
