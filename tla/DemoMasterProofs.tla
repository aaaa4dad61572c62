--------------------------- MODULE DemoMasterProofs ---------------------------
(***************************************************************************)
(* The master of the demo for any number of devices, requests and          *)
(* dashboards.                                                             *)
(*                                                                         *)
(* A mission and the devices refer to each other: a device names the       *)
(* mission it works for, a mission only says what it waits for.  That the  *)
(* two never disagree is not inductive: it needs that a request is new     *)
(* until its mission exists, that no two devices work for one mission, and *)
(* that a pickup has no image.                                             *)
(***************************************************************************)
EXTENDS DemoMaster, TLAPS

\* A request that was not handled has no mission, and no device works for it.
NewIsUnknown ==
  \A r \in Requests : chat[r] = "new" =>
    /\ phase[r] = None
    /\ \A d \in Devices : pending[d] # None => pending[d].mission # r

\* A device with a task is at work, and so the registry knows from its heartbeat.
BusyIsKnown ==
  \A d \in Devices : pending[d] # None =>
    /\ work_state[d] \in {"EXECUTING", "RETURNING"}
    /\ reported[d] => registry[d] \in {"EXECUTING", "RETURNING"}

OneDevice ==
  \A d, e \in Devices :
    Unfinished(d) /\ Unfinished(e) /\ pending[d].mission = pending[e].mission => d = e

PickupHasNoImage ==
  \A d \in Ugvs : pending[d] # None => ~pending[d].image_sent

\* The automatic verdict is on its way for every mission that awaits one.
Confirming ==
  auto_confirm => \A r \in Requests : phase[r] = "AWAITING_CONFIRM" => confirm = r

Consistent ==
  /\ NewIsUnknown
  /\ BusyIsKnown
  /\ OneDevice
  /\ PickupHasNoImage
  /\ WorksForMission
  /\ Served
  /\ Confirming

-----------------------------------------------------------------------------
(* The pieces handlers are made of                                         *)

\* An assignment gives one of the devices the task, or there is none and the
\* mission has failed.
LEMMA AssignFacts ==
  ASSUME NEW r, NEW kind, NEW accepted, Assign(r, kind, accepted)
  PROVE  \/ \E d \in kind :
              /\ pending' = [pending EXCEPT ![d] = [mission |-> r, image_sent |-> FALSE]]
              /\ work_state' = [work_state EXCEPT ![d] = "EXECUTING"]
              /\ reported' = [reported EXCEPT ![d] = FALSE]
              /\ phase' = [phase EXCEPT ![r] = accepted]
              /\ displaced' = displaced \cup
                   (IF Unfinished(d) THEN {pending[d].mission} ELSE {})
         \/ /\ phase' = [phase EXCEPT ![r] = "FAILED"]
            /\ UNCHANGED <<pending, work_state, reported, displaced>>
  BY DEF Assign, Candidates

\* The types a handler of a mission may disturb.
MissionTypes ==
  /\ phase \in [Requests -> {None} \cup Phases]
  /\ pending \in [Devices -> {None} \cup Tasks]
  /\ work_state \in [Devices -> {"IDLE", "EXECUTING", "RETURNING"}]
  /\ reported \in [Devices -> BOOLEAN]
  /\ displaced \subseteq Requests

LEMMA AssignTypes ==
  ASSUME MissionTypes, NEW r \in Requests, NEW kind \in SUBSET Devices,
         NEW accepted \in {"UAV_INSPECTING", "UGV_EXECUTING"}, Assign(r, kind, accepted)
  PROVE  MissionTypes'
<1>1. CASE /\ phase' = [phase EXCEPT ![r] = "FAILED"]
           /\ UNCHANGED <<pending, work_state, reported, displaced>>
  BY <1>1 DEF MissionTypes, Phases
<1>2. ASSUME NEW d \in kind,
             pending' = [pending EXCEPT ![d] = [mission |-> r, image_sent |-> FALSE]],
             work_state' = [work_state EXCEPT ![d] = "EXECUTING"],
             reported' = [reported EXCEPT ![d] = FALSE],
             phase' = [phase EXCEPT ![r] = accepted],
             displaced' = displaced \cup
                (IF Unfinished(d) THEN {pending[d].mission} ELSE {})
      PROVE  MissionTypes'
  <2>1. d \in Devices
    OBVIOUS
  <2>2. Unfinished(d) => pending[d].mission \in Requests
    BY <2>1 DEF MissionTypes, Unfinished, Tasks
  <2> QED BY <1>2, <2>1, <2>2 DEF MissionTypes, Tasks, Phases
<1> QED BY <1>1, <1>2, AssignFacts

\* What missions and devices say of each other, which an assignment to a mission
\* that nobody works for leaves intact.
Bound == OneDevice /\ PickupHasNoImage /\ WorksForMission /\ Served

LEMMA AssignBinds ==
  ASSUME MissionTypes, Bound, NEW r \in Requests, NEW kind, NEW accepted,
         \/ kind = Uavs /\ accepted = "UAV_INSPECTING"
         \/ kind = Ugvs /\ accepted = "UGV_EXECUTING",
         Assign(r, kind, accepted),
         \A d \in Devices : Unfinished(d) => pending[d].mission # r
  PROVE  Bound'
<1>1. CASE /\ phase' = [phase EXCEPT ![r] = "FAILED"]
           /\ UNCHANGED <<pending, work_state, reported, displaced>>
  <2>1. \A d \in Devices : Unfinished(d)' <=> Unfinished(d)
    BY <1>1 DEF Unfinished
  <2>2. OneDevice' /\ PickupHasNoImage'
    BY <1>1, <2>1 DEF Bound, OneDevice, PickupHasNoImage
  <2>3. WorksForMission'
    BY <1>1, <2>1 DEF Bound, WorksForMission, MissionTypes, Unfinished
  <2>4. Served'
    BY <1>1, <2>1 DEF Bound, Served, Waits, MissionTypes, Unfinished, Devices
  <2> QED BY <2>2, <2>3, <2>4 DEF Bound
<1>2. ASSUME NEW d \in kind,
             pending' = [pending EXCEPT ![d] = [mission |-> r, image_sent |-> FALSE]],
             work_state' = [work_state EXCEPT ![d] = "EXECUTING"],
             reported' = [reported EXCEPT ![d] = FALSE],
             phase' = [phase EXCEPT ![r] = accepted],
             displaced' = displaced \cup
                (IF Unfinished(d) THEN {pending[d].mission} ELSE {})
      PROVE  Bound'
  <2>1. d \in Devices /\ (d \in Uavs <=> accepted = "UAV_INSPECTING")
    BY DemoAssumption DEF Devices
  <2>2. pending'[d] = [mission |-> r, image_sent |-> FALSE]
    BY <1>2, <2>1 DEF MissionTypes
  <2>3. \A e \in Devices : e # d => pending'[e] = pending[e] /\ (Unfinished(e)' <=> Unfinished(e))
    BY <1>2, <2>1 DEF MissionTypes, Unfinished
  <2>4. phase'[r] = accepted /\ \A q \in Requests : q # r => phase'[q] = phase[q]
    BY <1>2 DEF MissionTypes
  <2>5. \A e \in Devices : e # d /\ Unfinished(e)' =>
          pending'[e].mission # r /\ pending'[e].mission \in Requests
    BY <2>3 DEF MissionTypes, Unfinished, Tasks
  <2>6. OneDevice'
    BY <2>1, <2>2, <2>3, <2>5 DEF Bound, OneDevice
  <2>7. PickupHasNoImage'
    BY <2>1, <2>2, <2>3 DEF Bound, PickupHasNoImage, Devices
  <2>8. WorksForMission'
    BY <2>1, <2>2, <2>3, <2>4, <2>5 DEF Bound, WorksForMission
  <2>9. Served'
    <3> SUFFICES ASSUME NEW q \in Requests, phase'[q] \in {"UAV_INSPECTING", "UGV_EXECUTING"},
                        q \notin displaced'
                 PROVE  \E e \in Waits(q)' : Unfinished(e)' /\ pending'[e].mission = q
      BY DEF Served
    <3>1. CASE q = r
      <4>1. d \in Waits(q)'
        BY <2>4, <3>1 DEF Waits
      <4>2. Unfinished(d)'
        <5>1. pending'[d] # None
          <6>1. [mission |-> r, image_sent |-> FALSE] \in Tasks
            BY DEF Tasks
          <6> QED BY <2>2, <6>1, DemoAssumption
        <5> QED BY <2>2, <5>1 DEF Unfinished
      <4> QED BY <2>2, <3>1, <4>1, <4>2
    <3>2. CASE q # r
      <4>1. phase[q] = phase'[q] /\ Waits(q)' = Waits(q) /\ q \notin displaced
        BY <1>2, <2>4, <3>2 DEF Waits
      <4>2. PICK e \in Waits(q) : Unfinished(e) /\ pending[e].mission = q
        BY <4>1 DEF Bound, Served
      <4>3. e # d
        BY <1>2, <4>2
      <4>4. e \in Devices
        BY <4>2 DEF Waits, Devices
      <4> QED BY <2>3, <4>1, <4>2, <4>3, <4>4
    <3> QED BY <3>1, <3>2
  <2> QED BY <2>6, <2>7, <2>8, <2>9 DEF Bound
<1> QED BY <1>1, <1>2, AssignFacts

\* The types of the requests and of the event stream.
Broadcasts == [start : SUBSET Clients, told : SUBSET Clients]

DeskTypes ==
  /\ chat \in [Requests -> {"new", "refused", "accepting", "announcing", "ok", "failed"}]
  /\ sending \in [Senders -> {None} \cup Broadcasts]

\* A request that broadcasts is no longer new, and it alone goes on.
LEMMA BroadcastFacts ==
  ASSUME DeskTypes, NEW r \in Requests, NEW is_finite, NEW stage \in {"accepting", "announcing"},
         NEW to \in SUBSET Clients, Broadcast(r, is_finite, stage, to)
  PROVE  /\ DeskTypes'
         /\ \A q \in Requests : chat'[q] = "new" => chat[q] = "new" /\ q # r
<1>1. r \in Senders
  BY DEF Senders
<1>2. Reply(is_finite) \in {"ok", "failed"}
  BY DEF Reply
<1>3. CASE to = {}
  <2>1. /\ chat' = [chat EXCEPT ![r] = Reply(is_finite)]
        /\ sending' = [sending EXCEPT ![r] = None]
    BY <1>3 DEF Broadcast
  <2> QED BY <1>1, <1>2, <2>1 DEF DeskTypes
<1>4. CASE to # {}
  <2>1. PICK c \in to : /\ chat' = [chat EXCEPT ![r] = stage]
                        /\ sending' = [sending EXCEPT ![r] = Sending(to, c)]
    BY <1>4 DEF Broadcast
  <2>2. Sending(to, c) \in Broadcasts
    BY DEF Sending, Broadcasts
  <2> QED BY <1>1, <2>1, <2>2 DEF DeskTypes
<1> QED BY <1>3, <1>4

LEMMA OverFacts ==
  ASSUME DeskTypes, NEW j \in Senders, sending[j] # None, NEW raised, NEW clients \in SUBSET Clients,
         Over(j, raised, clients)
  PROVE  /\ DeskTypes'
         /\ \A q \in Requests : chat'[q] = "new" => chat[q] = "new"
<1>1. CASE j \notin Requests
  BY <1>1 DEF Over, DeskTypes
<1>2. CASE j \in Requests /\ chat[j] = "accepting"
  <2>1. Broadcast(j, finite[j], "announcing", clients)
    BY <1>2 DEF Over
  <2> QED BY <1>2, <2>1, BroadcastFacts
<1>3. CASE j \in Requests /\ chat[j] # "accepting"
  <2>1. /\ sending' = [sending EXCEPT ![j] = None]
        /\ chat' = [chat EXCEPT ![j] = IF raised THEN "failed" ELSE Reply(finite[j])]
    BY <1>3 DEF Over
  <2>2. (IF raised THEN "failed" ELSE Reply(finite[j])) \in {"ok", "failed"}
    BY DEF Reply
  <2> QED BY <1>3, <2>1, <2>2 DEF DeskTypes
<1> QED BY <1>1, <1>2, <1>3

LEMMA TellFacts ==
  ASSUME DeskTypes, ws_clients \subseteq Clients, NEW j \in Senders, TellNext(j)
  PROVE  /\ DeskTypes' /\ ws_clients' \subseteq Clients
         /\ \A q \in Requests : chat'[q] = "new" => chat[q] = "new"
<1> USE DEF TellNext
<1>1. sending[j] # None /\ sending[j] \in Broadcasts
  BY DEF DeskTypes
<1>2. CASE Over(j, TRUE, ws_clients) /\ UNCHANGED ws_clients
  BY <1>1, <1>2, OverFacts
<1>3. ASSUME NEW c \in ws_clients, sending' = [sending EXCEPT ![j].told = @ \cup {c}],
             UNCHANGED <<ws_clients, chat>>
      PROVE  DeskTypes' /\ ws_clients' \subseteq Clients /\ chat' = chat
  <2>1. [sending[j] EXCEPT !.told = @ \cup {c}] \in Broadcasts
    BY <1>1 DEF Broadcasts
  <2> QED BY <1>3, <2>1 DEF DeskTypes
<1>4. ASSUME NEW dead, ws_clients' = Remaining(dead), Over(j, FALSE, ws_clients')
      PROVE  /\ DeskTypes' /\ ws_clients' \subseteq Clients
             /\ \A q \in Requests : chat'[q] = "new" => chat[q] = "new"
  <2>1. ws_clients' \in SUBSET Clients
    BY <1>4 DEF Remaining
  <2> QED BY <1>1, <1>4, <2>1, OverFacts
<1> QED BY <1>2, <1>3, <1>4

-----------------------------------------------------------------------------
(* Types                                                                   *)

OtherTypes ==
  /\ auto_confirm \in BOOLEAN
  /\ finite \in [Requests -> BOOLEAN]
  /\ registry \in [Devices -> {"IDLE", "EXECUTING", "RETURNING"}]
  /\ confirm \in {None} \cup Requests
  /\ ws_clients \subseteq Clients
  /\ conn \in [Clients -> {"new", "open", "closing", "leaked", "ended"}]

LEMMA TypeSplit ==
  /\ TypeOK <=> MissionTypes /\ DeskTypes /\ OtherTypes
  /\ TypeOK' <=> MissionTypes' /\ DeskTypes' /\ OtherTypes'
BY DEF TypeOK, MissionTypes, DeskTypes, OtherTypes, Broadcasts

LEMMA KindsAreDevices == Uavs \in SUBSET Devices /\ Ugvs \in SUBSET Devices
BY DEF Devices

LEMMA JudgeTypes ==
  ASSUME MissionTypes, NEW r \in Requests, NEW garbage, Judge(r, garbage)
  PROVE  MissionTypes'
<1>1. CASE Assign(r, Ugvs, "UGV_EXECUTING")
  BY <1>1, AssignTypes, KindsAreDevices
<1>2. CASE /\ phase' = [phase EXCEPT ![r] = "COMPLETED"]
           /\ UNCHANGED <<pending, work_state, reported, displaced>>
  BY <1>2 DEF MissionTypes, Phases
<1> QED BY <1>1, <1>2 DEF Judge, JudgeAnyPhase

LEMMA ChatTypes ==
  ASSUME TypeOK, NEW r \in Requests, NEW parsed, Chat(r, parsed)
  PROVE  TypeOK'
<1>1. /\ finite' = [finite EXCEPT ![r] = parsed # "infinite"]
      /\ UNCHANGED <<auto_confirm, confirm, registry, ws_clients, conn>>
  BY DEF Chat
<1>2. CASE chat' = [chat EXCEPT ![r] = "refused"] /\ UNCHANGED <<missionVars, sending>>
  <2>1. MissionTypes' /\ DeskTypes'
    BY <1>2, TypeSplit DEF MissionTypes, DeskTypes, missionVars
  <2> QED BY <1>1, <2>1, TypeSplit DEF OtherTypes
<1>3. CASE /\ Assign(r, Uavs, "UAV_INSPECTING")
           /\ Broadcast(r, parsed # "infinite",
                        IF phase'[r] = "FAILED" THEN "announcing" ELSE "accepting", ws_clients)
  <2>1. MissionTypes'
    BY <1>3, AssignTypes, KindsAreDevices, TypeSplit
  <2>2. DeskTypes'
    BY <1>3, BroadcastFacts, TypeSplit DEF OtherTypes
  <2> QED BY <1>1, <2>1, <2>2, TypeSplit DEF OtherTypes
<1> QED BY <1>2, <1>3 DEF Chat

LEMMA TypesKept ==
  ASSUME TypeOK, [Next]_vars
  PROVE  TypeOK'
<1> USE DEF missionVars, deskVars, streamVars
<1>1. CASE UNCHANGED vars
  BY <1>1 DEF vars, TypeOK
<1>2. ASSUME NEW r \in Requests, NEW parsed \in Parsed, Chat(r, parsed)
      PROVE  TypeOK'
  BY <1>2, ChatTypes
<1>3. ASSUME NEW j \in Senders, TellNext(j)
      PROVE  TypeOK'
  <2>1. DeskTypes' /\ ws_clients' \subseteq Clients
    BY <1>3, TellFacts, TypeSplit DEF OtherTypes
  <2> QED BY <1>3, <2>1, TypeSplit DEF OtherTypes, TellNext, MissionTypes
<1>4. ASSUME NEW c \in Clients, Join(c) \/ Hangup(c) \/ EndEvents(c)
      PROVE  TypeOK'
  BY <1>4 DEF Join, Hangup, EndEvents, TypeOK
<1>5. ASSUME NEW d \in Devices, Heartbeat(d)
      PROVE  TypeOK'
  <2>1. "heartbeat" \in Senders
    BY DEF Senders
  <2>2. \A c \in ws_clients : Sending(ws_clients, c) \in Broadcasts
    BY DEF TypeOK, Sending, Broadcasts
  <2>3. DeskTypes'
    BY <1>5, <2>1, <2>2, TypeSplit DEF Heartbeat, DeskTypes, OtherTypes
  <2>4. MissionTypes' /\ registry' \in [Devices -> {"IDLE", "EXECUTING", "RETURNING"}]
    BY <1>5, TypeSplit DEF Heartbeat, MissionTypes, OtherTypes
  <2> QED BY <1>5, <2>3, <2>4, TypeSplit DEF OtherTypes, Heartbeat
<1>6. ASSUME NEW d \in Devices, SendImage(d)
      PROVE  TypeOK'
  <2>1. pending[d] \in Tasks /\ pending[d].mission \in Requests
    BY <1>6 DEF SendImage, Unfinished, TypeOK, Tasks
  <2>2. [pending[d] EXCEPT !.image_sent = TRUE] \in Tasks
    BY <2>1 DEF Tasks
  <2>3. MissionTypes'
    BY <1>6, <2>1, <2>2, TypeSplit DEF SendImage, StateAfterImage, MissionTypes, Phases
  <2>4. confirm' \in {None} \cup Requests
    BY <1>6, <2>1 DEF SendImage
  <2> QED BY <1>6, <2>3, <2>4, TypeSplit DEF OtherTypes, SendImage, DeskTypes
<1>7. ASSUME NEW d \in Devices, Finish(d)
      PROVE  TypeOK'
  <2>1. pending[d].mission \in Requests
    BY <1>7 DEF Finish, TypeOK, Tasks
  <2>2. MissionTypes'
    BY <1>7, <2>1, TypeSplit DEF Finish, MissionTypes, Phases
  <2> QED BY <1>7, <2>2, TypeSplit DEF OtherTypes, Finish, DeskTypes
<1>8. CASE AutoConfirm
  <2>1. confirm \in Requests
    BY <1>8 DEF AutoConfirm, TypeOK
  <2>2. MissionTypes'
    BY <1>8, <2>1, JudgeTypes, TypeSplit DEF AutoConfirm, MissionTypes
  <2> QED BY <1>8, <2>2, TypeSplit DEF OtherTypes, AutoConfirm, DeskTypes
<1>9. ASSUME NEW r \in Requests, NEW garbage \in BOOLEAN, Verdict(r, garbage)
      PROVE  TypeOK'
  <2>1. MissionTypes'
    BY <1>9, JudgeTypes, TypeSplit DEF Verdict
  <2> QED BY <1>9, <2>1, TypeSplit DEF OtherTypes, Verdict, DeskTypes
<1> QED BY <1>1, <1>2, <1>3, <1>4, <1>5, <1>6, <1>7, <1>8, <1>9 DEF Next

-----------------------------------------------------------------------------
(* Missions and devices agree                                              *)

\* An assignment leaves every other mission and device as it was.
LEMMA AssignIsLocal ==
  ASSUME MissionTypes, NewIsUnknown, BusyIsKnown, NEW r \in Requests, chat'[r] # "new",
         NEW kind \in SUBSET Devices, NEW accepted, Assign(r, kind, accepted),
         \A q \in Requests : chat'[q] = "new" => chat[q] = "new",
         UNCHANGED registry
  PROVE  NewIsUnknown' /\ BusyIsKnown'
<1>1. CASE /\ phase' = [phase EXCEPT ![r] = "FAILED"]
           /\ UNCHANGED <<pending, work_state, reported, displaced>>
  BY <1>1 DEF NewIsUnknown, BusyIsKnown, MissionTypes
<1>2. ASSUME NEW d \in kind,
             pending' = [pending EXCEPT ![d] = [mission |-> r, image_sent |-> FALSE]],
             work_state' = [work_state EXCEPT ![d] = "EXECUTING"],
             reported' = [reported EXCEPT ![d] = FALSE],
             phase' = [phase EXCEPT ![r] = accepted]
      PROVE  NewIsUnknown' /\ BusyIsKnown'
  BY <1>2 DEF NewIsUnknown, BusyIsKnown, MissionTypes
<1> QED BY <1>1, <1>2, AssignFacts

LEMMA JudgeKeeps ==
  ASSUME TypeOK, Bound, NewIsUnknown, BusyIsKnown, NEW r \in Requests, NEW garbage,
         Judge(r, garbage), UNCHANGED <<chat, registry>>
  PROVE  Bound' /\ NewIsUnknown' /\ BusyIsKnown'
<1>1. phase[r] = "AWAITING_CONFIRM" /\ MissionTypes
  BY TypeSplit DEF Judge
<1>2. chat[r] # "new"
  BY <1>1, DemoAssumption DEF NewIsUnknown, Phases
<1>3. \A d \in Devices : Unfinished(d) => pending[d].mission # r
  BY <1>1 DEF Bound, WorksForMission
<1>4. CASE Assign(r, Ugvs, "UGV_EXECUTING")
  <2>1. Bound'
    BY <1>1, <1>3, <1>4, AssignBinds
  <2>2. NewIsUnknown' /\ BusyIsKnown'
    BY <1>1, <1>2, <1>4, AssignIsLocal, KindsAreDevices
  <2> QED BY <2>1, <2>2
<1>5. CASE /\ phase' = [phase EXCEPT ![r] = "COMPLETED"]
           /\ UNCHANGED <<pending, work_state, reported, displaced>>
  <2>1. \A d \in Devices : Unfinished(d)' <=> Unfinished(d)
    BY <1>5 DEF Unfinished
  <2>2. phase'[r] = "COMPLETED" /\ \A q \in Requests : q # r => phase'[q] = phase[q]
    BY <1>1, <1>5 DEF MissionTypes
  <2>3. \A d \in Devices : Unfinished(d) => pending[d].mission \in Requests
    BY <1>1 DEF MissionTypes, Unfinished, Tasks
  <2>4. OneDevice' /\ PickupHasNoImage' /\ BusyIsKnown'
    BY <1>5, <2>1 DEF Bound, OneDevice, PickupHasNoImage, BusyIsKnown
  <2>5. WorksForMission'
    BY <1>3, <1>5, <2>1, <2>2, <2>3 DEF Bound, WorksForMission
  <2>6. Served'
    BY <1>5, <2>1, <2>2 DEF Bound, Served, Waits, Devices
  <2>7. NewIsUnknown'
    BY <1>2, <1>5, <2>2 DEF NewIsUnknown
  <2> QED BY <2>4, <2>5, <2>6, <2>7 DEF Bound
<1> QED BY <1>4, <1>5 DEF Judge, JudgeAnyPhase

LEMMA ChatKeeps ==
  ASSUME TypeOK, Consistent, NEW r \in Requests, NEW parsed, Chat(r, parsed)
  PROVE  Consistent'
<1>1. chat[r] = "new" /\ UNCHANGED <<auto_confirm, confirm, registry>>
  BY DEF Chat
<1>2. MissionTypes /\ DeskTypes /\ OtherTypes /\ Bound /\ NewIsUnknown /\ BusyIsKnown
  BY TypeSplit DEF Consistent, Bound
<1>3. CASE chat' = [chat EXCEPT ![r] = "refused"] /\ UNCHANGED missionVars
  <2>1. NewIsUnknown'
    BY <1>2, <1>3 DEF NewIsUnknown, DeskTypes, missionVars
  <2> QED
    BY <1>1, <1>3, <2>1 DEF Consistent, missionVars, BusyIsKnown, OneDevice,
         PickupHasNoImage, WorksForMission, Served, Waits, Confirming, Unfinished
<1>4. CASE /\ Assign(r, Uavs, "UAV_INSPECTING")
           /\ Broadcast(r, parsed # "infinite",
                        IF phase'[r] = "FAILED" THEN "announcing" ELSE "accepting", ws_clients)
  <2>1. \A d \in Devices : Unfinished(d) => pending[d].mission # r
    BY <1>1, <1>2 DEF NewIsUnknown, Unfinished
  <2>2. Bound'
    BY <1>2, <1>4, <2>1, AssignBinds
  <2>3. \A q \in Requests : chat'[q] = "new" => chat[q] = "new" /\ q # r
    BY <1>2, <1>4, BroadcastFacts DEF OtherTypes
  <2>4. NewIsUnknown' /\ BusyIsKnown'
    BY <1>1, <1>2, <1>4, <2>3, AssignIsLocal, KindsAreDevices
  <2>5. \A q \in Requests : phase'[q] = "AWAITING_CONFIRM" => phase[q] = "AWAITING_CONFIRM"
    BY <1>2, <1>4, AssignFacts DEF MissionTypes
  <2>6. Confirming'
    BY <1>1, <2>5 DEF Consistent, Confirming
  <2> QED BY <2>2, <2>4, <2>6 DEF Consistent, Bound
<1> QED BY <1>3, <1>4 DEF Chat

LEMMA SendImageKeeps ==
  ASSUME TypeOK, Consistent, NEW d \in Devices, SendImage(d)
  PROVE  Consistent'
<1> DEFINE m == pending[d].mission
<1>1. /\ d \in Uavs /\ d \notin Ugvs /\ Unfinished(d) /\ m \in Requests /\ pending[d] \in Tasks
      /\ MissionTypes
  BY TypeSplit, DemoAssumption DEF SendImage, MissionTypes, Unfinished, Tasks
<1>2. phase[m] = "UAV_INSPECTING"
  BY <1>1 DEF Consistent, WorksForMission
<1>3. /\ phase'[m] = "AWAITING_CONFIRM"
      /\ \A q \in Requests : q # m => phase'[q] = phase[q]
  BY <1>1, <1>2 DEF SendImage, MissionTypes
<1>4. /\ pending'[d].mission = m /\ pending'[d].image_sent
      /\ \A e \in Devices : e # d => pending'[e] = pending[e]
  BY <1>1 DEF SendImage, MissionTypes, Tasks
<1>5. /\ ~Unfinished(d)'
      /\ \A e \in Devices : e # d => (Unfinished(e)' <=> Unfinished(e))
      /\ \A e \in Devices : e # d /\ Unfinished(e) => pending[e].mission # m
  BY <1>1, <1>4 DEF Unfinished, Consistent, OneDevice
<1>6. UNCHANGED <<auto_confirm, registry, reported, displaced, chat>>
  BY DEF SendImage, deskVars
<1>7. NewIsUnknown'
  <2>1. chat[m] # "new"
    BY <1>1 DEF Consistent, NewIsUnknown, Unfinished
  <2> QED BY <1>1, <1>3, <1>4, <1>6, <2>1 DEF Consistent, NewIsUnknown, Unfinished
<1>8. BusyIsKnown'
  BY <1>1, <1>4, <1>6 DEF SendImage, StateAfterImage, Consistent, BusyIsKnown, MissionTypes, Unfinished
<1>9. OneDevice' /\ PickupHasNoImage'
  BY <1>1, <1>4, <1>5 DEF Consistent, OneDevice, PickupHasNoImage, Devices
<1>10. WorksForMission'
  BY <1>1, <1>3, <1>4, <1>5 DEF Consistent, WorksForMission, MissionTypes, Unfinished, Tasks
<1>11. Served'
  <2> SUFFICES ASSUME NEW q \in Requests, phase'[q] \in {"UAV_INSPECTING", "UGV_EXECUTING"},
                      q \notin displaced'
               PROVE  \E e \in Waits(q)' : Unfinished(e)' /\ pending'[e].mission = q
    BY DEF Served
  <2>1. q # m /\ phase[q] = phase'[q] /\ Waits(q)' = Waits(q) /\ q \notin displaced
    BY <1>3, <1>6 DEF Waits
  <2>2. PICK e \in Waits(q) : Unfinished(e) /\ pending[e].mission = q
    BY <2>1 DEF Consistent, Served
  <2>3. e # d /\ e \in Devices
    BY <2>1, <2>2 DEF Waits, Devices
  <2> QED BY <1>4, <1>5, <2>1, <2>2, <2>3
<1>12. Confirming'
  BY <1>3, <1>6, DemoAssumption DEF SendImage, Consistent, Confirming
<1> QED BY <1>7, <1>8, <1>9, <1>10, <1>11, <1>12 DEF Consistent

LEMMA FinishKeeps ==
  ASSUME TypeOK, Consistent, NEW d \in Devices, Finish(d)
  PROVE  Consistent'
<1> DEFINE m == pending[d].mission
<1>1. /\ pending[d] # None /\ m \in Requests /\ MissionTypes
      /\ d \in Uavs => pending[d].image_sent
      /\ d \in Ugvs => Unfinished(d)
  BY TypeSplit DEF Finish, MissionTypes, Unfinished, Tasks, Consistent, PickupHasNoImage
<1>2. /\ pending'[d] = None
      /\ \A e \in Devices : e # d => pending'[e] = pending[e]
      /\ ~Unfinished(d)'
      /\ \A e \in Devices : e # d => (Unfinished(e)' <=> Unfinished(e))
  BY <1>1 DEF Finish, MissionTypes, Unfinished
<1>3. UNCHANGED <<auto_confirm, confirm, registry, displaced, chat>>
  BY DEF Finish, deskVars
<1>4. \A q \in Requests : phase'[q] # phase[q] =>
        q = m /\ d \in Ugvs /\ phase'[q] = "COMPLETED"
  BY <1>1 DEF Finish, MissionTypes
<1>5. NewIsUnknown'
  <2>1. chat[m] # "new"
    BY <1>1 DEF Consistent, NewIsUnknown
  <2> QED BY <1>2, <1>3, <1>4, <2>1 DEF Consistent, NewIsUnknown
<1>6. BusyIsKnown'
  BY <1>1, <1>2, <1>3 DEF Finish, Consistent, BusyIsKnown, MissionTypes
<1>7. OneDevice' /\ PickupHasNoImage'
  BY <1>2 DEF Consistent, OneDevice, PickupHasNoImage, Devices
<1>8. WorksForMission'
  <2> SUFFICES ASSUME NEW e \in Devices, Unfinished(e)'
               PROVE  phase'[pending'[e].mission] = IF e \in Uavs THEN "UAV_INSPECTING" ELSE "UGV_EXECUTING"
    BY DEF WorksForMission
  <2>1. e # d /\ pending'[e] = pending[e] /\ Unfinished(e) /\ pending[e].mission \in Requests
    BY <1>1, <1>2 DEF MissionTypes, Unfinished, Tasks
  <2>2. d \in Ugvs => pending[e].mission # m
    BY <1>1, <2>1 DEF Consistent, OneDevice
  <2> QED BY <1>4, <2>1, <2>2 DEF Consistent, WorksForMission
<1>9. Served'
  <2> SUFFICES ASSUME NEW q \in Requests, phase'[q] \in {"UAV_INSPECTING", "UGV_EXECUTING"},
                      q \notin displaced'
               PROVE  \E e \in Waits(q)' : Unfinished(e)' /\ pending'[e].mission = q
    BY DEF Served
  <2>1. phase[q] = phase'[q] /\ Waits(q)' = Waits(q) /\ q \notin displaced
    BY <1>3, <1>4 DEF Waits
  <2>2. PICK e \in Waits(q) : Unfinished(e) /\ pending[e].mission = q
    BY <2>1 DEF Consistent, Served
  <2>3. e \in Devices
    BY <2>2 DEF Waits, Devices
  <2>4. e # d
    <3>1. CASE d \in Uavs
      BY <1>1, <2>2, <3>1 DEF Unfinished
    <3>2. CASE d \in Ugvs
      <4>1. Unfinished(d)
        BY <1>1, <3>2
      <4>2. phase[m] = "UGV_EXECUTING"
        BY <3>2, <4>1, DemoAssumption DEF Consistent, WorksForMission
      <4>3. phase'[m] = "COMPLETED"
        BY <1>1, <3>2, <4>2 DEF Finish, PickupDone, MissionTypes
      <4> QED BY <2>1, <2>2, <4>2, <4>3
    <3> QED BY <3>1, <3>2 DEF Devices
  <2> QED BY <1>2, <2>1, <2>2, <2>3, <2>4
<1>10. Confirming'
  BY <1>3, <1>4 DEF Consistent, Confirming
<1> QED BY <1>5, <1>6, <1>7, <1>8, <1>9, <1>10 DEF Consistent

\* A verdict ends the wait for a verdict.
LEMMA JudgeEnds ==
  ASSUME MissionTypes, NEW r \in Requests, NEW garbage, Judge(r, garbage)
  PROVE  \A q \in Requests : phase'[q] = "AWAITING_CONFIRM" => phase[q] = "AWAITING_CONFIRM" /\ q # r
<1>1. CASE Assign(r, Ugvs, "UGV_EXECUTING")
  BY <1>1, AssignFacts DEF MissionTypes
<1>2. CASE phase' = [phase EXCEPT ![r] = "COMPLETED"]
  BY <1>2 DEF MissionTypes
<1> QED BY <1>1, <1>2 DEF Judge, JudgeAnyPhase

LEMMA VerdictKeeps ==
  ASSUME TypeOK, Consistent, NEW r \in Requests, NEW garbage, Verdict(r, garbage)
  PROVE  Consistent'
<1>1. Bound' /\ NewIsUnknown' /\ BusyIsKnown'
  BY JudgeKeeps DEF Verdict, deskVars, Consistent, Bound
<1>2. Confirming'
  BY JudgeEnds, TypeSplit DEF Verdict, Consistent, Confirming
<1> QED BY <1>1, <1>2 DEF Consistent, Bound

LEMMA AutoConfirmKeeps ==
  ASSUME TypeOK, Consistent, AutoConfirm
  PROVE  Consistent'
<1>1. confirm \in Requests /\ MissionTypes /\ UNCHANGED <<auto_confirm, registry, chat>>
  BY TypeSplit DEF AutoConfirm, OtherTypes, deskVars
<1>2. CASE Judge(confirm, TRUE)
  <2>1. Bound' /\ NewIsUnknown' /\ BusyIsKnown'
    BY <1>1, <1>2, JudgeKeeps DEF Consistent, Bound
  <2>2. \A q \in Requests : phase'[q] = "AWAITING_CONFIRM" => phase[q] = "AWAITING_CONFIRM" /\ q # confirm
    BY <1>1, <1>2, JudgeEnds
  <2>3. Confirming'
    BY <1>1, <2>2 DEF Consistent, Confirming
  <2> QED BY <2>1, <2>3 DEF Consistent, Bound
<1>3. CASE phase[confirm] # "AWAITING_CONFIRM" /\ UNCHANGED missionVars
  <2>1. Confirming'
    BY <1>1, <1>3 DEF Consistent, Confirming, missionVars
  <2> QED
    BY <1>1, <1>3, <2>1 DEF Consistent, missionVars, NewIsUnknown, BusyIsKnown, OneDevice,
         PickupHasNoImage, WorksForMission, Served, Waits, Unfinished
<1> QED BY <1>2, <1>3 DEF AutoConfirm

\* What leaves missions and devices alone and makes no request new.
LEMMA ElsewhereKeeps ==
  ASSUME Consistent, UNCHANGED <<phase, pending, work_state, displaced, auto_confirm, confirm>>,
         \A q \in Requests : chat'[q] = "new" => chat[q] = "new",
         BusyIsKnown'
  PROVE  Consistent'
BY DEF Consistent, NewIsUnknown, OneDevice, PickupHasNoImage, WorksForMission,
     Served, Waits, Confirming, Unfinished

LEMMA StepKeeps ==
  ASSUME TypeOK, Consistent, [Next]_vars
  PROVE  Consistent'
<1> USE DEF missionVars, deskVars, streamVars
<1>1. CASE UNCHANGED vars
  <2>1. BusyIsKnown'
    BY <1>1 DEF vars, Consistent, BusyIsKnown
  <2> QED BY <1>1, <2>1, ElsewhereKeeps DEF vars
<1>2. ASSUME NEW r \in Requests, NEW parsed \in Parsed, Chat(r, parsed)
      PROVE  Consistent'
  BY <1>2, ChatKeeps
<1>3. ASSUME NEW j \in Senders, TellNext(j)
      PROVE  Consistent'
  <2>1. \A q \in Requests : chat'[q] = "new" => chat[q] = "new"
    BY <1>3, TellFacts, TypeSplit DEF OtherTypes
  <2>2. UNCHANGED <<auto_confirm, confirm, registry, missionVars>>
    BY <1>3 DEF TellNext
  <2>3. BusyIsKnown'
    BY <2>2 DEF Consistent, BusyIsKnown
  <2> QED BY <2>1, <2>2, <2>3, ElsewhereKeeps
<1>4. ASSUME NEW c \in Clients, Join(c) \/ Hangup(c) \/ EndEvents(c)
      PROVE  Consistent'
  <2>1. UNCHANGED <<auto_confirm, confirm, registry, missionVars, chat>>
    BY <1>4 DEF Join, Hangup, EndEvents
  <2>2. BusyIsKnown'
    BY <2>1 DEF Consistent, BusyIsKnown
  <2> QED BY <2>1, <2>2, ElsewhereKeeps
<1>5. ASSUME NEW d \in Devices, Heartbeat(d)
      PROVE  Consistent'
  <2>1. UNCHANGED <<phase, pending, work_state, displaced, auto_confirm, confirm, chat>>
    BY <1>5 DEF Heartbeat
  <2>2. BusyIsKnown'
    BY <1>5, TypeSplit DEF Heartbeat, Consistent, BusyIsKnown, MissionTypes, OtherTypes
  <2> QED BY <2>1, <2>2, ElsewhereKeeps
<1>6. ASSUME NEW d \in Devices, SendImage(d)
      PROVE  Consistent'
  BY <1>6, SendImageKeeps
<1>7. ASSUME NEW d \in Devices, Finish(d)
      PROVE  Consistent'
  BY <1>7, FinishKeeps
<1>8. CASE AutoConfirm
  BY <1>8, AutoConfirmKeeps
<1>9. ASSUME NEW r \in Requests, NEW garbage \in BOOLEAN, Verdict(r, garbage)
      PROVE  Consistent'
  BY <1>9, VerdictKeeps
<1> QED BY <1>1, <1>2, <1>3, <1>4, <1>5, <1>6, <1>7, <1>8, <1>9 DEF Next

LEMMA InitConsistent == Init => TypeOK /\ Consistent
<1> SUFFICES ASSUME Init PROVE TypeOK /\ Consistent
  OBVIOUS
<1>1. TypeOK
  BY DEF Init, TypeOK
<1>2. \A r \in Requests : phase[r] = None /\ phase[r] \notin Phases
  BY DemoAssumption DEF Init
<1>3. \A d \in Devices : pending[d] = None /\ ~Unfinished(d)
  BY DEF Init, Unfinished
<1>4. NewIsUnknown /\ BusyIsKnown /\ OneDevice /\ PickupHasNoImage /\ WorksForMission
  BY <1>2, <1>3 DEF NewIsUnknown, BusyIsKnown, OneDevice, PickupHasNoImage, WorksForMission, Devices
<1>5. Served /\ Confirming
  BY <1>2 DEF Served, Confirming, Phases
<1> QED BY <1>1, <1>4, <1>5 DEF Consistent

-----------------------------------------------------------------------------
(* Theorems                                                                *)

\* The types of the master and its scripted devices.
THEOREM TypeCorrect == Spec => []TypeOK
<1>1. Init => TypeOK
  BY InitConsistent
<1>2. TypeOK /\ [Next]_vars => TypeOK'
  BY TypesKept
<1> QED BY <1>1, <1>2, PTL DEF Spec

LEMMA Invariance == Spec => []Consistent
<1>1. Init => Consistent
  BY InitConsistent
<1>2. TypeOK /\ Consistent /\ [Next]_vars => Consistent'
  BY StepKeeps
<1> QED BY <1>1, <1>2, TypeCorrect, PTL DEF Spec

\* A device with a task that has sent a heartbeat since it got it is not taken
\* for free, so a task is displaced in the second before that heartbeat only.
THEOREM BusyIsNotFree == Spec => []BusyOnceReported
<1>1. Consistent => BusyOnceReported
  BY DEF Consistent, BusyIsKnown, BusyOnceReported, Available
<1> QED BY <1>1, Invariance, PTL

\* A device at work works for a mission that waits for it, whoever judged its
\* picture and in whatever order the verdicts came.
THEOREM WorkIsWanted == Spec => []WorksForMission
<1>1. Consistent => WorksForMission
  BY DEF Consistent
<1> QED BY <1>1, Invariance, PTL

\* The other way round: a mission that waits for a device has one at work, unless
\* its task was displaced.  This is why every other mission ends.
THEOREM WaitingIsServed == Spec => []Served
<1>1. Consistent => Served
  BY DEF Consistent
<1> QED BY <1>1, Invariance, PTL

\* With auto_confirm the verdict on every picture is under way, of one mission at
\* a time: drive_tasks sends no second picture before it has judged the first.
THEOREM VerdictUnderWay == Spec => []Confirming
<1>1. Consistent => Confirming
  BY DEF Consistent
<1> QED BY <1>1, Invariance, PTL

\* A mission that has ended stays as it ended: no verdict, picture or report that
\* comes later revives it (main.py:101, mission_fsm.py:115).
THEOREM EndedIsFinal == Spec => NeverRevived
<1>1. TypeOK /\ Consistent /\ Next => EndedStays
  <2> SUFFICES ASSUME TypeOK, Consistent, Next, NEW q \in Requests, phase[q] \in {"COMPLETED", "FAILED"}
               PROVE  phase'[q] = phase[q]
    BY DEF EndedStays
  <2>1. MissionTypes
    BY TypeSplit
  <2>2. ASSUME NEW r \in Requests, NEW garbage, Judge(r, garbage)
        PROVE  phase'[q] = phase[q]
    <3>1. q # r
      BY <2>2 DEF Judge
    <3> QED BY <2>1, <2>2, <3>1, AssignFacts DEF Judge, JudgeAnyPhase, MissionTypes
  <2>3. ASSUME NEW r \in Requests, NEW parsed \in Parsed, Chat(r, parsed)
        PROVE  phase'[q] = phase[q]
    <3>1. q # r
      BY <2>3, DemoAssumption DEF Chat, Consistent, NewIsUnknown, Phases
    <3> QED BY <2>1, <2>3, <3>1, AssignFacts DEF Chat, missionVars, MissionTypes
  <2>4. ASSUME NEW d \in Devices, SendImage(d) \/ Finish(d)
        PROVE  phase'[q] = phase[q]
    BY <2>1, <2>4 DEF SendImage, Finish, PickupDone, MissionTypes, Unfinished, Tasks
  <2>5. CASE AutoConfirm
    BY <2>2, <2>5, TypeSplit DEF AutoConfirm, OtherTypes, missionVars
  <2> QED
    BY <2>2, <2>3, <2>4, <2>5 DEF Next, Verdict, TellNext, Join, Hangup, EndEvents, Heartbeat, missionVars
<1> QED BY <1>1, TypeCorrect, Invariance, PTL DEF Spec, NeverRevived

\* A dashboard that is connected is among those the next broadcast serves, and one
\* whose handler has ended is not: neither a broadcast that finds others gone nor
\* their own handlers take out the wrong one.  (One that went before its hello has
\* no handler, and stays until a broadcast finds it gone.)
Listening ==
  \A c \in Clients :
    /\ conn[c] = "open" => c \in ws_clients
    /\ c \in ws_clients => conn[c] \in {"open", "closing", "leaked"}

THEOREM ListenersKept == Spec => []Listening
<1>1. Init => Listening
  BY DEF Init, Listening
<1>2. TypeOK /\ Listening /\ [Next]_vars => Listening'
  <2> SUFFICES ASSUME TypeOK, Listening, [Next]_vars
               PROVE  Listening'
    OBVIOUS
  <2>1. ASSUME NEW j \in Senders, TellNext(j)
        PROVE  Listening'
    <3>1. conn' = conn
      BY <2>1 DEF TellNext
    <3>2. ASSUME NEW dead \in Dead(sending[j].told), ws_clients' = Remaining(dead)
          PROVE  Listening'
      BY <3>1, <3>2 DEF Dead, Remaining, Closed, Listening
    <3> QED BY <2>1, <3>1, <3>2 DEF TellNext, Listening
  <2>2. ASSUME NEW c \in Clients, Join(c) \/ Hangup(c) \/ EndEvents(c)
        PROVE  Listening'
    BY <2>2 DEF Join, Hangup, EndEvents, Listening, TypeOK
  <2>3. CASE UNCHANGED <<conn, ws_clients>>
    BY <2>3 DEF Listening
  <2> QED
    BY <2>1, <2>2, <2>3 DEF Next, Chat, Verdict, Heartbeat, SendImage, Finish, AutoConfirm,
         streamVars, vars
<1> QED BY <1>1, <1>2, TypeCorrect, PTL DEF Spec

=============================================================================
