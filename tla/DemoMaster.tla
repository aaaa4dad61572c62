----------------------------- MODULE DemoMaster -----------------------------
(***************************************************************************)
(* The master agent as `python main.py --demo` runs it: the chat endpoint  *)
(* with its parser, the stream of events to the dashboards (server.py),    *)
(* the scripted devices (main.run_demo) and as much of the registry, the   *)
(* scheduler and the state machine as these reach (MissionFsm models the   *)
(* state machine with real devices).                                       *)
(*                                                                         *)
(* All of it is one asyncio process: a step runs to the next await that    *)
(* can suspend, and only sending to a dashboard, the sleeps of the demo    *)
(* and the arrival of requests can.  bus.publish awaits its handlers one   *)
(* after the other, so the sender of an event is held up by broadcast.     *)
(* Broadcasts of drive_tasks and of the verdict are left out, except that  *)
(* the former suspend before auto_confirm: they do to ws_clients what the  *)
(* broadcasts of the heartbeat do.                                         *)
(***************************************************************************)
EXTENDS FiniteSets, Naturals

CONSTANTS
  Uavs, Ugvs,   \* _DEMO_AGENTS
  Requests,     \* calls of /api/chat, each with the mission it creates
  Clients,      \* WebSocket objects of /ws/events: a dashboard that connects
                \* again has a new one
  Texts,        \* what the users' texts hold
  None

Devices == Uavs \cup Ugvs

\* Two numbers with a comma between them, two that are so long that float()
\* makes them infinite, two without a comma, or none.
TextKinds == {"pair", "overlong", "loose", "none"}

\* The phases of a mission that the scripted devices let be seen, and the task of
\* a device.
Phases == {"UAV_INSPECTING", "AWAITING_CONFIRM", "UGV_EXECUTING", "COMPLETED", "FAILED"}

Tasks == [mission : Requests, image_sent : BOOLEAN]

ASSUME DemoAssumption ==
  /\ Texts \subseteq TextKinds
  /\ Uavs \cap Ugvs = {}
  /\ None \notin Requests /\ None \notin Phases /\ None \notin Tasks
  /\ "heartbeat" \notin Requests

VARIABLES
  auto_confirm,  \* the command line option
  chat,          \* how far a chat request is, and what it was answered
  phase,         \* Mission.phase, None when there is no mission
  finite,        \* the target's coordinates are finite
  pending,       \* the task of every scripted device
  work_state,    \* states[d]["work_state"]
  registry,      \* the work state the registry has for the device
  confirm,       \* drive_tasks is about to confirm the image of this mission
  ws_clients,    \* MasterAgentServer.ws_clients
  conn,          \* life of every WebSocket
  sending,       \* broadcasts under way, by the one who waits for them
  reported,      \* history: the device has sent a heartbeat since its assignment
  displaced      \* history: missions whose unfinished task was overwritten

missionVars == <<phase, pending, work_state, reported, displaced>>
deskVars == <<chat, finite>>
streamVars == <<ws_clients, conn, sending>>
vars == <<auto_confirm, confirm, registry, missionVars, deskVars, streamVars>>

Senders == Requests \cup {"heartbeat"}

-----------------------------------------------------------------------------
(* parser.py                                                               *)

\* What the language model sent: an object with a mission and an error, or
\* nothing of the kind (no key, a failed request, no JSON, other fields).
Contents ==
  [object  : BOOLEAN,
   mission : {"null", "good", "malformed", "other_type", "other_frame", "infinite"},
   error   : {"null", "NO_COORDINATE", "malformed", "other_code"}]

\* _load_json: the answer, or that it raises.
LoadJson(content) ==
  IF content = [object |-> TRUE, mission |-> "null", error |-> "NO_COORDINATE"]
  THEN "refused"
  ELSE IF content = [object |-> TRUE, mission |-> "good", error |-> "null"]
  THEN "target"
  ELSE "raises"

\* _parse_fallback: a comma between two numbers is all that _COORD_RE matches,
\* and float() of what it matches is not looked at.
ParseFallback(text) ==
  IF text = "pair" THEN "target" ELSE IF text = "overlong" THEN "infinite" ELSE "refused"

Parse(text, content) ==
  IF LoadJson(content) # "raises" THEN LoadJson(content) ELSE ParseFallback(text)

Parsed == {Parse(text, content) : text \in Texts, content \in Contents}

-----------------------------------------------------------------------------
(* The scheduler and the state machine, with the devices of the demo       *)

\* registry.is_available; positions, batteries and capabilities of the demo
\* never change, and which device is nearest depends on the target.
Available(d) == registry[d] \in {"IDLE", "RESERVED"}

\* registry.tick: the devices that have been silent for 5 s, which takes a
\* heartbeat that is held up by a dashboard.
Silent(kind) == IF sending["heartbeat"] = None THEN {{}} ELSE SUBSET kind

\* select_nearest: the devices it chooses from.
Candidates(kind) == {{d \in kind \ silent : Available(d)} : silent \in Silent(kind)}

Unfinished(d) == pending[d] # None /\ ~pending[d].image_sent

\* create_mission and _assign_ugv publish the assignment; on_assignment hands
\* it to the device and answers ACCEPTED before publish returns, so the mission
\* is never seen in UAV_ASSIGNED or UGV_ASSIGNED.
Assign(r, kind, accepted) ==
  \E candidates \in Candidates(kind) :
    \/ \E d \in candidates :
         /\ pending' = [pending EXCEPT ![d] = [mission |-> r, image_sent |-> FALSE]]
         /\ work_state' = [work_state EXCEPT ![d] = "EXECUTING"]
         /\ reported' = [reported EXCEPT ![d] = FALSE]
         /\ phase' = [phase EXCEPT ![r] = accepted]
         /\ displaced' = displaced \cup
              (IF Unfinished(d) THEN {pending[d].mission} ELSE {})
    \/ /\ candidates = {}
       /\ phase' = [phase EXCEPT ![r] = "FAILED"]
       /\ UNCHANGED <<pending, work_state, reported, displaced>>

\* on_inspection_result.  A mistake: the phase is not looked at.
JudgeAnyPhase(r, garbage) ==
  /\ phase[r] # None
  /\ \/ /\ garbage
        /\ Assign(r, Ugvs, "UGV_EXECUTING")
     \/ /\ ~garbage
        /\ phase' = [phase EXCEPT ![r] = "COMPLETED"]
        /\ UNCHANGED <<pending, work_state, reported, displaced>>

Judge(r, garbage) ==
  /\ phase[r] = "AWAITING_CONFIRM"
  /\ JudgeAnyPhase(r, garbage)

-----------------------------------------------------------------------------
(* broadcast and the event stream                                          *)

Closed == {"closing", "leaked"}

\* The first send of a broadcast to the members of `to`.
Sending(to, c) == [start |-> to, told |-> {c}]

\* Whose send raised: those who had gone by then.
Dead(told) ==
  {dead \in SUBSET told :
     /\ \A c \in dead : conn[c] \in Closed
     /\ \A c \in told : conn[c] = "leaked" => c \in dead}

\* The reply of chat; the JSON of an infinite coordinate raises.
Reply(is_finite) == IF is_finite THEN "ok" ELSE "failed"

\* The handler of a chat goes on: it broadcasts the device's ACCEPTED or, in a
\* later stage, mission_created.  Without a dashboard nothing suspends it.
Broadcast(r, is_finite, stage, to) ==
  IF to = {}
  THEN /\ chat' = [chat EXCEPT ![r] = Reply(is_finite)]
       /\ sending' = [sending EXCEPT ![r] = None]
  ELSE /\ chat' = [chat EXCEPT ![r] = stage]
       /\ \E c \in to : sending' = [sending EXCEPT ![r] = Sending(to, c)]

\* chat, up to its first broadcast.
Chat(r, parsed) ==
  /\ chat[r] = "new"
  /\ finite' = [finite EXCEPT ![r] = parsed # "infinite"]
  /\ \/ /\ parsed = "refused"
        /\ chat' = [chat EXCEPT ![r] = "refused"]
        /\ UNCHANGED <<missionVars, sending>>
     \/ /\ parsed # "refused"
        /\ Assign(r, Uavs, "UAV_INSPECTING")
        /\ Broadcast(r, parsed # "infinite",
                     IF phase'[r] = "FAILED" THEN "announcing" ELSE "accepting",
                     ws_clients)
  /\ UNCHANGED <<auto_confirm, confirm, registry, ws_clients, conn>>

\* A broadcast is over: bus.publish swallows what it raised, chat does not.
Over(j, raised, clients) ==
  IF j \notin Requests
  THEN /\ sending' = [sending EXCEPT ![j] = None]
       /\ UNCHANGED chat
  ELSE IF chat[j] = "accepting" THEN Broadcast(j, finite[j], "announcing", clients)
  ELSE /\ sending' = [sending EXCEPT ![j] = None]
       /\ chat' = [chat EXCEPT ![j] = IF raised THEN "failed" ELSE Reply(finite[j])]

\* A mistake: those whose send raised stay.
RemainingAll(dead) == ws_clients

Remaining(dead) == ws_clients \ dead

\* The send in flight has ended and the loop over ws_clients goes on.  A set
\* that has another size raises RuntimeError; one that changed and has the same
\* size again may have been rebuilt, and the iteration may end early.
TellNext(j) ==
  LET b == sending[j] IN
  /\ b # None
  /\ \/ /\ Cardinality(ws_clients) # Cardinality(b.start)
        /\ Over(j, TRUE, ws_clients)
        /\ UNCHANGED ws_clients
     \/ /\ Cardinality(ws_clients) = Cardinality(b.start)
        /\ \E c \in ws_clients \ b.told :
             sending' = [sending EXCEPT ![j].told = @ \cup {c}]
        /\ UNCHANGED <<ws_clients, chat>>
     \/ /\ Cardinality(ws_clients) = Cardinality(b.start)
        /\ ws_clients \subseteq b.told \/ ws_clients # b.start
        /\ \E dead \in Dead(b.told) : ws_clients' = Remaining(dead)
        /\ Over(j, FALSE, ws_clients')
  /\ UNCHANGED <<auto_confirm, confirm, registry, missionVars, finite, conn>>

\* ws_events.  The hello is sent outside the try: a client that has gone by
\* then stays in ws_clients.
Join(c) ==
  /\ conn[c] = "new"
  /\ ws_clients' = ws_clients \cup {c}
  /\ \E life \in {"open", "leaked"} : conn' = [conn EXCEPT ![c] = life]
  /\ UNCHANGED <<auto_confirm, confirm, registry, missionVars, deskVars, sending>>

Hangup(c) ==
  /\ conn[c] = "open"
  /\ conn' = [conn EXCEPT ![c] = "closing"]
  /\ UNCHANGED <<auto_confirm, confirm, registry, missionVars, deskVars,
                 ws_clients, sending>>

\* The client has disconnected, or has sent nothing for 60 s.
EndEvents(c) ==
  /\ conn[c] \in {"open", "closing"}
  /\ conn' = [conn EXCEPT ![c] = "ended"]
  /\ ws_clients' = ws_clients \ {c}
  /\ UNCHANGED <<auto_confirm, confirm, registry, missionVars, deskVars, sending>>

-----------------------------------------------------------------------------
(* run_demo                                                                *)

\* heartbeat: the registry is the first handler, broadcast the second, and the
\* next device waits for both.
Heartbeat(d) ==
  /\ sending["heartbeat"] = None
  /\ registry' = [registry EXCEPT ![d] = work_state[d]]
  /\ reported' = [reported EXCEPT ![d] = pending[d] # None]
  /\ \/ /\ ws_clients = {}
        /\ UNCHANGED sending
     \/ \E c \in ws_clients :
          sending' = [sending EXCEPT !["heartbeat"] = Sending(ws_clients, c)]
  /\ UNCHANGED <<auto_confirm, confirm, phase, pending, work_state, displaced,
                 deskVars, ws_clients, conn>>

\* A mistake: the device that is on its way back is idle.
StateAfterImageIdle == "IDLE"

StateAfterImage == "RETURNING"

\* drive_tasks, a device whose third step has come: the image of an inspection,
\* then its end; a pickup ends at once.
SendImage(d) ==
  /\ confirm = None
  /\ d \in Uavs /\ Unfinished(d)
  /\ LET m == pending[d].mission IN
       /\ phase' = [phase EXCEPT ![m] =
                      IF @ = "UAV_INSPECTING" THEN "AWAITING_CONFIRM" ELSE @]
       /\ confirm' = IF auto_confirm THEN m ELSE None
  /\ pending' = [pending EXCEPT ![d].image_sent = TRUE]
  /\ work_state' = [work_state EXCEPT ![d] = StateAfterImage]
  /\ UNCHANGED <<auto_confirm, registry, reported, displaced, deskVars, streamVars>>

\* on_feedback, COMPLETED of a pickup.  A mistake: a pickup that was accepted
\* does not count.
PickupDoneUnlessAccepted(before) == before = "UGV_ASSIGNED"

PickupDone(before) == before \in {"UGV_ASSIGNED", "UGV_EXECUTING"}

Finish(d) ==
  /\ confirm = None
  /\ pending[d] # None
  /\ d \in Uavs => pending[d].image_sent
  /\ phase' = [phase EXCEPT ![pending[d].mission] =
                 IF d \in Ugvs /\ PickupDone(@) THEN "COMPLETED" ELSE @]
  /\ pending' = [pending EXCEPT ![d] = None]
  /\ work_state' = [work_state EXCEPT ![d] = "IDLE"]
  /\ reported' = [reported EXCEPT ![d] = FALSE]
  /\ UNCHANGED <<auto_confirm, confirm, registry, displaced, deskVars, streamVars>>

\* The publication of the image has returned: on_inspection_result(m, True),
\* which does nothing when the operator was faster.
AutoConfirm ==
  /\ confirm # None
  /\ confirm' = None
  /\ \/ Judge(confirm, TRUE)
     \/ /\ phase[confirm] # "AWAITING_CONFIRM"
        /\ UNCHANGED missionVars
  /\ UNCHANGED <<auto_confirm, registry, deskVars, streamVars>>

\* /api/manual/inspection-result.
Verdict(r, garbage) ==
  /\ Judge(r, garbage)
  /\ UNCHANGED <<auto_confirm, confirm, registry, deskVars, streamVars>>

-----------------------------------------------------------------------------
Init ==
  /\ auto_confirm \in BOOLEAN
  /\ chat = [r \in Requests |-> "new"]
  /\ phase = [r \in Requests |-> None]
  /\ finite = [r \in Requests |-> TRUE]
  /\ pending = [d \in Devices |-> None]
  /\ work_state = [d \in Devices |-> "IDLE"]
  /\ registry = [d \in Devices |-> "IDLE"]
  /\ confirm = None
  /\ ws_clients = {}
  /\ conn = [c \in Clients |-> "new"]
  /\ sending = [j \in Senders |-> None]
  /\ reported = [d \in Devices |-> FALSE]
  /\ displaced = {}

Next ==
  \/ \E r \in Requests, parsed \in Parsed : Chat(r, parsed)
  \/ \E j \in Senders : TellNext(j)
  \/ \E c \in Clients : Join(c) \/ Hangup(c) \/ EndEvents(c)
  \/ \E d \in Devices : Heartbeat(d) \/ SendImage(d) \/ Finish(d)
  \/ AutoConfirm
  \/ \E r \in Requests, garbage \in BOOLEAN : Verdict(r, garbage)

\* The loops of the demo go on, a device's turn comes every three seconds, a
\* send ends (uvicorn closes a WebSocket that answers no ping), a closed
\* connection is noticed and somebody judges the images.
Fairness ==
  /\ \A j \in Senders : WF_vars(TellNext(j))
  /\ WF_vars(\E d \in Devices : Heartbeat(d))
  /\ \A d \in Devices : WF_vars(SendImage(d) \/ Finish(d))
  /\ WF_vars(AutoConfirm)
  /\ \A c \in Clients : WF_vars(conn[c] = "closing" /\ EndEvents(c))
  /\ \A r \in Requests : WF_vars(\E garbage \in BOOLEAN : Verdict(r, garbage))

Spec == Init /\ [][Next]_vars /\ Fairness

-----------------------------------------------------------------------------
(* Properties                                                              *)

\* The type invariant.
TypeOK ==
  /\ auto_confirm \in BOOLEAN
  /\ chat \in [Requests -> {"new", "refused", "accepting", "announcing", "ok", "failed"}]
  /\ phase \in [Requests -> {None} \cup Phases]
  /\ finite \in [Requests -> BOOLEAN]
  /\ pending \in [Devices -> {None} \cup Tasks]
  /\ work_state \in [Devices -> {"IDLE", "EXECUTING", "RETURNING"}]
  /\ registry \in [Devices -> {"IDLE", "EXECUTING", "RETURNING"}]
  /\ confirm \in {None} \cup Requests
  /\ ws_clients \subseteq Clients
  /\ conn \in [Clients -> {"new", "open", "closing", "leaked", "ended"}]
  /\ sending \in [Senders -> {None} \cup [start : SUBSET Clients, told : SUBSET Clients]]
  /\ reported \in [Devices -> BOOLEAN]
  /\ displaced \subseteq Requests

\* The registry never shows a device as free that has work and has sent a
\* heartbeat since it got it: a second mission can displace a task only in the
\* second before that heartbeat (main.on_assignment, registry.is_available).
BusyOnceReported ==
  \A d \in Devices : pending[d] # None /\ reported[d] => ~Available(d)

\* A device at work works for a mission that waits for it: of the operator's
\* verdict and the automatic one, made after an await, only one counts
\* (main.py:101, mission_fsm.py:115).
WorksForMission ==
  \A d \in Devices : Unfinished(d) =>
    phase[pending[d].mission] =
      IF d \in Uavs THEN "UAV_INSPECTING" ELSE "UGV_EXECUTING"

\* What a mission in this phase waits for.
Waits(r) ==
  IF phase[r] = "UAV_INSPECTING" THEN Uavs
  ELSE IF phase[r] = "UGV_EXECUTING" THEN Ugvs
  ELSE {}

\* A mission that waits for a device has one at work, unless that was given
\* another task before its first heartbeat: no mission waits for nobody
\* (main.py:102-113, mission_fsm.py:102).
Served ==
  \A r \in Requests : phase[r] \in {"UAV_INSPECTING", "UGV_EXECUTING"} =>
    \/ r \in displaced
    \/ \E d \in Waits(r) : Unfinished(d) /\ pending[d].mission = r

EndedStays ==
  \A r \in Requests : phase[r] \in {"COMPLETED", "FAILED"} => phase'[r] = phase[r]

\* No verdict, picture or report revives a mission that has ended: the phase is
\* looked at after every await (main.py:101, mission_fsm.py:115).
NeverRevived == [][EndedStays]_vars

\* Every mission ends, unless its task was displaced: neither dashboards that
\* come and go nor a broadcast that raises stop the devices of the demo.
MissionsEnd ==
  \A r \in Requests :
    phase[r] # None ~> phase[r] \in {"COMPLETED", "FAILED"} \/ r \in displaced

\* A dashboard that has gone is forgotten, also when it went before its hello:
\* some broadcast finds out (server.py:97-100).
GoneAreForgotten ==
  \A c \in Clients : conn[c] \in Closed ~> c \notin ws_clients

\* Violated.  No task is displaced (scheduler.py:33: the device must be idle).
NoDisplacement == displaced = {}

\* Violated.  A request that is answered with an error has created no mission,
\* so that repeating it is harmless.
FailedMeansNothing ==
  \A r \in Requests : chat[r] = "failed" => phase[r] = None

\* Violated.  As FailedMeansNothing, for finite targets: a dashboard that comes
\* or goes while mission_created is sent makes the request fail.
FailedOnlyByTarget ==
  \A r \in Requests : chat[r] = "failed" => ~finite[r]

\* Violated.  A mission fails for want of a UAV only when none has reported
\* that it is idle: a dashboard that is slow to take a heartbeat
\* holds all of them up, and the registry counts the devices as offline.
FailsOnlyWhenBusy ==
  [][\A r \in Requests :
       phase[r] = None /\ phase'[r] = "FAILED" =>
         \A d \in Uavs : ~Available(d)]_vars

=============================================================================
