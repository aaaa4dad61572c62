------------------------------ MODULE HoverTest ------------------------------
(***************************************************************************)
(* HOVER_TEST on the real vehicle: behaviors/hover_test.py drives          *)
(* FanciInnovRealUAVAdapter, which publishes commands that the flight      *)
(* controller executes later or not at all, and knows the vehicle only by  *)
(* telemetry.  This is the one task the real runner flies.                 *)
(*                                                                         *)
(* Telemetry comes from the ROS 2 reader, from the MAVLink reader or from  *)
(* both (--state-source), each with its own backlog, and RealStateAggregator*)
(* makes one state of them.  Height and armed state are separate messages. *)
(* Both readers date a position when they read it and drop it when it is   *)
(* old; neither dates the armed state.  With MAVLink it counts while any   *)
(* message is recent, with ROS 2 it counts for ever.                       *)
(***************************************************************************)
EXTENDS Naturals, Sequences, Functions

CONSTANT Backlog  \* messages that may wait in a ROS 2 subscription, 10 in the code

ASSUME BacklogAssumption == Backlog \in Nat \ {0}

VARIABLES
  phase,        \* the call of execute that comes next
  airborne,     \* local variable of execute
  work_state,   \* the adapter's work state
  queue,        \* commands published and not executed yet
  confirmed,    \* take-off was published after armed was read as true
  armed,        \* the vehicle's motors are armed
  aloft,        \* the vehicle is in the air
  sources,      \* the readers in use, the other one is a stub that is offline
  backlog,      \* kind -> messages of the ROS 2 topic sent and not read yet
  unread,       \* kind -> last message on the MAVLink connection if it is not read yet
  armed_seen,   \* reader -> last armed state read
  height_seen,  \* reader -> last height read, "none" when older than its timeout
  mav_online    \* the MAVLink reader read a message within its timeout

truth     == <<armed, aloft>>
seen      == <<armed_seen, height_seen, mav_online>>
telemetry == <<backlog, unread, seen>>
control   == <<phase, airborne, work_state, queue, confirmed, sources>>
hvars     == <<control, truth, telemetry>>

Commands == {"ARM", "TAKEOFF", "LAND"}

Phases == {"preflight", "arm", "arm_wait", "take_off", "climb", "land", "descend",
           "failed", "reset", "ok", "over"}

Readers == {"ROS2", "MAVLINK"}

Kinds == {"position", "armed"}

Values(kind) == IF kind = "armed" THEN {"none", "no", "yes"} ELSE {"none", "ground", "high"}

-----------------------------------------------------------------------------
(* RealStateAggregator                                                     *)

Height ==
  IF height_seen["ROS2"] # "none" THEN height_seen["ROS2"] ELSE height_seen["MAVLINK"]

Armed ==
  IF mav_online /\ armed_seen["MAVLINK"] # "none"
  THEN armed_seen["MAVLINK"]
  ELSE armed_seen["ROS2"]

ArmedValid ==
  \/ mav_online /\ armed_seen["MAVLINK"] # "none"
  \/ armed_seen["ROS2"] # "none"

Online == mav_online \/ height_seen["ROS2"] # "none"

-----------------------------------------------------------------------------
(* The adapter                                                             *)

Published(command) == Append(queue, command)

\* publish_command publishes before it spins the node: an exception may come
\* before the command is out or after.
Publish(command, next) ==
  \/ queue' = Published(command) /\ phase' = next
  \/ queue' \in {queue, Published(command)} /\ phase' = "failed"

ArmWaitOverAnyway == TRUE  \* a mistake: one look at the state, whatever it says

ArmWaitOver ==
  \/ Armed = "yes"
  \/ ~ArmedValid

-----------------------------------------------------------------------------
(* execute                                                                 *)

WaitsForEver == FALSE  \* a mistake: the loops have no deadline

\* The else branch of each waiting loop: its deadline has passed.
DeadlinePasses == phase' = "failed"

\* The state must be online and valid, the vehicle idle, charged and not known
\* to be armed.
Preflight ==
  /\ phase = "preflight"
  /\ \/ /\ Online /\ Height # "none" /\ Armed # "yes"
        /\ work_state = "IDLE"
        /\ work_state' = "EXECUTING"
        /\ phase' = "arm"
     \/ phase' = "over" /\ UNCHANGED work_state
  /\ UNCHANGED <<airborne, queue, confirmed, sources, truth, telemetry>>

Arm ==
  /\ phase = "arm"
  /\ Publish("ARM", "arm_wait")
  /\ UNCHANGED <<airborne, work_state, confirmed, sources, truth, telemetry>>

ArmWait ==
  /\ phase = "arm_wait"
  /\ \/ ArmWaitOver /\ phase' = "take_off" /\ confirmed' = (Armed = "yes")
     \/ DeadlinePasses /\ UNCHANGED confirmed
  /\ UNCHANGED <<airborne, work_state, queue, sources, truth, telemetry>>

TakeOff ==
  /\ phase = "take_off"
  /\ Publish("TAKEOFF", "climb")
  /\ airborne' = (phase' = "climb")
  /\ UNCHANGED <<work_state, confirmed, sources, truth, telemetry>>

Climbed == Height = "high"

Climb ==
  /\ phase = "climb"
  /\ \/ Climbed /\ phase' = "land"
     \/ DeadlinePasses
  /\ UNCHANGED <<airborne, work_state, queue, confirmed, sources, truth, telemetry>>

Land ==
  /\ phase = "land"
  /\ Publish("LAND", "descend")
  /\ UNCHANGED <<airborne, work_state, confirmed, sources, truth, telemetry>>

LandedByHeight == Height = "ground"  \* a mistake: armed is not looked at

Landed == Height = "ground" /\ Armed = "no"

Descend ==
  /\ phase = "descend"
  /\ \/ /\ Landed
        /\ airborne' = FALSE
        /\ work_state' = "IDLE"
        /\ phase' = "ok"
     \/ DeadlinePasses /\ UNCHANGED <<airborne, work_state>>
  /\ UNCHANGED <<queue, confirmed, sources, truth, telemetry>>

\* except: a takeover is requested for a vehicle that may be in the air, ...
RequestManualTakeover ==
  /\ phase = "failed"
  /\ work_state' = IF airborne THEN "MANUAL_CONTROL" ELSE work_state
  /\ phase' = "reset"
  /\ UNCHANGED <<airborne, queue, confirmed, sources, truth, telemetry>>

\* ... and then the work state is set to IDLE in any case.
Reset ==
  /\ phase = "reset"
  /\ work_state' = "IDLE"
  /\ phase' = "over"
  /\ UNCHANGED <<airborne, queue, confirmed, sources, truth, telemetry>>

-----------------------------------------------------------------------------
(* The flight controller and the telemetry                                 *)

\* Commands arrive in order; the controller may refuse one.
Controller ==
  /\ queue # <<>>
  /\ queue' = Tail(queue)
  /\ \/ UNCHANGED truth
     \/ Head(queue) = "ARM" /\ armed' = TRUE /\ aloft' = aloft
     \/ Head(queue) = "TAKEOFF" /\ armed /\ aloft' = TRUE /\ armed' = armed
     \/ Head(queue) = "LAND" /\ aloft' = FALSE /\ armed' = armed
  /\ UNCHANGED <<phase, airborne, work_state, confirmed, sources, telemetry>>

\* On the ground the controller disarms by itself.
Disarm ==
  /\ armed /\ ~aloft
  /\ armed' = FALSE
  /\ UNCHANGED <<control, aloft, telemetry>>

\* After its loops execute does not look at the telemetry any more.
Watching == phase \notin {"failed", "reset", "ok", "over"}

\* What a message of a kind may say.  Just after take-off and before touch-down
\* the height still reads as ground.
Reports(kind) ==
  IF kind = "armed" THEN IF armed THEN {"yes"} ELSE {"no"}
  ELSE IF aloft THEN {"ground", "high"} ELSE {"ground"}

\* A message reaches the subscription to /odom_global_001 or /armed_001, which
\* loses its oldest message when it is full.
ReportRos(kind) ==
  /\ Watching /\ "ROS2" \in sources
  /\ \E value \in Reports(kind) :
       LET waiting == backlog[kind]
       IN  backlog' = [backlog EXCEPT ![kind] =
             Append(IF Len(waiting) = Backlog THEN Tail(waiting) ELSE waiting, value)]
  /\ UNCHANGED <<control, truth, unread, seen>>

ReportMavlink(kind) ==
  /\ Watching /\ "MAVLINK" \in sources
  /\ \E value \in Reports(kind) : unread' = [unread EXCEPT ![kind] = value]
  /\ UNCHANGED <<control, truth, backlog, seen>>

-----------------------------------------------------------------------------
(* The readers                                                             *)

\* read_state reads waiting messages in the loops of execute and before it.
ReadsState == phase \in {"preflight", "arm_wait", "climb", "descend"}

Sees(reader, news) ==
  /\ armed_seen' = [armed_seen EXCEPT ![reader] = IF news.armed = "none" THEN @ ELSE news.armed]
  /\ height_seen' =
       [height_seen EXCEPT ![reader] = IF news.position = "none" THEN @ ELSE news.position]

Silence == [kind \in Kinds |-> "none"]

\* spin_once runs one callback, of any topic.
ReadRos(kind) ==
  /\ ReadsState /\ backlog[kind] # <<>>
  /\ Sees("ROS2", [Silence EXCEPT ![kind] = Head(backlog[kind])])
  /\ backlog' = [backlog EXCEPT ![kind] = Tail(@)]
  /\ UNCHANGED <<control, truth, unread, mav_online>>

\* The MAVLink reader takes everything that waits.
ReadMavlink ==
  /\ ReadsState /\ unread # Silence
  /\ Sees("MAVLINK", unread)
  /\ unread' = Silence
  /\ mav_online' = TRUE
  /\ UNCHANGED <<control, truth, backlog>>

\* No position for longer than the timeout of a reader.
PositionExpires(reader) ==
  /\ Watching /\ height_seen[reader] # "none"
  /\ height_seen' = [height_seen EXCEPT ![reader] = "none"]
  /\ UNCHANGED <<control, truth, backlog, unread, armed_seen, mav_online>>

\* No message of any kind on the MAVLink connection for that long.
MavlinkExpires ==
  /\ Watching /\ mav_online /\ height_seen["MAVLINK"] = "none"
  /\ mav_online' = FALSE
  /\ UNCHANGED <<control, truth, backlog, unread, armed_seen, height_seen>>

\* The runner has waited for a state that is online, with a position and a
\* valid armed state; which reader these came from does not matter to it.
HoverInit ==
  /\ phase = "preflight"
  /\ airborne = FALSE
  /\ work_state = "IDLE"
  /\ queue = <<>>
  /\ confirmed = FALSE
  /\ armed = FALSE /\ aloft = FALSE
  /\ sources \in SUBSET Readers
  /\ backlog = [kind \in Kinds |-> <<>>] /\ unread = Silence
  /\ armed_seen \in [Readers -> {"none", "no"}]
  /\ height_seen \in [Readers -> {"none", "ground"}]
  /\ \A reader \in Readers \ sources :
       armed_seen[reader] = "none" /\ height_seen[reader] = "none"
  /\ mav_online = (armed_seen["MAVLINK"] = "no" \/ height_seen["MAVLINK"] = "ground")
  /\ Height = "ground" /\ ArmedValid

Execute ==
  \/ Preflight \/ Arm \/ ArmWait \/ TakeOff \/ Climb \/ Land \/ Descend
  \/ RequestManualTakeover \/ Reset

Environment ==
  \/ Controller \/ Disarm
  \/ \E kind \in Kinds : ReportRos(kind) \/ ReportMavlink(kind) \/ ReadRos(kind)
  \/ ReadMavlink \/ MavlinkExpires
  \/ \E reader \in Readers : PositionExpires(reader)

HoverNext == Execute \/ Environment

\* Each loop of execute has a deadline, each call returns or raises.
HoverSpec == HoverInit /\ [][HoverNext]_hvars /\ WF_hvars(Execute)

-----------------------------------------------------------------------------
(* Properties                                                              *)

\* Type invariant; each command is published at most once.
HoverTypeOK ==
  /\ phase \in Phases
  /\ airborne \in BOOLEAN
  /\ work_state \in {"IDLE", "EXECUTING", "MANUAL_CONTROL"}
  /\ Len(queue) <= 3
  /\ \A i, j \in 1..Len(queue) : queue[i] \in Commands /\ (queue[i] = queue[j] => i = j)
  /\ confirmed \in BOOLEAN
  /\ armed \in BOOLEAN /\ aloft \in BOOLEAN
  /\ sources \subseteq Readers
  /\ \A kind \in Kinds :
       Len(backlog[kind]) <= Backlog /\ Range(backlog[kind]) \subseteq Values(kind) \ {"none"}
  /\ \A kind \in Kinds : unread[kind] \in Values(kind)
  /\ armed_seen \in [Readers -> Values("armed")]
  /\ height_seen \in [Readers -> Values("position")]
  /\ mav_online \in BOOLEAN

RosOnly == sources = {"ROS2"}

\* fancinnov_real_adapter.py:174: without a confirmed arming no take-off command
\* is published.
TakeoffConfirmedAlways == phase \in {"climb", "land", "descend", "ok"} => confirmed

\* With the ROS 2 reader alone the code keeps to that, however late and in
\* whatever order its messages are read.
TakeoffConfirmed == RosOnly => TakeoffConfirmedAlways

\* hover_test.py:69: the test only succeeds when height and armed state are back
\* to what they were, so the motors have stopped.
LandedTrulyAlways == phase = "ok" => ~armed /\ ~aloft

\* With the ROS 2 reader alone success means that, although the armed state has
\* no age and messages from before the flight may still wait.
LandedTruly == RosOnly => LandedTrulyAlways

\* hover_test.py:77: a vehicle in the air whose test failed is handed over.
HandedOver == phase = "over" /\ aloft => work_state = "MANUAL_CONTROL"

\* A test that found no fault returns: no loop waits for telemetry for ever.
Ends == <>(phase \in {"ok", "over"})

=============================================================================
