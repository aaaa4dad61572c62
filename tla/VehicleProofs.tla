---------------------------- MODULE VehicleProofs ----------------------------
(***************************************************************************)
(* Proofs about the programs that move a vehicle: the safety supervisor of *)
(* the UAV, its hover test and car 1.  Their modules share no variable;    *)
(* each section reasons about one of them, for every value of its          *)
(* constants.                                                              *)
(***************************************************************************)
EXTENDS SafetySupervisor, HoverTest, ApproachGrasp, TLAPS

-----------------------------------------------------------------------------
(***************************************************************************)
(* SafetySupervisor: for every set of points, every recovery time and both *)
(* settings of blind landing.                                              *)
(*                                                                         *)
(* None of its properties needs the whole history: what links a decision   *)
(* to the stream that justified it is that the recovery clock of the code  *)
(* is never ahead of the time the stream has really been good (Honest).    *)
(* An evaluation reads that clock before it writes it, so Honest of the    *)
(* state before gives every property of the state after.                   *)
(***************************************************************************)

\* The recovery clock never claims more good seconds than there were.
Honest == recovery # None => recovery <= clean_for

SupervisorInv ==
  /\ TypeOK
  /\ Honest
  /\ FirstMoveNeedsPosition
  /\ AdmissionSafe
  /\ FaultNeverIgnored
  /\ GroundNeverManoeuvres

-----------------------------------------------------------------------------
\* The capped sum of two clocks: a number up to the recovery time, monotone.
LEMMA CapFacts ==
  ASSUME NEW m \in Nat, NEW n \in Nat
  PROVE  /\ Cap(n) \in 0..RecoveryStable
         /\ m <= n => Cap(m) <= Cap(n)
  BY SupervisorAssumption DEF Cap

\* One sample keeps the clocks' types and the recovery clock honest, and a
\* position that is called good has been so for the whole recovery time.
LEMMA TrackingIsHonest ==
  ASSUME TypeOK, Honest,
         NEW s \in Sample, NEW dt \in 1..RecoveryStable,
         TrackPosition(s, dt),
         clean_for' = IF Usable(s) /\ ~Jumps(s) THEN Cap(clean_for + dt) ELSE 0
  PROVE  /\ last_position' \in Points \cup {None}
         /\ recovery' \in (0..RecoveryStable) \cup {None}
         /\ clean_for' \in 0..RecoveryStable
         /\ Honest'
         /\ PositionCode(s, dt) = "POSITION_OK" <=>
              Usable(s) /\ ~Jumps(s) /\ recovery' = RecoveryStable
         /\ PositionCode(s, dt) = "POSITION_OK" => clean_for' = RecoveryStable
<1>1. dt \in Nat /\ clean_for \in Nat /\ RecoveryStable \in Nat \ {0} /\ None \notin Nat
  BY SupervisorAssumption DEF TypeOK
<1>2. Recovery(dt) \in 0..RecoveryStable /\ Recovery(dt) <= Cap(clean_for + dt)
  <2>1. CASE recovery = None
    BY <1>1, <2>1, CapFacts DEF Recovery, Cap
  <2>2. CASE recovery # None
    <3>1. recovery \in Nat /\ recovery <= clean_for
      BY <2>2 DEF TypeOK, Honest
    <3>2. recovery + dt \in Nat /\ clean_for + dt \in Nat /\ recovery + dt <= clean_for + dt
      BY <1>1, <3>1
    <3> QED BY <2>2, <3>2, CapFacts DEF Recovery
  <2> QED BY <2>1, <2>2
<1>3. Cap(clean_for + dt) \in 0..RecoveryStable
  BY <1>1, CapFacts
<1>4. last_position' \in Points \cup {None}
  BY DEF TypeOK, TrackPosition, Usable, Sample
<1>5. CASE Usable(s) /\ ~Jumps(s)
  <2>1. recovery' = Recovery(dt) /\ clean_for' = Cap(clean_for + dt)
    BY <1>5 DEF TrackPosition
  <2>2. PositionCode(s, dt) = IF Recovery(dt) < RecoveryStable
                              THEN "POSITION_RECOVERING" ELSE "POSITION_OK"
    BY <1>5 DEF PositionCode, Usable
  <2> QED BY <1>1, <1>2, <1>3, <1>4, <1>5, <2>1, <2>2 DEF Honest
<1>6. CASE ~(Usable(s) /\ ~Jumps(s))
  <2>1. recovery' = None /\ clean_for' = 0
    BY <1>6 DEF TrackPosition
  <2>2. PositionCode(s, dt) # "POSITION_OK"
    BY <1>6 DEF PositionCode, Usable
  <2> QED BY <1>1, <1>4, <1>6, <2>1, <2>2 DEF Honest
<1> QED BY <1>5, <1>6

-----------------------------------------------------------------------------
LEMMA SupervisorStarts == Init => SupervisorInv
  BY SupervisorAssumption
     DEF Init, SupervisorInv, TypeOK, Honest, Decision, Actions, FirstMoveNeedsPosition,
         AdmissionSafe, FaultNeverIgnored, GroundNeverManoeuvres

\* An evaluation, the only step that decides anything.
LEMMA EvaluateKeeps ==
  ASSUME SupervisorInv, NEW s \in Sample, NEW in_air \in BOOLEAN, NEW accepting \in BOOLEAN,
         NEW delayed \in BOOLEAN, NEW dt \in 1..RecoveryStable,
         Evaluate(s, in_air, accepting, delayed, dt)
  PROVE  SupervisorInv'
<1> DEFINE code == PositionCode(s, dt)
           v    == Assess(s, code, in_air, accepting, delayed)
<1>1. /\ call' = [sample |-> s, airborne |-> in_air, accepting |-> accepting]
      /\ call' \in Call /\ call' # None
  BY SupervisorAssumption DEF Evaluate, Call
<1>2. /\ last_position' \in Points \cup {None}
      /\ recovery' \in (0..RecoveryStable) \cup {None}
      /\ clean_for' \in 0..RecoveryStable
      /\ Honest'
      /\ code = "POSITION_OK" <=> Usable(s) /\ ~Jumps(s) /\ recovery' = RecoveryStable
      /\ code = "POSITION_OK" => clean_for' = RecoveryStable
  BY TrackingIsHonest DEF SupervisorInv, Evaluate
<1> HIDE DEF code
\* The answer of evaluate fits the flight, the position and the request.
<1>3. /\ v.action \in Actions /\ v.latch \in BOOLEAN
      /\ v.latch => v.action \in Emergencies /\ in_air
      /\ ~in_air => v.action \notin FlightActions
      /\ v.action \in {"RETURN_HOME", "LAND_NOW"} =>
           v.latch /\ (code = "POSITION_OK" \/ (v.action = "LAND_NOW" /\ BlindLanding))
      /\ accepting /\ v.action \in {"NONE", "WARN"} =>
           Admissible(s, code) /\ s.fcu_age # "lost" /\ s.coordinator_age # "lost"
      /\ in_air /\ \/ s.fcu_age = "lost"
                     \/ s.coordinator_age = "lost"
                     \/ s.battery \in {"critical", "return"}
                     \/ code # "POSITION_OK"
         => v.action \in FlightActions
  BY DEF v, Assess, InFlight, Verdict, Actions, Emergencies, FlightActions, Admissible
<1> HIDE DEF v
<1>4. \/ /\ decision' = [action |-> v.action, latched |-> FALSE]
         /\ latched_action' = IF v.latch THEN v.action ELSE latched_action
      \/ /\ decision' = [action |-> latched_action, latched |-> TRUE]
         /\ latched_action' = latched_action
         /\ latched_action # None /\ v.latch
  BY DEF Evaluate, Latch, code, v
<1>5. /\ latched_action' \in Emergencies \cup {None}
      /\ decision' \in Decision
      /\ decision'.latched => decision'.action \in Emergencies /\ in_air
      /\ ~decision'.latched => decision'.action = v.action
  <2>1. latched_action \in Emergencies \cup {None} /\ Emergencies \subseteq Actions
    BY DEF SupervisorInv, TypeOK, Emergencies, Actions
  <2>2. CASE /\ decision' = [action |-> v.action, latched |-> FALSE]
             /\ latched_action' = IF v.latch THEN v.action ELSE latched_action
    BY <1>3, <2>1, <2>2 DEF Decision
  <2>3. CASE /\ decision' = [action |-> latched_action, latched |-> TRUE]
             /\ latched_action' = latched_action
             /\ latched_action # None /\ v.latch
    BY <1>3, <2>1, <2>3 DEF Decision
  <2> QED BY <1>4, <2>2, <2>3
<1>6. TypeOK'
  BY <1>1, <1>2, <1>5 DEF TypeOK
<1>7. FirstMoveNeedsPosition'
  BY <1>1, <1>2, <1>3, <1>5, SupervisorAssumption DEF FirstMoveNeedsPosition
<1>8. AdmissionSafe'
  <2>1. decision'.action \in {"NONE", "WARN"} => ~decision'.latched
    BY <1>5 DEF Emergencies
  <2> SUFFICES ASSUME accepting, decision'.action \in {"NONE", "WARN"}
               PROVE  /\ s.battery = "good" /\ s.battery_age = "ok"
                      /\ s.fcu_age # "lost" /\ s.coordinator_age # "lost"
                      /\ clean_for' >= RecoveryStable
    BY <1>1 DEF AdmissionSafe
  <2> QED
    BY <1>2, <1>3, <1>5, <2>1, SupervisorAssumption DEF Admissible, Sample, Ages
<1>9. FaultNeverIgnored'
  <2>1. clean_for' < RecoveryStable \/ ~Usable(s) => code # "POSITION_OK"
    BY <1>2, SupervisorAssumption
  <2>2. Emergencies \subseteq FlightActions
    BY DEF FlightActions
  <2> QED BY <1>1, <1>3, <1>5, <2>1, <2>2 DEF FaultNeverIgnored, Usable
<1>10. GroundNeverManoeuvres'
  BY <1>1, <1>3, <1>5 DEF GroundNeverManoeuvres
<1> QED BY <1>2, <1>6, <1>7, <1>8, <1>9, <1>10 DEF SupervisorInv

LEMMA SupervisorSteps == SupervisorInv /\ [Next]_svars => SupervisorInv'
<1> SUFFICES ASSUME SupervisorInv, [Next]_svars PROVE SupervisorInv'
  OBVIOUS
<1>1. CASE \E s \in Sample, in_air, accepting, delayed \in BOOLEAN,
              dt \in 1..RecoveryStable : Evaluate(s, in_air, accepting, delayed, dt)
  BY <1>1, EvaluateKeeps
<1>2. CASE ResetAfterSafeLanding
  BY <1>2, SupervisorAssumption
     DEF ResetAfterSafeLanding, SupervisorInv, TypeOK, Honest, FirstMoveNeedsPosition,
         AdmissionSafe, FaultNeverIgnored, GroundNeverManoeuvres
<1>3. CASE UNCHANGED svars
  BY <1>3 DEF svars, SupervisorInv, TypeOK, Honest, FirstMoveNeedsPosition, AdmissionSafe,
              FaultNeverIgnored, GroundNeverManoeuvres, Usable
<1> QED BY <1>1, <1>2, <1>3 DEF Next

\* Every reachable state satisfies the invariant.
THEOREM SupervisorInvariance == Spec => []SupervisorInv
  BY SupervisorStarts, SupervisorSteps, PTL DEF Spec

\* The variables of the supervisor keep their types, and nothing but an
\* emergency is ever latched (_latched_action).
THEOREM SupervisorTypeCorrect == Spec => []TypeOK
<1>1. SupervisorInv => TypeOK  BY DEF SupervisorInv
<1> QED BY <1>1, SupervisorInvariance, PTL

\* A first RETURN_HOME or LAND_NOW rests on a stream that was good for the whole
\* recovery time, however samples, outages and jumps alternate.
THEOREM MovesNeedPosition == Spec => []FirstMoveNeedsPosition
<1>1. SupervisorInv => FirstMoveNeedsPosition  BY DEF SupervisorInv
<1> QED BY <1>1, SupervisorInvariance, PTL

\* A task is let through only on a sample that is safe in every respect.
THEOREM AdmissionIsSafe == Spec => []AdmissionSafe
<1>1. SupervisorInv => AdmissionSafe  BY DEF SupervisorInv
<1> QED BY <1>1, SupervisorInvariance, PTL

\* A fault in flight is always answered with an action in flight.
THEOREM FaultsAreAnswered == Spec => []FaultNeverIgnored
<1>1. SupervisorInv => FaultNeverIgnored  BY DEF SupervisorInv
<1> QED BY <1>1, SupervisorInvariance, PTL

\* A vehicle on the ground is never told to manoeuvre.
THEOREM GroundStaysGround == Spec => []GroundNeverManoeuvres
<1>1. SupervisorInv => GroundNeverManoeuvres  BY DEF SupervisorInv
<1> QED BY <1>1, SupervisorInvariance, PTL

-----------------------------------------------------------------------------
(***************************************************************************)
(* HoverTest: for a ROS 2 subscription of any depth, whatever the flight   *)
(* controller refuses and however late the telemetry is read.              *)
(*                                                                         *)
(* Success rests on an armed state that has no age.  It is sound because   *)
(* the command to arm is used up before the first "armed" is reported      *)
(* (ArmedOnce): every "not armed" that follows one in the order of the     *)
(* topic means that the motors have stopped for good.                      *)
(***************************************************************************)

\* The phases before a command is published.
Unpublished(command) ==
  {"preflight", "arm"}
    \cup (IF command \in {"TAKEOFF", "LAND"} THEN {"arm_wait", "take_off"} ELSE {})
    \cup (IF command = "LAND" THEN {"climb", "land"} ELSE {})

\* The queue holds each command at most once, and only after it was published.
Queueing ==
  /\ queue \in Seq(Commands)
  /\ \A i, j \in 1..Len(queue) : queue[i] = queue[j] => i = j
  /\ \A i \in 1..Len(queue) : phase \notin Unpublished(queue[i])
  /\ phase \in Unpublished("ARM") => Len(queue) = 0
  /\ phase \in Unpublished("TAKEOFF") => Len(queue) <= 1
  /\ phase \in Unpublished("LAND") => Len(queue) <= 2
  /\ Len(queue) <= 3

\* The types of everything but the queue.
Shapes ==
  /\ phase \in Phases
  /\ airborne \in BOOLEAN
  /\ work_state \in {"IDLE", "EXECUTING", "MANUAL_CONTROL"}
  /\ confirmed \in BOOLEAN
  /\ armed \in BOOLEAN /\ aloft \in BOOLEAN
  /\ sources \subseteq Readers
  /\ backlog \in [Kinds -> Seq({"no", "yes", "ground", "high"})]
  /\ \A kind \in Kinds :
       /\ backlog[kind] \in Seq(Values(kind) \ {"none"})
       /\ Len(backlog[kind]) <= Backlog
  /\ unread \in [Kinds -> {"none", "no", "yes", "ground", "high"}]
  /\ \A kind \in Kinds : unread[kind] \in Values(kind)
  /\ armed_seen \in [Readers -> Values("armed")]
  /\ height_seen \in [Readers -> Values("position")]
  /\ mav_online \in BOOLEAN

LEMMA PublishedFacts ==
  ASSUME Queueing, NEW command \in Commands, phase \in Unpublished(command)
  PROVE  /\ Published(command) \in Seq(Commands)
         /\ Len(Published(command)) = Len(queue) + 1
         /\ \A i, j \in 1..Len(Published(command)) :
              Published(command)[i] = Published(command)[j] => i = j
         /\ \A i \in 1..Len(Published(command)) :
              Published(command)[i] = command \/ \E j \in 1..Len(queue) : Published(command)[i] = queue[j]
<1> DEFINE new == Published(command)
<1>1. /\ queue \in Seq(Commands) /\ Len(queue) \in Nat
      /\ new \in Seq(Commands) /\ Len(new) = Len(queue) + 1
      /\ \A i \in 1..Len(queue) : new[i] = queue[i]
      /\ new[Len(queue) + 1] = command
  BY DEF Queueing, Published
<1>2. \A i \in 1..Len(queue) : queue[i] # command
  BY DEF Queueing
<1>3. \A i \in 1..Len(new) : i \in 1..Len(queue) \/ i = Len(queue) + 1
  BY <1>1
<1> HIDE DEF new
<1>4. \A i, j \in 1..Len(new) : new[i] = new[j] => i = j
  <2> SUFFICES ASSUME NEW i \in 1..Len(new), NEW j \in 1..Len(new), new[i] = new[j] PROVE i = j
    OBVIOUS
  <2>1. CASE i \in 1..Len(queue) /\ j \in 1..Len(queue)
    BY <2>1, <1>1 DEF Queueing
  <2>2. CASE i = Len(queue) + 1 \/ j = Len(queue) + 1
    BY <2>2, <1>1, <1>2, <1>3
  <2> QED BY <2>1, <2>2, <1>3
<1>5. \A i \in 1..Len(new) : new[i] = command \/ \E j \in 1..Len(queue) : new[i] = queue[j]
  BY <1>1, <1>3
<1> QED BY <1>1, <1>4, <1>5 DEF new

LEMMA TailOfQueue ==
  ASSUME Queueing, queue # <<>>
  PROVE  /\ Tail(queue) \in Seq(Commands) /\ Len(Tail(queue)) = Len(queue) - 1
         /\ Len(queue) \in Nat \ {0}
         /\ \A i \in 1..Len(Tail(queue)) : i + 1 \in 1..Len(queue) /\ Tail(queue)[i] = queue[i + 1]
         /\ Head(queue) = queue[1] /\ 1 \in 1..Len(queue)
<1>1. queue \in Seq(Commands)
  BY DEF Queueing
<1> QED BY <1>1

LEMMA HoverInitial == HoverInit => Queueing /\ Shapes
<1> SUFFICES ASSUME HoverInit PROVE Queueing /\ Shapes
  OBVIOUS
<1>1. Queueing
  BY DEF HoverInit, Queueing
<1>2. /\ backlog \in [Kinds -> Seq({"no", "yes", "ground", "high"})]
      /\ \A kind \in Kinds :
           backlog[kind] \in Seq(Values(kind) \ {"none"}) /\ Len(backlog[kind]) <= Backlog
  <2>1. backlog = [kind \in Kinds |-> <<>>]
    BY DEF HoverInit
  <2>2. Len(<<>>) <= Backlog
    BY BacklogAssumption
  <2> QED BY <2>1, <2>2
<1>3. Shapes
  <2>1. /\ unread \in [Kinds -> {"none", "no", "yes", "ground", "high"}]
        /\ \A kind \in Kinds : unread[kind] \in Values(kind)
    BY DEF HoverInit, Silence, Values
  <2>2. armed_seen \in [Readers -> Values("armed")] /\ height_seen \in [Readers -> Values("position")]
    BY DEF HoverInit, Values
  <2>3. mav_online \in BOOLEAN
    BY DEF HoverInit
  <2> QED BY <1>2, <2>1, <2>2, <2>3 DEF HoverInit, Shapes, Phases
<1> QED BY <1>1, <1>3

LEMMA PublishKeeps ==
  ASSUME Queueing, NEW command \in Commands, NEW next, phase \in Unpublished(command),
         Publish(command, next),
         next \in Phases, next \notin Unpublished(command),
         \A c \in Commands \ {command} : (phase \in Unpublished(c)) <=> (next \in Unpublished(c))
  PROVE  Queueing'
<1>1. CASE queue' = queue
  <2>1. phase' = "failed"
    BY <1>1, PublishedFacts DEF Publish, Queueing
  <2> QED BY <1>1, <2>1 DEF Queueing, Unpublished
<1>2. CASE queue' = Published(command)
  <2>1. phase' \in {next, "failed"}
    BY <1>2 DEF Publish
  <2>2. \A c \in Commands : phase \notin Unpublished(c) => phase' \notin Unpublished(c)
    BY <2>1 DEF Unpublished
  <2>3. phase' \notin Unpublished(command)
    BY <2>1 DEF Unpublished
  <2>4. \A i \in 1..Len(queue') : phase' \notin Unpublished(queue'[i])
    BY <1>2, <2>2, <2>3, PublishedFacts DEF Queueing
  <2>5. queue' \in Seq(Commands) /\ Len(queue') = Len(queue) + 1 /\ Len(queue) \in Nat
    BY <1>2, PublishedFacts DEF Queueing
  <2>6. /\ phase' \in Unpublished("ARM") => Len(queue') = 0
        /\ phase' \in Unpublished("TAKEOFF") => Len(queue') <= 1
        /\ phase' \in Unpublished("LAND") => Len(queue') <= 2
        /\ Len(queue') <= 3
    BY <2>1, <2>5 DEF Unpublished, Queueing, Commands
  <2> QED BY <1>2, <2>4, <2>5, <2>6, PublishedFacts DEF Queueing
<1> QED BY <1>1, <1>2 DEF Publish

LEMMA QueueingKept == Queueing /\ Shapes /\ [HoverNext]_hvars => Queueing'
<1> SUFFICES ASSUME Queueing, Shapes, [HoverNext]_hvars PROVE Queueing'
  OBVIOUS
<1>1. CASE Arm
  BY <1>1, PublishKeeps DEF Arm, Unpublished, Commands, Phases
<1>2. CASE TakeOff
  BY <1>2, PublishKeeps DEF TakeOff, Unpublished, Commands, Phases
<1>3. CASE Land
  BY <1>3, PublishKeeps DEF Land, Unpublished, Commands, Phases
<1>4. CASE Controller
  <2>1. phase' = phase /\ queue' = Tail(queue) /\ queue # <<>>
    BY <1>4 DEF Controller
  <2>2. Len(queue') = Len(queue) - 1 /\ Len(queue) \in Nat \ {0}
    BY <2>1, TailOfQueue
  <2>3. /\ \A i, j \in 1..Len(queue') : queue'[i] = queue'[j] => i = j
        /\ \A i \in 1..Len(queue') : phase' \notin Unpublished(queue'[i])
    BY <2>1, TailOfQueue DEF Queueing
  <2>4. /\ phase' \in Unpublished("ARM") => Len(queue') = 0
        /\ phase' \in Unpublished("TAKEOFF") => Len(queue') <= 1
        /\ phase' \in Unpublished("LAND") => Len(queue') <= 2
        /\ Len(queue') <= 3
    BY <2>1, <2>2 DEF Queueing
  <2> QED BY <2>1, <2>3, <2>4, TailOfQueue DEF Queueing
<1>5. ASSUME queue' = queue, phase' \in {"over", "failed", "reset", "ok"}
      PROVE  Queueing'
  BY <1>5 DEF Queueing, Unpublished
<1>6. ASSUME queue' = queue, phase' = phase
      PROVE  Queueing'
  BY <1>6 DEF Queueing
<1>7. CASE Preflight
  <2>1. ASSUME phase' = "arm" PROVE Queueing'
    BY <1>7, <2>1 DEF Preflight, Queueing, Unpublished
  <2> QED BY <1>5, <1>7, <2>1 DEF Preflight
<1>8. CASE ArmWait
  <2>1. ASSUME phase' = "take_off" PROVE Queueing'
    BY <1>8, <2>1 DEF ArmWait, Queueing, Unpublished
  <2> QED BY <1>5, <1>8, <2>1 DEF ArmWait, DeadlinePasses
<1>9. CASE Climb
  <2>1. ASSUME phase' = "land" PROVE Queueing'
    BY <1>9, <2>1 DEF Climb, Queueing, Unpublished
  <2> QED BY <1>5, <1>9, <2>1 DEF Climb, DeadlinePasses
<1>10. CASE Descend \/ RequestManualTakeover \/ Reset
  BY <1>5, <1>10 DEF Descend, RequestManualTakeover, Reset, DeadlinePasses
<1>11. CASE Environment /\ ~Controller
  BY <1>6, <1>11 DEF Environment, Disarm, ReportRos, ReportMavlink, ReadRos, ReadMavlink,
                     MavlinkExpires, PositionExpires, control
<1>12. CASE UNCHANGED hvars
  BY <1>6, <1>12 DEF hvars, control
<1> QED BY <1>1, <1>2, <1>3, <1>4, <1>7, <1>8, <1>9, <1>10, <1>11, <1>12
        DEF HoverNext, Execute, Environment

\* The subscription of a topic after one more message.
Received(kind, value) ==
  Append(IF Len(backlog[kind]) = Backlog THEN Tail(backlog[kind]) ELSE backlog[kind], value)

LEMMA ReceivedFacts ==
  ASSUME Shapes, NEW kind \in Kinds, NEW value \in Values(kind) \ {"none"}
  PROVE  /\ Received(kind, value) \in Seq(Values(kind) \ {"none"})
         /\ Len(Received(kind, value)) <= Backlog
         /\ Len(Received(kind, value)) \in Nat \ {0}
         /\ Received(kind, value)[Len(Received(kind, value))] = value
         /\ \A i \in 1..(Len(Received(kind, value)) - 1) :
              \/ Len(backlog[kind]) # Backlog /\ i \in 1..Len(backlog[kind])
                   /\ Received(kind, value)[i] = backlog[kind][i]
              \/ Len(backlog[kind]) = Backlog /\ i + 1 \in 1..Len(backlog[kind])
                   /\ Received(kind, value)[i] = backlog[kind][i + 1]
<1> DEFINE waiting == backlog[kind]
           V == Values(kind) \ {"none"}
<1>1. waiting \in Seq(V) /\ Len(waiting) <= Backlog /\ Backlog \in Nat \ {0}
  BY BacklogAssumption DEF Shapes
<1>2. value \in V
  OBVIOUS
<1> HIDE DEF waiting, V
<1>3. CASE Len(waiting) = Backlog
  <2>1. /\ Tail(waiting) \in Seq(V) /\ Len(Tail(waiting)) = Backlog - 1
        /\ \A i \in 1..(Backlog - 1) : Tail(waiting)[i] = waiting[i + 1]
    BY <1>1, <1>3
  <2>2. Received(kind, value) = Append(Tail(waiting), value)
    BY <1>3 DEF Received, waiting
  <2> QED BY <1>1, <1>2, <1>3, <2>1, <2>2 DEF waiting, V
<1>4. CASE Len(waiting) # Backlog
  <2>1. Received(kind, value) = Append(waiting, value)
    BY <1>4 DEF Received, waiting
  <2> QED BY <1>1, <1>2, <1>4, <2>1 DEF waiting, V
<1> QED BY <1>3, <1>4

LEMMA ShapesKept == Shapes /\ [HoverNext]_hvars => Shapes'
<1> SUFFICES ASSUME Shapes, [HoverNext]_hvars PROVE Shapes'
  OBVIOUS
<1>1. CASE Execute
  <2>1. UNCHANGED <<sources, truth, telemetry>>
    BY <1>1 DEF Execute, Preflight, Arm, ArmWait, TakeOff, Climb, Land, Descend,
                RequestManualTakeover, Reset
  <2>2. /\ phase' \in Phases /\ airborne' \in BOOLEAN
        /\ work_state' \in {"IDLE", "EXECUTING", "MANUAL_CONTROL"}
        /\ confirmed' \in BOOLEAN
    BY <1>1 DEF Execute, Preflight, Arm, ArmWait, TakeOff, Climb, Land, Descend, Publish,
                DeadlinePasses, RequestManualTakeover, Reset, Shapes, Phases
  <2> QED BY <2>1, <2>2 DEF Shapes, truth, telemetry, seen
<1>2. CASE Controller \/ Disarm
  <2>1. UNCHANGED <<phase, airborne, work_state, confirmed, sources, telemetry>>
    BY <1>2 DEF Controller, Disarm, control
  <2>2. armed' \in BOOLEAN /\ aloft' \in BOOLEAN
    BY <1>2 DEF Controller, Disarm, Shapes, truth
  <2> QED BY <2>1, <2>2 DEF Shapes, telemetry, seen
<1>3. ASSUME NEW kind \in Kinds, ReportRos(kind)
      PROVE  Shapes'
  <2>1. PICK value \in Reports(kind) : backlog' = [backlog EXCEPT ![kind] = Received(kind, value)]
    BY <1>3 DEF ReportRos, Received
  <2>2. value \in Values(kind) \ {"none"} /\ Values(kind) \ {"none"} \subseteq {"no", "yes", "ground", "high"}
    BY <2>1 DEF Reports, Values
  <2>3. /\ Received(kind, value) \in Seq(Values(kind) \ {"none"})
        /\ Len(Received(kind, value)) <= Backlog
    BY <2>2, ReceivedFacts
  <2>4. Received(kind, value) \in Seq({"no", "yes", "ground", "high"})
    BY <2>2, <2>3
  <2>5. UNCHANGED <<control, truth, unread, seen>>
    BY <1>3 DEF ReportRos
  <2> QED BY <2>1, <2>3, <2>4, <2>5 DEF Shapes, control, truth, seen
<1>4. ASSUME NEW kind \in Kinds, ReportMavlink(kind)
      PROVE  Shapes'
  <2>1. PICK value \in Reports(kind) : unread' = [unread EXCEPT ![kind] = value]
    BY <1>4 DEF ReportMavlink
  <2>2. value \in Values(kind) /\ value \in {"no", "yes", "ground", "high"}
    BY <2>1 DEF Reports, Values
  <2>3. UNCHANGED <<control, truth, backlog, seen>>
    BY <1>4 DEF ReportMavlink
  <2> QED BY <2>1, <2>2, <2>3 DEF Shapes, control, truth, seen
<1>5. ASSUME NEW reader \in Readers, NEW news, news.armed \in Values("armed"),
             news.position \in Values("position"), Sees(reader, news)
      PROVE  armed_seen' \in [Readers -> Values("armed")] /\ height_seen' \in [Readers -> Values("position")]
  BY <1>5 DEF Sees, Shapes
<1>6. ASSUME NEW kind \in Kinds, ReadRos(kind)
      PROVE  Shapes'
  <2>1. /\ backlog[kind] # <<>> /\ backlog[kind] \in Seq(Values(kind) \ {"none"})
        /\ Len(backlog[kind]) <= Backlog
        /\ backlog[kind] \in Seq({"no", "yes", "ground", "high"})
    BY <1>6 DEF ReadRos, Shapes
  <2>2. /\ Tail(backlog[kind]) \in Seq(Values(kind) \ {"none"})
        /\ Tail(backlog[kind]) \in Seq({"no", "yes", "ground", "high"})
        /\ Len(Tail(backlog[kind])) <= Backlog
    BY <2>1, BacklogAssumption
  <2>3. backlog' = [backlog EXCEPT ![kind] = Tail(backlog[kind])] /\ UNCHANGED <<control, truth, unread, mav_online>>
    BY <1>6 DEF ReadRos
  <2>4. Head(backlog[kind]) \in Values(kind)
    BY <2>1
  <2>5. armed_seen' \in [Readers -> Values("armed")] /\ height_seen' \in [Readers -> Values("position")]
    <3> DEFINE news == [Silence EXCEPT ![kind] = Head(backlog[kind])]
    <3>1. news.armed \in Values("armed") /\ news.position \in Values("position")
      BY <2>4 DEF Silence, Kinds, Values
    <3>2. Sees("ROS2", news) /\ "ROS2" \in Readers
      BY <1>6 DEF ReadRos, Readers
    <3> HIDE DEF news
    <3> QED BY <1>5, <3>1, <3>2
  <2> QED BY <2>2, <2>3, <2>5 DEF Shapes, control, truth
<1>7. CASE ReadMavlink
  <2>1. unread.armed \in Values("armed") /\ unread.position \in Values("position")
    BY DEF Shapes, Kinds
  <2>2. armed_seen' \in [Readers -> Values("armed")] /\ height_seen' \in [Readers -> Values("position")]
    BY <1>5, <1>7, <2>1 DEF ReadMavlink, Readers
  <2>3. /\ unread' \in [Kinds -> {"none", "no", "yes", "ground", "high"}]
        /\ \A kind \in Kinds : unread'[kind] \in Values(kind)
    BY <1>7 DEF ReadMavlink, Silence, Values
  <2>4. mav_online' \in BOOLEAN /\ UNCHANGED <<control, truth, backlog>>
    BY <1>7 DEF ReadMavlink
  <2> QED BY <2>2, <2>3, <2>4 DEF Shapes, control, truth
<1>8. CASE MavlinkExpires
  BY <1>8 DEF MavlinkExpires, Shapes, control, truth
<1>9. ASSUME NEW reader \in Readers, PositionExpires(reader)
      PROVE  Shapes'
  BY <1>9 DEF PositionExpires, Shapes, control, truth, Values
<1>10. CASE UNCHANGED hvars
  BY <1>10 DEF Shapes, hvars, control, truth, telemetry, seen
<1> QED BY <1>1, <1>2, <1>3, <1>4, <1>6, <1>7, <1>8, <1>9, <1>10 DEF HoverNext, Environment

LEMMA HoverInvariance == HoverSpec => [](Queueing /\ Shapes)
  BY HoverInitial, QueueingKept, ShapesKept, PTL DEF HoverSpec

\* The types hold, and each command is published at most once.
THEOREM HoverTypeCorrect == HoverSpec => []HoverTypeOK
<1>1. Queueing /\ Shapes => HoverTypeOK
  <2> SUFFICES ASSUME Queueing, Shapes PROVE HoverTypeOK
    OBVIOUS
  <2>1. \A i, j \in 1..Len(queue) : queue[i] \in Commands /\ (queue[i] = queue[j] => i = j)
    BY DEF Queueing
  <2>2. \A kind \in Kinds :
          Len(backlog[kind]) <= Backlog /\ Range(backlog[kind]) \subseteq Values(kind) \ {"none"}
    <3> SUFFICES ASSUME NEW kind \in Kinds
                 PROVE  Len(backlog[kind]) <= Backlog
                        /\ Range(backlog[kind]) \subseteq Values(kind) \ {"none"}
      OBVIOUS
    <3>1. backlog[kind] \in Seq(Values(kind) \ {"none"}) /\ Len(backlog[kind]) <= Backlog
      BY DEF Shapes
    <3> QED BY <3>1 DEF Range
  <2> QED BY <2>1, <2>2 DEF Queueing, Shapes, HoverTypeOK
<1> QED BY <1>1, HoverInvariance, PTL

-----------------------------------------------------------------------------
\* The command to arm has been published, and the controller is done with it.
ArmSpent == phase \notin {"preflight", "arm"} /\ \A i \in 1..Len(queue) : queue[i] # "ARM"

\* What the ROS 2 topic says of the motors, oldest first: the last value read
\* and then what waits.
Told(i) == IF i = 0 THEN armed_seen["ROS2"] ELSE backlog["armed"][i]

\* With the ROS 2 reader alone the armed state was read before the task began,
\* MAVLink says nothing, and execute passed its wait by reading that it is armed.
RosAlone ==
  RosOnly =>
    /\ unread = Silence /\ ~mav_online /\ armed_seen["ROS2"] # "none"
    /\ phase \in {"take_off", "climb", "land", "descend", "ok"} => confirmed

\* The motors ran only after the command to arm was used up, so a "no" that
\* follows a "yes" means that they have stopped for good.
ArmedOnce ==
  /\ aloft => armed
  /\ armed => ArmSpent
  /\ \A i \in 0..Len(backlog["armed"]) : Told(i) = "yes" => ArmSpent
  /\ \A i, j \in 0..Len(backlog["armed"]) :
       i < j /\ Told(i) = "yes" /\ Told(j) = "no" => ~armed

\* From take-off on a "no" is no news from before the flight.
NoIsFinal ==
  RosOnly =>
    /\ phase \in {"take_off", "climb", "land", "descend"} /\ armed_seen["ROS2"] = "no" =>
         ~armed /\ ArmSpent
    /\ phase = "ok" => ~armed /\ ArmSpent

HoverInv == Queueing /\ Shapes /\ RosAlone /\ ArmedOnce /\ NoIsFinal

LEMMA HoverStarts == HoverInit => HoverInv
<1> SUFFICES ASSUME HoverInit PROVE HoverInv
  OBVIOUS
<1>1. Queueing /\ Shapes
  BY HoverInitial
<1>2. RosAlone
  <2> SUFFICES ASSUME RosOnly PROVE unread = Silence /\ ~mav_online /\ armed_seen["ROS2"] # "none"
    BY DEF RosAlone, HoverInit
  <2>1. "MAVLINK" \in Readers \ sources /\ "ROS2" \in Readers
    BY DEF RosOnly, Readers
  <2>2. armed_seen["MAVLINK"] = "none" /\ height_seen["MAVLINK"] = "none"
    BY <2>1 DEF HoverInit
  <2>3. ~mav_online
    BY <2>2 DEF HoverInit
  <2> QED BY <2>2, <2>3 DEF HoverInit, ArmedValid
<1>3. ArmedOnce
  <2>1. backlog["armed"] = <<>> /\ Len(backlog["armed"]) = 0
    BY DEF HoverInit, Kinds
  <2>2. armed_seen["ROS2"] # "yes" /\ ~aloft /\ ~armed
    BY DEF HoverInit, Readers
  <2>3. \A i \in 0..0 : Told(i) # "yes"
    BY <2>2 DEF Told
  <2> QED BY <2>1, <2>2, <2>3 DEF ArmedOnce
<1>4. NoIsFinal
  BY DEF HoverInit, NoIsFinal
<1> QED BY <1>1, <1>2, <1>3, <1>4 DEF HoverInv

\* A spent command stays so.
LEMMA SpentStays == Queueing /\ Shapes /\ ArmSpent /\ [HoverNext]_hvars => ArmSpent'
<1> SUFFICES ASSUME Queueing, Shapes, ArmSpent, [HoverNext]_hvars PROVE ArmSpent'
  OBVIOUS
<1>1. phase' \notin {"preflight", "arm"}
  BY DEF HoverNext, Execute, Environment, Preflight, Arm, ArmWait, TakeOff, Climb, Land, Descend,
         RequestManualTakeover, Reset, Publish, DeadlinePasses, Controller, Disarm, ReportRos,
         ReportMavlink, ReadRos, ReadMavlink, MavlinkExpires, PositionExpires, control, hvars, ArmSpent
<1>2. CASE queue' = queue
  BY <1>1, <1>2 DEF ArmSpent
<1>3. CASE Controller
  <2>1. queue # <<>> /\ queue' = Tail(queue)
    BY <1>3 DEF Controller
  <2> QED BY <1>1, <2>1, TailOfQueue DEF ArmSpent
<1>4. ASSUME NEW command \in {"TAKEOFF", "LAND"}, phase \in Unpublished(command),
             queue' = Published(command)
      PROVE  ArmSpent'
  <2>1. command \in Commands /\ command # "ARM"
    BY DEF Commands
  <2> QED BY <1>1, <1>4, <2>1, PublishedFacts DEF ArmSpent
<1>5. \/ queue' = queue \/ Controller
      \/ TakeOff /\ queue' = Published("TAKEOFF")
      \/ Land /\ queue' = Published("LAND")
  <2>1. ~Arm
    BY DEF Arm, ArmSpent
  <2> QED BY <2>1 DEF HoverNext, Execute, Environment, Preflight, ArmWait, TakeOff, Climb, Land, Descend,
         RequestManualTakeover, Reset, Publish, Disarm, ReportRos,
         ReportMavlink, ReadRos, ReadMavlink, MavlinkExpires, PositionExpires, control, hvars
<1> QED BY <1>2, <1>3, <1>4, <1>5 DEF TakeOff, Land, Unpublished

\* Only the command to arm starts the motors.
LEMMA ArmingIsSpent == Queueing /\ Shapes /\ [HoverNext]_hvars /\ armed' /\ ~armed => ArmSpent' /\ ~ArmSpent
<1> SUFFICES ASSUME Queueing, Shapes, [HoverNext]_hvars, armed', ~armed PROVE ArmSpent' /\ ~ArmSpent
  OBVIOUS
<1>1. CASE Controller
  <2>1. queue # <<>> /\ queue' = Tail(queue) /\ Head(queue) = "ARM" /\ phase' = phase
    BY <1>1 DEF Controller, truth
  <2>2. queue[1] = "ARM" /\ 1 \in 1..Len(queue)
    BY <2>1, TailOfQueue
  <2>3. ~ArmSpent
    BY <2>2 DEF ArmSpent
  <2>4. phase \notin {"preflight", "arm"}
    BY <2>2 DEF Queueing, Unpublished
  <2>5. \A i \in 1..Len(queue') : queue'[i] # "ARM"
    <3> SUFFICES ASSUME NEW i \in 1..Len(queue'), queue'[i] = "ARM" PROVE FALSE
      OBVIOUS
    <3>1. i + 1 \in 1..Len(queue) /\ queue[i + 1] = "ARM" /\ i \in Nat \ {0}
      BY <2>1, TailOfQueue
    <3>2. i + 1 = 1
      BY <2>2, <3>1 DEF Queueing
    <3> QED BY <3>1, <3>2
  <2> QED BY <2>1, <2>3, <2>4, <2>5 DEF ArmSpent
<1>2. CASE ~Controller
  <2>1. armed' = armed
    BY <1>2 DEF HoverNext, Execute, Environment, Preflight, Arm, ArmWait, TakeOff, Climb, Land, Descend,
         RequestManualTakeover, Reset, Disarm, ReportRos,
         ReportMavlink, ReadRos, ReadMavlink, MavlinkExpires, PositionExpires, control, truth, hvars
  <2> QED BY <2>1
<1> QED BY <1>1, <1>2

\* What a step does to the news: nothing, one more message, or one message read.
LEMMA NewsMoves ==
  ASSUME Shapes, [HoverNext]_hvars
  PROVE  \/ UNCHANGED <<armed_seen["ROS2"], backlog["armed"]>>
         \/ /\ armed_seen' = armed_seen
            /\ backlog' = [backlog EXCEPT !["armed"] = Received("armed", IF armed THEN "yes" ELSE "no")]
            /\ UNCHANGED <<control, truth>>
         \/ /\ backlog["armed"] # <<>> /\ backlog'["armed"] = Tail(backlog["armed"])
            /\ armed_seen'["ROS2"] = Head(backlog["armed"])
            /\ UNCHANGED <<control, truth>>
<1>1. CASE Execute \/ Controller \/ Disarm \/ UNCHANGED hvars
  <2>1. UNCHANGED telemetry
    BY <1>1 DEF Execute, Preflight, Arm, ArmWait, TakeOff, Climb, Land, Descend,
         RequestManualTakeover, Reset, Controller, Disarm, hvars
  <2> QED BY <2>1 DEF telemetry, seen
<1>2. ASSUME NEW kind \in Kinds, ReportRos(kind)
      PROVE  \/ UNCHANGED <<armed_seen["ROS2"], backlog["armed"]>>
             \/ /\ armed_seen' = armed_seen
                /\ backlog' = [backlog EXCEPT !["armed"] = Received("armed", IF armed THEN "yes" ELSE "no")]
                /\ UNCHANGED <<control, truth>>
  <2>1. PICK value \in Reports(kind) : backlog' = [backlog EXCEPT ![kind] = Received(kind, value)]
    BY <1>2 DEF ReportRos, Received
  <2>2. UNCHANGED <<control, truth, armed_seen>>
    BY <1>2 DEF ReportRos, seen
  <2>3. kind = "armed" => value = IF armed THEN "yes" ELSE "no"
    BY <2>1 DEF Reports
  <2>4. kind # "armed" => backlog'["armed"] = backlog["armed"]
    BY <2>1 DEF Shapes, Kinds
  <2> QED BY <2>1, <2>2, <2>3, <2>4
<1>3. ASSUME NEW kind \in Kinds, ReadRos(kind)
      PROVE  \/ UNCHANGED <<armed_seen["ROS2"], backlog["armed"]>>
             \/ /\ backlog["armed"] # <<>> /\ backlog'["armed"] = Tail(backlog["armed"])
                /\ armed_seen'["ROS2"] = Head(backlog["armed"])
                /\ UNCHANGED <<control, truth>>
  <2>1. /\ backlog[kind] # <<>> /\ backlog' = [backlog EXCEPT ![kind] = Tail(backlog[kind])]
        /\ UNCHANGED <<control, truth>>
        /\ Sees("ROS2", [Silence EXCEPT ![kind] = Head(backlog[kind])])
    BY <1>3 DEF ReadRos
  <2>2. CASE kind = "armed"
    <3>1. backlog["armed"] \in Seq(Values("armed") \ {"none"})
      BY DEF Shapes, Kinds
    <3>2. Head(backlog["armed"]) # "none"
      BY <2>1, <2>2, <3>1
    <3>3. armed_seen'["ROS2"] = Head(backlog["armed"])
      BY <2>1, <2>2, <3>2 DEF Sees, Silence, Kinds, Shapes, Readers
    <3> QED BY <2>1, <2>2, <3>3 DEF Shapes, Kinds
  <2>3. CASE kind # "armed"
    <3>1. backlog'["armed"] = backlog["armed"]
      BY <2>1, <2>3 DEF Shapes, Kinds
    <3>2. armed_seen'["ROS2"] = armed_seen["ROS2"]
      BY <2>1, <2>3 DEF Sees, Silence, Kinds, Shapes, Readers
    <3> QED BY <3>1, <3>2
  <2> QED BY <2>2, <2>3
<1>4. CASE ReadMavlink \/ MavlinkExpires
  BY <1>4 DEF ReadMavlink, MavlinkExpires, Sees, Shapes, Readers
<1>5. ASSUME NEW any \in Kinds \cup Readers, ReportMavlink(any) \/ PositionExpires(any)
      PROVE  UNCHANGED <<armed_seen["ROS2"], backlog["armed"]>>
  BY <1>5 DEF ReportMavlink, PositionExpires, seen
<1> QED BY <1>1, <1>2, <1>3, <1>4, <1>5 DEF HoverNext, Environment

\* Every value told after a step was told before it, at the same or a later
\* place in the same order, or is what the motors do now.
LEMMA ToldAfterwards ==
  ASSUME Shapes, Shapes', [HoverNext]_hvars
  PROVE  \/ /\ Len(backlog'["armed"]) = Len(backlog["armed"])
            /\ \A i \in 0..Len(backlog["armed"]) : Told(i)' = Told(i)
         \/ /\ UNCHANGED <<control, truth>>
            /\ \E shift \in {0, 1} : \A i \in 0..Len(backlog'["armed"]) :
                 \/ i = Len(backlog'["armed"]) /\ Told(i)' = IF armed THEN "yes" ELSE "no"
                 \/ i = 0 /\ Told(i)' = Told(0)
                 \/ i # 0 /\ i + shift \in 0..Len(backlog["armed"]) /\ Told(i)' = Told(i + shift)
         \/ /\ UNCHANGED <<control, truth>>
            /\ \A i \in 0..Len(backlog'["armed"]) :
                 i + 1 \in 0..Len(backlog["armed"]) /\ Told(i)' = Told(i + 1)
<1> DEFINE b == backlog["armed"]
           value == IF armed THEN "yes" ELSE "no"
<1>1. /\ b \in Seq(Values("armed") \ {"none"}) /\ Len(b) \in Nat
      /\ backlog'["armed"] \in Seq(Values("armed") \ {"none"}) /\ Len(backlog'["armed"]) \in Nat
  BY DEF Shapes, Kinds
<1>2. CASE UNCHANGED <<armed_seen["ROS2"], backlog["armed"]>>
  BY <1>2 DEF Told
<1>3. CASE /\ armed_seen' = armed_seen
           /\ backlog' = [backlog EXCEPT !["armed"] = Received("armed", value)]
           /\ UNCHANGED <<control, truth>>
  <2> DEFINE n == Len(backlog'["armed"])
  <2>1. backlog'["armed"] = Received("armed", value) /\ "armed" \in Kinds
    BY <1>3 DEF Shapes, Kinds
  <2>2. value \in Values("armed") \ {"none"}
    BY DEF Values
  <2>3. /\ Len(Received("armed", value)) \in Nat \ {0}
        /\ Received("armed", value)[Len(Received("armed", value))] = value
        /\ \A i \in 1..(Len(Received("armed", value)) - 1) :
             \/ Len(b) # Backlog /\ i \in 1..Len(b) /\ Received("armed", value)[i] = b[i]
             \/ Len(b) = Backlog /\ i + 1 \in 1..Len(b) /\ Received("armed", value)[i] = b[i + 1]
    BY <2>1, <2>2, ReceivedFacts
  <2>4. /\ n \in Nat \ {0} /\ backlog'["armed"][n] = value
        /\ \A i \in 1..(n - 1) :
             \/ Len(b) # Backlog /\ i \in 1..Len(b) /\ backlog'["armed"][i] = b[i]
             \/ Len(b) = Backlog /\ i + 1 \in 1..Len(b) /\ backlog'["armed"][i] = b[i + 1]
    BY <2>1, <2>3
  <2> HIDE DEF n, value, b
  <2>5. \A i \in 0..n : i = 0 \/ i = n \/ i \in 1..(n - 1)
    BY <2>4
  <2>6. \A i \in 0..n : (i = 0 => Told(i)' = Told(0)) /\ (i = n => Told(i)' = value)
    BY <1>3, <2>4 DEF Told
  <2>7. CASE Len(b) = Backlog
    <3>1. \A i \in 1..(n - 1) : i # 0 /\ i + 1 \in 0..Len(b) /\ Told(i)' = Told(i + 1)
      BY <2>4, <2>7, <1>1 DEF Told, b
    <3>2. \A i \in 0..n :
            \/ i = n /\ Told(i)' = value
            \/ i = 0 /\ Told(i)' = Told(0)
            \/ i # 0 /\ i + 1 \in 0..Len(b) /\ Told(i)' = Told(i + 1)
      BY <2>5, <2>6, <3>1
    <3> QED BY <1>3, <3>2 DEF n, value, b
  <2>8. CASE Len(b) # Backlog
    <3>1. \A i \in 1..(n - 1) : i # 0 /\ i + 0 \in 0..Len(b) /\ Told(i)' = Told(i + 0)
      BY <2>4, <2>8, <1>1 DEF Told, b
    <3>2. \A i \in 0..n :
            \/ i = n /\ Told(i)' = value
            \/ i = 0 /\ Told(i)' = Told(0)
            \/ i # 0 /\ i + 0 \in 0..Len(b) /\ Told(i)' = Told(i + 0)
      BY <2>5, <2>6, <3>1
    <3> QED BY <1>3, <3>2 DEF n, value, b
  <2> QED BY <2>7, <2>8
<1>4. CASE /\ b # <<>> /\ backlog'["armed"] = Tail(b)
           /\ armed_seen'["ROS2"] = Head(b)
           /\ UNCHANGED <<control, truth>>
  <2>1. /\ Head(b) = b[1] /\ Len(Tail(b)) = Len(b) - 1 /\ Len(b) \in Nat \ {0}
        /\ \A i \in 1..(Len(b) - 1) : Tail(b)[i] = b[i + 1]
    BY <1>1, <1>4
  <2> HIDE DEF b
  <2> QED BY <1>4, <2>1 DEF Told, b
<1> QED BY <1>2, <1>3, <1>4, NewsMoves

LEMMA ArmedOnceKept ==
  ASSUME Queueing, Shapes, Shapes', ArmedOnce, [HoverNext]_hvars
  PROVE  ArmedOnce'
<1> DEFINE last == Len(backlog["armed"])
<1>0. last \in Nat /\ last' \in Nat
  BY DEF Shapes, Kinds
<1>1. aloft' => armed'
  BY DEF ArmedOnce, HoverNext, Execute, Environment, Preflight, Arm, ArmWait, TakeOff, Climb, Land,
         Descend, RequestManualTakeover, Reset, Controller, Disarm, ReportRos, ReportMavlink,
         ReadRos, ReadMavlink, MavlinkExpires, PositionExpires, control, truth, hvars
<1>2. armed' => ArmSpent'
  BY SpentStays, ArmingIsSpent DEF ArmedOnce
<1>3. ArmSpent /\ ~armed => ~armed'
  BY ArmingIsSpent
<1>4. CASE last' = last /\ \A i \in 0..last : Told(i)' = Told(i)
  <2>1. \A i \in 0..last' : Told(i)' = "yes" => ArmSpent'
    BY <1>4, SpentStays DEF ArmedOnce
  <2>2. \A i, j \in 0..last' : i < j /\ Told(i)' = "yes" /\ Told(j)' = "no" => ~armed'
    BY <1>3, <1>4 DEF ArmedOnce
  <2> QED BY <1>1, <1>2, <2>1, <2>2 DEF ArmedOnce
<1>5. CASE /\ UNCHANGED <<control, truth>>
           /\ \E shift \in {0, 1} : \A i \in 0..last' :
                \/ i = last' /\ Told(i)' = IF armed THEN "yes" ELSE "no"
                \/ i = 0 /\ Told(i)' = Told(0)
                \/ i # 0 /\ i + shift \in 0..last /\ Told(i)' = Told(i + shift)
  <2>1. armed' = armed
    BY <1>5 DEF truth
  <2>2. PICK shift \in {0, 1} : \A i \in 0..last' :
          \/ i = last' /\ Told(i)' = IF armed THEN "yes" ELSE "no"
          \/ i = 0 /\ Told(i)' = Told(0)
          \/ i # 0 /\ i + shift \in 0..last /\ Told(i)' = Told(i + shift)
    BY <1>5
  <2>3. 0 \in 0..last
    BY <1>0
  <2>4. \A i \in 0..last' : Told(i)' = "yes" => ArmSpent'
    BY <2>2, <2>3, SpentStays DEF ArmedOnce
  <2>5. ASSUME NEW i \in 0..last', NEW j \in 0..last', i < j, Told(i)' = "yes", Told(j)' = "no"
        PROVE  ~armed'
    <3>1. CASE j = last' /\ Told(j)' = IF armed THEN "yes" ELSE "no"
      BY <2>1, <2>5, <3>1
    <3>2. CASE i = last'
      BY <1>0, <2>5, <3>2
    <3>3. CASE i # last' /\ j # 0 /\ j + shift \in 0..last /\ Told(j)' = Told(j + shift)
      <4>1. \E k \in 0..last : k < j + shift /\ Told(k) = "yes"
        BY <1>0, <2>2, <2>3, <2>5, <3>3
      <4> QED BY <2>1, <2>5, <3>3, <4>1 DEF ArmedOnce
    <3>4. j # 0
      BY <1>0, <2>5
    <3> QED BY <2>2, <3>1, <3>2, <3>3, <3>4
  <2> QED BY <1>1, <1>2, <2>4, <2>5 DEF ArmedOnce
<1>6. CASE /\ UNCHANGED <<control, truth>>
           /\ \A i \in 0..last' : i + 1 \in 0..last /\ Told(i)' = Told(i + 1)
  <2>1. \A i \in 0..last' : Told(i)' = "yes" => ArmSpent'
    BY <1>6, SpentStays DEF ArmedOnce
  <2>2. ASSUME NEW i \in 0..last', NEW j \in 0..last', i < j, Told(i)' = "yes", Told(j)' = "no"
        PROVE  ~armed'
    <3>1. i + 1 \in 0..last /\ j + 1 \in 0..last /\ i + 1 < j + 1
      BY <1>0, <1>6, <2>2
    <3> QED BY <1>6, <2>2, <3>1 DEF ArmedOnce, truth
  <2> QED BY <1>1, <1>2, <2>1, <2>2 DEF ArmedOnce
<1> QED BY <1>4, <1>5, <1>6, ToldAfterwards

\* MAVLink stays silent, and execute's wait ends by reading that it is armed.
LEMMA RosAloneKept ==
  ASSUME Shapes, RosAlone, RosOnly, [HoverNext]_hvars
  PROVE  /\ RosOnly'
         /\ unread' = Silence /\ ~mav_online' /\ armed_seen'["ROS2"] # "none"
         /\ phase' \in {"take_off", "climb", "land", "descend", "ok"} => confirmed'
<1>1. sources' = sources
  BY DEF HoverNext, Execute, Environment, Preflight, Arm, ArmWait, TakeOff, Climb, Land, Descend,
         RequestManualTakeover, Reset, Controller, Disarm, ReportRos, ReportMavlink, ReadRos,
         ReadMavlink, MavlinkExpires, PositionExpires, control, hvars
<1>2. /\ unread = Silence /\ ~mav_online /\ armed_seen["ROS2"] # "none"
      /\ phase \in {"take_off", "climb", "land", "descend", "ok"} => confirmed
  BY DEF RosAlone
<1>3. ~ReadMavlink /\ \A kind \in Kinds : ~ReportMavlink(kind)
  BY <1>2 DEF ReadMavlink, ReportMavlink, RosOnly
<1>4. unread' = unread
  BY <1>3 DEF HoverNext, Execute, Environment, Preflight, Arm, ArmWait, TakeOff, Climb, Land, Descend,
         RequestManualTakeover, Reset, Controller, Disarm, ReportRos, ReadRos,
         MavlinkExpires, PositionExpires, telemetry, seen, hvars
<1>5. ~mav_online'
  BY <1>2, <1>3 DEF HoverNext, Execute, Environment, Preflight, Arm, ArmWait, TakeOff, Climb, Land,
         Descend, RequestManualTakeover, Reset, Controller, Disarm, ReportRos, ReadRos,
         MavlinkExpires, PositionExpires, telemetry, seen, hvars
<1>6. armed_seen'["ROS2"] # "none"
  <2>1. backlog["armed"] \in Seq(Values("armed") \ {"none"})
    BY DEF Shapes, Kinds
  <2>2. CASE backlog["armed"] # <<>> /\ armed_seen'["ROS2"] = Head(backlog["armed"])
    BY <2>1, <2>2
  <2> QED BY <1>2, <2>2, NewsMoves
<1>7. phase' \in {"take_off", "climb", "land", "descend", "ok"} => confirmed'
  <2>1. CASE ArmWait
    <3>1. Armed = armed_seen["ROS2"] /\ ArmedValid
      BY <1>2 DEF Armed, ArmedValid
    <3> QED BY <2>1, <3>1 DEF ArmWait, ArmWaitOver, DeadlinePasses
  <2>2. CASE ~ArmWait
    BY <1>2, <2>2 DEF HoverNext, Execute, Environment, Preflight, Arm, TakeOff, Climb, Land,
         Descend, RequestManualTakeover, Reset, Publish, DeadlinePasses, Controller, Disarm, ReportRos,
         ReportMavlink, ReadRos, ReadMavlink, MavlinkExpires, PositionExpires, control, hvars
  <2> QED BY <2>1, <2>2
<1> QED BY <1>1, <1>2, <1>4, <1>5, <1>6, <1>7 DEF RosOnly

LEMMA NoIsFinalKept ==
  ASSUME Queueing, Shapes, Shapes', RosAlone, ArmedOnce, NoIsFinal, [HoverNext]_hvars, RosOnly
  PROVE  /\ phase' \in {"take_off", "climb", "land", "descend"} /\ armed_seen'["ROS2"] = "no" =>
              ~armed' /\ ArmSpent'
         /\ phase' = "ok" => ~armed' /\ ArmSpent'
<1> DEFINE flight == {"take_off", "climb", "land", "descend"}
           b == backlog["armed"]
<1>1. ~armed /\ ArmSpent => ~armed' /\ ArmSpent'
  BY SpentStays, ArmingIsSpent
<1>2. /\ phase \in flight /\ armed_seen["ROS2"] = "no" => ~armed /\ ArmSpent
      /\ phase = "ok" => ~armed /\ ArmSpent
  BY DEF NoIsFinal
<1>3. ~mav_online /\ armed_seen["ROS2"] \in {"no", "yes"}
  BY DEF RosAlone, Shapes, Readers, Values
<1>4. Armed = armed_seen["ROS2"] /\ ArmedValid
  BY <1>3 DEF Armed, ArmedValid
<1>5. phase' \in flight => phase \in flight \/ (phase = "arm_wait" /\ armed_seen["ROS2"] = "yes" /\ UNCHANGED telemetry)
  BY <1>4 DEF HoverNext, Execute, Environment, Preflight, Arm, ArmWait, ArmWaitOver, TakeOff, Climb, Land,
         Descend, RequestManualTakeover, Reset, Publish, DeadlinePasses, Controller, Disarm, ReportRos,
         ReportMavlink, ReadRos, ReadMavlink, MavlinkExpires, PositionExpires, control, hvars
<1>6. phase' = "ok" => phase = "ok" \/ (phase \in flight /\ armed_seen["ROS2"] = "no")
  BY <1>4 DEF HoverNext, Execute, Environment, Preflight, Arm, ArmWait, TakeOff, Climb, Land,
         Descend, Landed, RequestManualTakeover, Reset, Publish, DeadlinePasses, Controller, Disarm,
         ReportRos, ReportMavlink, ReadRos, ReadMavlink, MavlinkExpires, PositionExpires, control, hvars
<1>7. ASSUME phase' \in flight, armed_seen'["ROS2"] = "no"
      PROVE  ~armed' /\ ArmSpent'
  <2>1. phase \in flight
    BY <1>5, <1>7 DEF telemetry, seen
  <2>2. CASE armed_seen["ROS2"] = "no"
    BY <1>1, <1>2, <2>1, <2>2
  <2>3. CASE armed_seen["ROS2"] = "yes"
    <3>1. b # <<>> /\ armed_seen'["ROS2"] = Head(b)
      BY <1>7, <2>3, NewsMoves
    <3>2. b \in Seq(Values("armed") \ {"none"})
      BY DEF Shapes, Kinds
    <3>3. Head(b) = b[1] /\ Len(b) \in Nat \ {0}
      BY <3>1, <3>2
    <3>4. Told(0) = "yes" /\ Told(1) = "no" /\ 0 \in 0..Len(b) /\ 1 \in 0..Len(b)
      BY <1>7, <2>3, <3>1, <3>3 DEF Told
    <3>5. ~armed /\ ArmSpent
      BY <3>4 DEF ArmedOnce
    <3> QED BY <1>1, <3>5
  <2> QED BY <1>3, <2>2, <2>3
<1> QED BY <1>1, <1>2, <1>6, <1>7

LEMMA FlightInvariance == HoverSpec => []HoverInv
<1>1. HoverInv /\ [HoverNext]_hvars => HoverInv'
  <2> SUFFICES ASSUME HoverInv, [HoverNext]_hvars PROVE HoverInv'
    OBVIOUS
  <2>1. Queueing' /\ Shapes'
    BY QueueingKept, ShapesKept DEF HoverInv
  <2>2. RosOnly' => RosOnly
    BY DEF HoverNext, Execute, Environment, Preflight, Arm, ArmWait, TakeOff, Climb, Land, Descend,
         RequestManualTakeover, Reset, Controller, Disarm, ReportRos, ReportMavlink, ReadRos,
         ReadMavlink, MavlinkExpires, PositionExpires, control, hvars, RosOnly
  <2>3. ArmedOnce'
    BY <2>1, ArmedOnceKept DEF HoverInv
  <2>4. RosAlone'
    BY <2>2, RosAloneKept DEF HoverInv, RosAlone
  <2>5. NoIsFinal'
    BY <2>1, <2>2, NoIsFinalKept DEF HoverInv, NoIsFinal
  <2> QED BY <2>1, <2>3, <2>4, <2>5 DEF HoverInv
<1> QED BY <1>1, HoverStarts, PTL DEF HoverSpec

\* With the ROS 2 reader alone, however late and in whatever order its messages
\* are read, take-off follows a confirmed arming.
THEOREM TakeoffIsConfirmed == HoverSpec => []TakeoffConfirmed
<1>1. HoverInv => TakeoffConfirmed
  BY DEF HoverInv, RosAlone, TakeoffConfirmed, TakeoffConfirmedAlways
<1> QED BY <1>1, FlightInvariance, PTL

\* With the ROS 2 reader alone a successful test leaves the vehicle on the ground
\* with its motors off, although "not armed" from before the flight may be the
\* last thing that was read.
THEOREM SuccessIsLanded == HoverSpec => []LandedTruly
<1>1. HoverInv => LandedTruly
  BY DEF HoverInv, ArmedOnce, NoIsFinal, LandedTruly, LandedTrulyAlways
<1> QED BY <1>1, FlightInvariance, PTL

-----------------------------------------------------------------------------
(***************************************************************************)
(* ApproachGrasp: for any memory and any number of threads.                *)
(***************************************************************************)

\* What `moving` stands for: a thread that has work left holds it.  `done`
\* and what comes before it show that the gripper was closed.
GrabInv ==
  /\ OneGrabber
  /\ \A t \in Threads : grab[t] \notin {"idle", "finish"} => moving
  /\ \A t \in Threads : grab[t] \in {"lift", "clear", "finish"} => gripper = "closed"
  /\ done => gripper = "closed"
  /\ main = "finished" /\ dist = "reach" => done

\* seen_in_range stands for a block met between APPROACH_STOP and 0.6 m; a car
\* that lost such a block was stopped for it.
DriveInv ==
  /\ main = "drive" => (seen_in_range <=> "near" \in met)
  /\ main = "drive" /\ lost_since => seen_in_range /\ wheels = "stop"
  /\ main = "drive" /\ seen_in_range /\ sight = "lost" => lost_since

ApproachInv == ApproachTypeOK /\ GrabInv /\ DriveInv

LEMMA OlderType ==
  ASSUME NEW age \in 0..(Memory + 1), NEW ticks \in 0..Memory
  PROVE  Older(age, ticks) \in 0..(Memory + 1)
  BY MemoryAssumption DEF Older

\* What drive_phase steers by is a target, or one without a distance.
LEMMA KeptType ==
  ASSUME ApproachTypeOK, NEW view \in Sighting, NEW target \in Kept(view)
  PROVE  target \in Sighting /\ (target.dist # Nothing => target \in Target)
  BY DEF Kept, ApproachTypeOK, Sighting, Target

\* The types and the stop of the wheels over an iteration that steers.
LEMMA SteerInv ==
  ASSUME ApproachTypeOK, NEW target \in Sighting, target.dist # Nothing => target \in Target,
         main = "drive", Steer(target)
  PROVE  /\ main' \in {"drive", "check", "track", "wait", "finished"}
         /\ wheels' \in {"stop", "forward", "turn"}
         /\ seen_in_range' \in BOOLEAN /\ lost_since' = FALSE
         /\ dist' \in {"far", "near", "reach", Nothing}
         /\ memory' \in Target \cup {Nothing}
         /\ main' \in {"check", "track", "wait"} => wheels' = "stop" /\ dist' = "reach"
         /\ main' = "finished" => dist' # "reach"
  BY DEF Steer, SeenAgain, EndDrive, ApproachTypeOK, Target, Sighting

\* seen_in_range goes on to stand for a block that was met there.
LEMMA SteerMeets ==
  ASSUME ApproachTypeOK, DriveInv, NEW target \in Sighting, main = "drive", Steer(target)
  PROVE  /\ met' \subseteq {"near", "reach"}
         /\ seen_in_range' <=> "near" \in met'
<1>1. met' = met \cup ({target.dist} \cap {"near", "reach"})
  BY DEF Steer
<1>2. met' \subseteq {"near", "reach"}
  BY <1>1 DEF ApproachTypeOK
<1>3. "near" \in met' <=> "near" \in met \/ target.dist = "near"
  BY <1>1
<1>4. seen_in_range' <=> seen_in_range \/ target.dist = "near"
  <2>1. CASE target.dist = "reach" /\ seen_in_range' = seen_in_range
    BY <2>1
  <2>2. CASE seen_in_range' = (seen_in_range \/ target.dist = "near")
    BY <2>2
  <2> QED BY <2>1, <2>2 DEF Steer
<1> QED BY <1>2, <1>3, <1>4 DEF DriveInv

LEMMA DriveFramePreserves ==
  ASSUME ApproachInv, NEW ticks \in 0..Memory, DriveFrame(ticks)
  PROVE  ApproachInv'
<1> USE DEF ApproachInv
<1>1. /\ main = "drive" /\ UNCHANGED <<moving, done, grab, gripper, arm>>
      /\ memory_age \in 0..(Memory + 1) /\ unseen \in 0..(Memory + 1)
  BY DEF DriveFrame, arms, ApproachTypeOK
<1>2. /\ Older(memory_age, ticks) \in 0..(Memory + 1)
      /\ Older(unseen, ticks) \in 0..(Memory + 1)
      /\ 0 \in 0..(Memory + 1)
  BY <1>1, OlderType, MemoryAssumption
<1>3. ASSUME NEW view \in Sighting, NEW target \in Kept(view), Steer(target),
             sight' = "seen", unseen' = 0,
             memory_age' = IF view.dist = Nothing THEN Older(memory_age, ticks) ELSE 0
      PROVE  ApproachInv'
  <2>1. target \in Sighting /\ (target.dist # Nothing => target \in Target)
    BY KeptType
  <2>2. ApproachTypeOK'
    BY <1>1, <1>2, <1>3, <2>1, SteerInv, SteerMeets DEF ApproachTypeOK
  <2>3. GrabInv'
    BY <1>1, <1>3, <2>1, SteerInv DEF GrabInv, OneGrabber
  <2> QED BY <1>1, <1>3, <2>1, <2>2, <2>3, SteerInv, SteerMeets DEF DriveInv
<1>4. ASSUME unseen' = Older(unseen, ticks), memory # Nothing, Steer(memory),
             sight' = "remembered", memory_age' = 0
      PROVE  ApproachInv'
  <2>1. memory \in Target /\ memory \in Sighting
    BY <1>4 DEF ApproachTypeOK, Sighting
  <2>2. ApproachTypeOK'
    BY <1>1, <1>2, <1>4, <2>1, SteerInv, SteerMeets DEF ApproachTypeOK
  <2>3. GrabInv'
    BY <1>1, <1>4, <2>1, SteerInv DEF GrabInv, OneGrabber
  <2> QED BY <1>1, <1>4, <2>1, <2>2, <2>3, SteerInv, SteerMeets DEF DriveInv
<1>5. ASSUME unseen' = Older(unseen, ticks), Lost, memory_age' = Older(memory_age, ticks)
      PROVE  ApproachInv'
  <2>1. ApproachTypeOK'
    BY <1>1, <1>2, <1>5 DEF ApproachTypeOK, Lost, EndDrive
  <2>2. GrabInv'
    BY <1>1, <1>5 DEF GrabInv, OneGrabber, Lost, EndDrive
  <2>3. DriveInv'
    BY <1>1, <1>5 DEF DriveInv, Lost, EndDrive
  <2> QED BY <2>1, <2>2, <2>3
<1> QED BY <1>3, <1>4, <1>5 DEF DriveFrame

LEMMA NextPreserves == ApproachInv /\ [ApproachNext]_avars => ApproachInv'
<1> SUFFICES ASSUME ApproachInv, [ApproachNext]_avars PROVE ApproachInv'
  OBVIOUS
<1> USE DEF ApproachInv
<1>1. CASE \E ticks \in 0..Memory : DriveFrame(ticks)
  BY <1>1, DriveFramePreserves
<1>2. CASE \E ticks \in 0..Memory : NoFrame(ticks)
  <2>1. PICK ticks \in 0..Memory : NoFrame(ticks)
    BY <1>2
  <2>2. memory_age' \in 0..(Memory + 1) /\ unseen' \in 0..(Memory + 1)
    BY <2>1, OlderType DEF NoFrame, ApproachTypeOK
  <2> QED BY <2>1, <2>2 DEF NoFrame, arms, ApproachTypeOK, GrabInv, OneGrabber, DriveInv
<1>3. CASE DriveTimeout
  BY <1>3 DEF DriveTimeout, EndDrive, mem, arms, ApproachTypeOK, GrabInv, OneGrabber, DriveInv
<1>4. CASE Check
  BY <1>4 DEF Check, drive, mem, ApproachTypeOK, GrabInv, OneGrabber, DriveInv
<1>5. CASE Track
  <2>1. ApproachTypeOK'
    BY <1>5 DEF Track, StartGrab, drive, mem, ApproachTypeOK
  <2>2. GrabInv'
    BY <1>5 DEF Track, StartGrab, drive, mem, ApproachTypeOK, GrabInv, OneGrabber
  <2> QED BY <1>5, <2>1, <2>2 DEF Track, drive, DriveInv
<1>6. CASE Wait
  BY <1>6 DEF Wait, drive, mem, arms, ApproachTypeOK, GrabInv, OneGrabber, DriveInv
<1>7. ASSUME NEW t \in Threads, GrabStep(t) \/ Raise(t)
      PROVE  ApproachInv'
  <2>1. UNCHANGED <<main, drive>>
    BY <1>7 DEF GrabStep, Measure, Reach, Close, Lift, ClearMoving, SetDone, Raise
  <2>2. DriveInv'
    BY <2>1 DEF drive, DriveInv
  <2>3. CASE Measure(t)
    <3>1. moving' \in BOOLEAN /\ done' \in BOOLEAN
      BY <2>3 DEF Measure, Skipped, ApproachTypeOK
    <3>2. memory' \in Target \cup {Nothing} /\ memory_age' \in 0..(Memory + 1)
      BY <2>3, MemoryAssumption DEF Measure, ApproachTypeOK
    <3>3. grab' \in [Threads -> {"idle", "start", "reach", "close", "lift", "clear", "finish"}]
      BY <2>3 DEF Measure, Skipped, Goes, ApproachTypeOK
    <3>4. ApproachTypeOK'
      BY <2>1, <2>3, <3>1, <3>2, <3>3 DEF Measure, drive, ApproachTypeOK
    <3>5. GrabInv'
      BY <2>1, <2>3 DEF Measure, Skipped, Goes, drive, ApproachTypeOK, GrabInv, OneGrabber
    <3> QED BY <2>2, <3>4, <3>5
  <2>4. CASE Reach(t)
    BY <2>1, <2>2, <2>4 DEF Reach, Goes, drive, mem, ApproachTypeOK, GrabInv, OneGrabber
  <2>5. CASE Close(t)
    BY <2>1, <2>2, <2>5 DEF Close, Goes, drive, mem, ApproachTypeOK, GrabInv, OneGrabber
  <2>6. CASE Lift(t)
    BY <2>1, <2>2, <2>6 DEF Lift, Goes, drive, mem, ApproachTypeOK, GrabInv, OneGrabber
  <2>7. CASE ClearMoving(t)
    <3>1. moving' \in BOOLEAN
      BY <2>7 DEF ClearMoving
    <3>2. ApproachTypeOK'
      BY <2>1, <2>7, <3>1 DEF ClearMoving, Goes, drive, mem, ApproachTypeOK
    <3>3. \A u \in Threads : grab'[u] \in {"idle", "finish"}
      BY <2>7 DEF ClearMoving, Goes, ApproachTypeOK, GrabInv, OneGrabber
    <3>4. gripper' = gripper /\ gripper = "closed" /\ done' = done
      BY <2>7 DEF ClearMoving, Goes, GrabInv
    <3>5. GrabInv'
      BY <2>1, <3>3, <3>4 DEF drive, GrabInv, OneGrabber
    <3> QED BY <2>2, <3>2, <3>5
  <2>8. CASE SetDone(t)
    BY <2>1, <2>2, <2>8 DEF SetDone, Goes, drive, mem, ApproachTypeOK, GrabInv, OneGrabber
  <2>9. CASE Raise(t)
    BY <2>1, <2>2, <2>9 DEF Raise, drive, mem, ApproachTypeOK, GrabInv, OneGrabber
  <2> QED BY <1>7, <2>3, <2>4, <2>5, <2>6, <2>7, <2>8, <2>9 DEF GrabStep
<1>8. CASE UNCHANGED avars
  BY <1>8 DEF avars, drive, mem, arms, ApproachTypeOK, GrabInv, OneGrabber, DriveInv
<1> QED BY <1>1, <1>2, <1>3, <1>4, <1>5, <1>6, <1>7, <1>8 DEF ApproachNext

LEMMA ApproachInvariance == ApproachSpec => []ApproachInv
<1>1. ApproachInit => ApproachTypeOK
  <2>1. 0 \in 0..(Memory + 1) /\ Memory + 1 \in 0..(Memory + 1)
    BY MemoryAssumption
  <2> QED BY <2>1 DEF ApproachInit, ApproachTypeOK
<1>2. ApproachInit => GrabInv /\ DriveInv
  BY DEF ApproachInit, GrabInv, OneGrabber, DriveInv
<1>3. ApproachInit => ApproachInv
  BY <1>1, <1>2 DEF ApproachInv
<1> QED BY <1>3, NextPreserves, PTL DEF ApproachSpec

\* The types, and the standing car while the arm has its turn.
THEOREM ApproachTypeCorrect == ApproachSpec => []ApproachTypeOK
<1>1. ApproachInv => ApproachTypeOK
  BY DEF ApproachInv
<1> QED BY <1>1, ApproachInvariance, PTL

\* Whatever the frames show, a car that has steered by the block between
\* APPROACH_STOP and 0.6 m and lost it stands.  Of a block that was only met
\* within APPROACH_STOP this is not true (LostStopsInReach).
THEOREM StopsWhenLost == ApproachSpec => []LostStops
<1>1. ApproachInv => LostStops
  BY DEF ApproachInv, DriveInv, LostStops
<1> QED BY <1>1, ApproachInvariance, PTL

\* However many threads there may be, at most one of them moves the arm.
THEOREM GrabsAlone == ApproachSpec => []OneGrabber
<1>1. ApproachInv => OneGrabber
  BY DEF ApproachInv, GrabInv
<1> QED BY <1>1, ApproachInvariance, PTL

\* A grasp that is reported finished closed the gripper.
THEOREM FinishesHolding == ApproachSpec => []FinishedHolding
<1>1. ApproachInv => FinishedHolding
  BY DEF ApproachInv, GrabInv, FinishedHolding
<1> QED BY <1>1, ApproachInvariance, PTL

=============================================================================
