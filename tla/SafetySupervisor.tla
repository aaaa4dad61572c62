-------------------------- MODULE SafetySupervisor --------------------------
(***************************************************************************)
(* The UAV's fault detector                                                *)
(* (devices/uav/group4/agent/safety_supervisor.py): one call of evaluate   *)
(* per telemetry sample, with the state it keeps between the calls.        *)
(*                                                                         *)
(* A sample is abstracted to what the comparisons with the thresholds tell *)
(* apart: an age has reached its failure threshold ("lost", which is also  *)
(* what a missing number counts as) or not ("ok"), and the thresholds of   *)
(* the battery, which the class requires to be ordered, leave five classes *)
(* of charge.  Two different Points are further apart than                 *)
(* maximum_position_jump_m.                                                *)
(***************************************************************************)
EXTENDS Naturals

CONSTANTS
  Points,          \* positions the stream may report
  RecoveryStable,  \* position_recovery_stable_s
  BlindLanding,    \* allow_emergency_land_without_position (FALSE by default)
  None             \* Python's None

Ages     == {"ok", "lost"}
Charges  == {"unknown", "critical", "return", "low", "good"}
Actions  == {"NONE", "WARN", "REJECT_NEW_TASK", "HOLD_POSITION",
             "RETURN_HOME", "LAND_NOW", "MANUAL_TAKEOVER"}

\* position is None when a coordinate is no number or position_valid is false.
Sample == [position : Points \cup {None}, position_age : Ages,
           battery : Charges, battery_age : Ages,
           fcu_age : Ages, coordinator_age : Ages]

Call == [sample : Sample, airborne : BOOLEAN, accepting : BOOLEAN]

Decision == [action : Actions, latched : BOOLEAN]

ASSUME SupervisorAssumption ==
  /\ RecoveryStable \in Nat \ {0}
  /\ BlindLanding \in BOOLEAN
  /\ None \notin Points
  /\ None \notin Nat
  /\ None \notin Call

VARIABLES
  latched_action,  \* _latched_action, None while nothing is latched
  last_position,   \* _last_position
  recovery,        \* seconds since _position_recovery_since_s (None), capped
  call,            \* the arguments of the last evaluate, None after a reset
  decision,        \* and what it returned
  clean_for        \* seconds without an unusable or jumping sample, capped

svars == <<latched_action, last_position, recovery, call, decision, clean_for>>

-----------------------------------------------------------------------------
Cap(n) == IF n > RecoveryStable THEN RecoveryStable ELSE n

Usable(s) == s.position # None /\ s.position_age # "lost"

Jumps(s) == last_position # None /\ s.position # last_position

\* Seconds the stream has been good, dt after the previous sample.
Recovery(dt) == IF recovery = None THEN 0 ELSE Cap(recovery + dt)

\* _position_health
PositionCode(s, dt) ==
  IF s.position = None               THEN "POSITION_INVALID"
  ELSE IF s.position_age = "lost"    THEN "POSITION_STALE"
  ELSE IF Jumps(s)                   THEN "POSITION_JUMP"
  ELSE IF Recovery(dt) < RecoveryStable THEN "POSITION_RECOVERING"
  ELSE "POSITION_OK"

TrackPositionThroughOutage(s, dt) ==   \* a mistake: only a jump resets it
  /\ last_position' = IF Usable(s) THEN s.position ELSE last_position
  /\ recovery' = IF Usable(s) /\ Jumps(s) THEN None ELSE Recovery(dt)

TrackPosition(s, dt) ==
  /\ last_position' = IF Usable(s) THEN s.position ELSE last_position
  /\ recovery' = IF Usable(s) /\ ~Jumps(s) THEN Recovery(dt) ELSE None

\* A verdict and whether the code passes it through _latch.
Verdict(action, latch) == [action |-> action, latch |-> latch]

\* A mistake: a latched flight falls through to the ground's answer.
InFlightOnce(airborne, action) ==
  IF airborne /\ latched_action = None THEN Verdict(action, TRUE)
  ELSE Verdict("REJECT_NEW_TASK", FALSE)

\* On the ground a fault only keeps the vehicle from taking off.
InFlight(airborne, action) ==
  IF airborne THEN Verdict(action, TRUE) ELSE Verdict("REJECT_NEW_TASK", FALSE)

AdmissibleUnderThreshold(s, code) ==   \* a mistake: task_min is not compared
  /\ s.battery_age # "lost"
  /\ s.battery # "unknown"
  /\ code = "POSITION_OK"

\* accepting_new_task: the conditions of a take-off.
Admissible(s, code) ==
  /\ s.battery_age # "lost"
  /\ s.battery = "good"
  /\ code = "POSITION_OK"

\* The checks of evaluate, in their order; delayed tells that an age has reached
\* its warning threshold, as every lost one has.
Assess(s, code, airborne, accepting, delayed) ==
  IF s.fcu_age = "lost" THEN InFlight(airborne, "MANUAL_TAKEOVER")
  ELSE IF s.battery = "critical" THEN
    InFlight(airborne, IF code = "POSITION_OK" \/ BlindLanding
                       THEN "LAND_NOW" ELSE "MANUAL_TAKEOVER")
  ELSE IF airborne /\ code # "POSITION_OK" THEN
    IF code = "POSITION_RECOVERING" \/ s.position_age # "lost"
    THEN Verdict("HOLD_POSITION", FALSE)
    ELSE Verdict("MANUAL_TAKEOVER", TRUE)
  ELSE IF s.battery = "return" THEN InFlight(airborne, "RETURN_HOME")
  ELSE IF s.coordinator_age = "lost" THEN InFlight(airborne, "RETURN_HOME")
  ELSE IF accepting /\ ~Admissible(s, code) THEN
    Verdict("REJECT_NEW_TASK", FALSE)
  ELSE IF delayed \/ s.position_age = "lost" \/ s.battery_age = "lost" THEN
    Verdict("WARN", FALSE)
  ELSE Verdict("NONE", FALSE)

\* _latch: the first emergency answers for all that follow it.
Latch(v) ==
  IF ~v.latch
  THEN /\ decision' = [action |-> v.action, latched |-> FALSE]
       /\ UNCHANGED latched_action
  ELSE IF latched_action = None
  THEN /\ decision' = [action |-> v.action, latched |-> FALSE]
       /\ latched_action' = v.action
  ELSE /\ decision' = [action |-> latched_action, latched |-> TRUE]
       /\ UNCHANGED latched_action

\* One sample, dt seconds after the one before it.
Evaluate(s, airborne, accepting, delayed, dt) ==
  /\ call' = [sample |-> s, airborne |-> airborne, accepting |-> accepting]
  /\ Latch(Assess(s, PositionCode(s, dt), airborne, accepting, delayed))
  /\ TrackPosition(s, dt)
  /\ clean_for' = IF Usable(s) /\ ~Jumps(s) THEN Cap(clean_for + dt) ELSE 0

\* reset_after_safe_landing, which the caller owes a landing.
ResetAfterSafeLanding ==
  /\ call # None /\ ~call.airborne
  /\ latched_action' = None
  /\ last_position' = None
  /\ recovery' = None
  /\ clean_for' = 0
  /\ call' = None
  /\ UNCHANGED decision

Init ==
  /\ latched_action = None
  /\ last_position = None
  /\ recovery = None
  /\ call = None
  /\ decision = [action |-> "NONE", latched |-> FALSE]
  /\ clean_for = 0

Next ==
  \/ \E s \in Sample, airborne, accepting, delayed \in BOOLEAN, dt \in 1..RecoveryStable :
       Evaluate(s, airborne, accepting, delayed, dt)
  \/ ResetAfterSafeLanding

Spec == Init /\ [][Next]_svars

-----------------------------------------------------------------------------
(* Properties                                                              *)

Emergencies   == {"RETURN_HOME", "LAND_NOW", "MANUAL_TAKEOVER"}
FlightActions == Emergencies \cup {"HOLD_POSITION"}

\* Type invariant.
TypeOK ==
  /\ latched_action \in Emergencies \cup {None}
  /\ last_position \in Points \cup {None}
  /\ recovery \in (0..RecoveryStable) \cup {None}
  /\ call \in Call \cup {None}
  /\ decision \in Decision
  /\ clean_for \in 0..RecoveryStable

\* A flight that is not yet under an emergency is only sent home by coordinates,
\* and only lands by itself, on a stream that has been usable and free of jumps
\* for the whole recovery time (or when blind landing was opted into).
FirstMoveNeedsPosition ==
  call # None /\ decision.action \in {"RETURN_HOME", "LAND_NOW"} /\ ~decision.latched =>
    \/ clean_for >= RecoveryStable
    \/ decision.action = "LAND_NOW" /\ BlindLanding

\* A new task is let through only with a fresh and sufficient charge, a settled
\* position and both links up, whichever fault is looked at first.
AdmissionSafe ==
  call # None /\ call.accepting /\ decision.action \in {"NONE", "WARN"} =>
    /\ call.sample.battery = "good" /\ call.sample.battery_age = "ok"
    /\ call.sample.fcu_age # "lost" /\ call.sample.coordinator_age # "lost"
    /\ clean_for >= RecoveryStable

\* In flight no fault is answered with a warning or with the refusal of a task.
FaultNeverIgnored ==
  call # None /\ call.airborne
  /\ \/ call.sample.fcu_age = "lost"
     \/ call.sample.coordinator_age = "lost"
     \/ call.sample.battery \in {"critical", "return"}
     \/ ~Usable(call.sample)
     \/ clean_for < RecoveryStable
  => decision.action \in FlightActions

\* On the ground no sample, and no emergency left from the last flight, ever
\* asks for a manoeuvre.
GroundNeverManoeuvres ==
  call # None /\ ~call.airborne => decision.action \notin FlightActions

\* tests/test_safety_supervisor.py:70, test_position_loss_never_blindly_returns:
\* while the position is lost the supervisor never asks for a return.
LossNeverReturns ==
  call # None /\ call.airborne /\ ~Usable(call.sample) => decision.action # "RETURN_HOME"

\* safety_supervisor.py:162 gives a lost command channel the highest priority,
\* because no other command can be claimed to arrive.
CommandChannelFirst ==
  call # None /\ call.airborne /\ call.sample.fcu_age = "lost" =>
    decision.action = "MANUAL_TAKEOVER"

\* tests/test_safety_supervisor.py:99, test_emergency_action_is_latched_and_
\* not_replaced: once latched the emergency is what a flight is told.
EmergencyNotReplaced ==
  call # None /\ call.airborne /\ latched_action # None => decision.action = latched_action

=============================================================================
