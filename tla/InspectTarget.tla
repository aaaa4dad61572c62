---------------------------- MODULE InspectTarget ----------------------------
(***************************************************************************)
(* The INSPECT_TARGET behaviour of a UAV (behaviors/inspect_target.py):    *)
(* execute runs one script of calls to the adapter, the detector, the      *)
(* uploader and the feedback callback; any of them may raise, and the      *)
(* except and finally clauses have to bring the vehicle home or hand it    *)
(* over.  Tasks follow one another on the same adapter.                    *)
(*                                                                         *)
(* Which calls can raise is the adapter's, because the behaviour is        *)
(* written for any UAVAdapter.  Positions are reduced to "home" and "away".*)
(***************************************************************************)
EXTENDS Naturals, Sequences

CONSTANTS
  Adapters,  \* for each adapter, the set of its calls that may raise an exception
  Late,      \* calls that may raise after they had their effect
  MaxTasks   \* tasks executed one after the other

VARIABLES
  may_raise,       \* the adapter that is used, as the calls of it that may raise
  phase,           \* where execute is: see Phases
  step,            \* the call of Script that comes next
  airborne,        \* local variable of execute
  recovered,       \* local variable of execute
  sent,            \* statuses of the feedback delivered for the current task
  work_state,      \* the adapter's work state
  position_valid,  \* whether the position is valid
  craft,           \* the vehicle: in the air or not, and where
  tasks            \* tasks begun

\* History, which execute does not keep: a take-off that raised has lifted the
\* vehicle, and no take-off has returned since, so that execute does not know.
VARIABLE unnoticed

locals == <<airborne, recovered>>
ivars  == <<may_raise, phase, step, locals, sent, work_state, position_valid, craft, tasks,
            unnoticed>>

Phases == {"idle", "script", "rejected", "failed", "finally", "return", "land",
           "hand_over", "settle"}

Craft == [aloft : BOOLEAN, place : {"home", "away"}]

-----------------------------------------------------------------------------
(* The script                                                              *)

Feedback(status)   == [call |-> "feedback", arg |-> status]
SetWorkState(work) == [call |-> "set_work_state", arg |-> work]
Call(call)         == [call |-> call, arg |-> ""]

ScriptVerdictFirst ==  \* a mistake: the end is reported before the landing
  <<Call("preflight"), Feedback("ACCEPTED"), SetWorkState("PREFLIGHT"),
    Call("record_home"), Feedback("IN_PROGRESS"), Call("plan"),
    SetWorkState("EXECUTING"), Feedback("IN_PROGRESS"),
    Call("takeoff"), Feedback("IN_PROGRESS"), Call("goto"), Feedback("IN_PROGRESS"),
    Call("hold"), Feedback("IN_PROGRESS"), Call("capture"), Feedback("IN_PROGRESS"),
    Call("detect"), Feedback("TARGET_CONFIRMED"), Call("upload"), Feedback("IMAGE_CAPTURED"),
    SetWorkState("RETURNING"), Feedback("RETURNING"), Call("return"), Feedback("COMPLETED"),
    Call("land"), SetWorkState("IDLE"), Feedback("IN_PROGRESS")>>

Script ==
  <<Call("preflight"), Feedback("ACCEPTED"), SetWorkState("PREFLIGHT"),
    Call("record_home"), Feedback("IN_PROGRESS"), Call("plan"),
    SetWorkState("EXECUTING"), Feedback("IN_PROGRESS"),
    Call("takeoff"), Feedback("IN_PROGRESS"), Call("goto"), Feedback("IN_PROGRESS"),
    Call("hold"), Feedback("IN_PROGRESS"), Call("capture"), Feedback("IN_PROGRESS"),
    Call("detect"), Feedback("TARGET_CONFIRMED"), Call("upload"), Feedback("IMAGE_CAPTURED"),
    SetWorkState("RETURNING"), Feedback("RETURNING"), Call("return"), Feedback("IN_PROGRESS"),
    Call("land"), SetWorkState("IDLE"), Feedback("COMPLETED")>>

\* What a call does to the vehicle.
Effect(call, c) ==
  CASE call = "takeoff" -> [c EXCEPT !.aloft = TRUE]
    [] call = "goto"    -> [c EXCEPT !.place = "away"]
    [] call = "return"  -> [c EXCEPT !.place = "home"]
    [] call = "land"    -> [c EXCEPT !.aloft = FALSE]
    [] OTHER            -> c

\* What a call that raises may have done.
Partial(call, c) == {c} \cup (IF call \in Late THEN {Effect(call, c)} ELSE {})

NextCall == Script[step]

\* _preflight and _record_home_pose look at the state; both, and plan and
\* detect, may reject the task for its parameters or for what was measured.
Accepts(call) ==
  /\ call = "preflight" => work_state = "IDLE" /\ position_valid
  /\ call = "record_home" => position_valid

Rejecting == {"preflight", "record_home", "plan", "detect"}

AirborneAfterGoto(call) ==  \* a mistake: set when the target is reached
  CASE call = "goto" -> TRUE [] call = "land" -> FALSE [] OTHER -> airborne

AirborneAfter(call) ==
  CASE call = "takeoff" -> TRUE [] call = "land" -> FALSE [] OTHER -> airborne

-----------------------------------------------------------------------------
(* execute                                                                 *)

Begin ==
  /\ phase = "idle" /\ tasks < MaxTasks
  /\ phase' = "script" /\ step' = 1
  /\ airborne' = FALSE /\ recovered' = FALSE
  /\ sent' = {}
  /\ tasks' = tasks + 1
  /\ UNCHANGED <<may_raise, work_state, position_valid, craft, unnoticed>>

\* A call of the script returns.
Do ==
  /\ phase = "script"
  /\ Accepts(NextCall.call)
  /\ craft' = Effect(NextCall.call, craft)
  /\ airborne' = AirborneAfter(NextCall.call)
  /\ recovered' = (recovered \/ NextCall.call = "land")
  /\ work_state' = IF NextCall.call = "set_work_state" THEN NextCall.arg ELSE work_state
  /\ sent' = IF NextCall.call = "feedback" THEN sent \cup {NextCall.arg} ELSE sent
  /\ unnoticed' = (unnoticed /\ NextCall.call # "takeoff")
  /\ IF step < Len(Script)
     THEN step' = step + 1 /\ phase' = phase
     ELSE step' = step /\ phase' = "finally"
  /\ UNCHANGED <<may_raise, position_valid, tasks>>

\* InspectionRejected
Reject ==
  /\ phase = "script" /\ NextCall.call \in Rejecting
  /\ phase' = "rejected"
  /\ UNCHANGED <<may_raise, step, locals, sent, work_state, position_valid, craft, tasks, unnoticed>>

\* Any other exception.  _feedback reads the state before it sends.
Raise ==
  /\ phase = "script"
  /\ \/ NextCall.call \in may_raise
     \/ NextCall.call \in {"preflight", "record_home", "feedback"} /\ "read_state" \in may_raise
  /\ craft' \in Partial(NextCall.call, craft)
  /\ sent' \in {sent} \cup (IF NextCall.call = "feedback" /\ "feedback" \in Late
                            THEN {sent \cup {NextCall.arg}} ELSE {})
  /\ phase' = "failed"
  /\ unnoticed' = (unnoticed \/ (NextCall.call = "takeoff" /\ craft' # craft))
  /\ UNCHANGED <<may_raise, step, locals, work_state, position_valid, tasks>>

\* The status that the except clauses report.
Verdict == IF phase = "rejected" /\ ~airborne THEN "REJECTED" ELSE "FAILED"

\* A mistake: a rejection is not reported once the vehicle has left the ground.
VerdictsOnGround(verdict) == IF airborne /\ phase = "rejected" THEN {} ELSE {verdict}

\* What an except clause sends.
Verdicts(verdict) == {verdict}

\* The feedback of an except clause, which may itself raise: finally runs anyway.
Except ==
  /\ phase \in {"rejected", "failed"}
  /\ \/ sent' = sent \cup Verdicts(Verdict)
     \/ sent' = sent /\ may_raise \cap {"feedback", "read_state"} # {}
  /\ phase' = "finally"
  /\ UNCHANGED <<may_raise, step, locals, work_state, position_valid, craft, tasks, unnoticed>>

-----------------------------------------------------------------------------
(* The finally clause                                                      *)

FinallyGround ==
  /\ phase = "finally" /\ ~airborne
  /\ phase' = "settle"
  /\ UNCHANGED <<may_raise, step, locals, sent, work_state, position_valid, craft, tasks, unnoticed>>

FinallyAirborne ==
  /\ phase = "finally" /\ airborne
  /\ IF position_valid
     THEN phase' = "return" /\ work_state' = "RETURNING"
     ELSE phase' = "hand_over" /\ work_state' = work_state
  /\ UNCHANGED <<may_raise, step, locals, sent, position_valid, craft, tasks, unnoticed>>

\* The read_state of the finally clause raises: nothing of it is left to run.
FinallyEscapes ==
  /\ phase = "finally" \/ phase = "settle"
  /\ "read_state" \in may_raise
  /\ phase = "finally" => airborne
  /\ phase = "settle" => ~airborne /\ ~recovered
  /\ phase' = "idle"
  /\ UNCHANGED <<may_raise, step, locals, sent, work_state, position_valid, craft, tasks, unnoticed>>

AfterFailedReturnLand == "land"  \* a mistake: it lands where it is

\* Where a failed attempt to recover leads; recovered stays FALSE.
AfterFailedReturn == "hand_over"

FlyBack ==
  /\ phase = "return"
  /\ \/ /\ craft' = Effect("return", craft)
        /\ phase' = "land"
     \/ /\ "return" \in may_raise
        /\ craft' \in Partial("return", craft)
        /\ phase' = AfterFailedReturn
  /\ UNCHANGED <<may_raise, step, locals, sent, work_state, position_valid, tasks, unnoticed>>

TouchDown ==
  /\ phase = "land"
  /\ \/ /\ craft' = Effect("land", craft)
        /\ recovered' = TRUE
        /\ phase' = "settle"
     \/ /\ "land" \in may_raise
        /\ craft' \in Partial("land", craft)
        /\ UNCHANGED recovered
        /\ phase' = "hand_over"
  /\ UNCHANGED <<may_raise, step, airborne, sent, work_state, position_valid, tasks, unnoticed>>

RequestManualTakeover ==
  /\ phase = "hand_over"
  /\ work_state' = "MANUAL_CONTROL"
  /\ phase' = "settle"
  /\ UNCHANGED <<may_raise, step, locals, sent, position_valid, craft, tasks, unnoticed>>

SettledAlways == "IDLE"  \* a mistake: a vehicle that was handed over becomes IDLE

\* The work state with which execute ends.
Settled ==
  IF recovered \/ (~airborne /\ work_state # "MANUAL_CONTROL") THEN "IDLE" ELSE work_state

Settle ==
  /\ phase = "settle"
  /\ work_state' = Settled
  /\ phase' = "idle"
  /\ UNCHANGED <<may_raise, step, locals, sent, position_valid, craft, tasks, unnoticed>>

-----------------------------------------------------------------------------
\* UWB comes and goes.
PositionChanges ==
  /\ phase # "idle" \/ tasks < MaxTasks
  /\ position_valid' = ~position_valid
  /\ UNCHANGED <<may_raise, phase, step, locals, sent, work_state, craft, tasks, unnoticed>>

Init ==
  /\ may_raise \in Adapters
  /\ phase = "idle" /\ step = 1
  /\ airborne = FALSE /\ recovered = FALSE
  /\ sent = {}
  /\ work_state = "IDLE"
  /\ position_valid = TRUE
  /\ craft = [aloft |-> FALSE, place |-> "home"]
  /\ tasks = 0
  /\ unnoticed = FALSE

Execute ==
  \/ Do \/ Reject \/ Raise \/ Except
  \/ FinallyGround \/ FinallyAirborne \/ FinallyEscapes
  \/ FlyBack \/ TouchDown \/ RequestManualTakeover \/ Settle

Next == Begin \/ Execute \/ PositionChanges

\* A call of the adapter returns or raises in the end, so execute goes on.
Spec == Init /\ [][Next]_ivars /\ WF_ivars(Execute)

-----------------------------------------------------------------------------
(* Properties                                                              *)

\* Type invariant.
TypeOK ==
  /\ may_raise \in Adapters
  /\ phase \in Phases
  /\ step \in 1..Len(Script)
  /\ airborne \in BOOLEAN /\ recovered \in BOOLEAN
  /\ sent \subseteq {"ACCEPTED", "IN_PROGRESS", "TARGET_CONFIRMED", "IMAGE_CAPTURED",
                     "RETURNING", "COMPLETED", "REJECTED", "FAILED"}
  /\ work_state \in {"IDLE", "PREFLIGHT", "EXECUTING", "RETURNING", "MANUAL_CONTROL"}
  /\ position_valid \in BOOLEAN
  /\ craft \in Craft
  /\ tasks \in 0..MaxTasks
  /\ unnoticed \in BOOLEAN

\* What the adapter has to guarantee for the recovery: its state can be read.
Readable == "read_state" \notin may_raise

\* execute sets airborne when takeoff has returned (lines 371-372): after one
\* that lifted the vehicle and then raised it does not know that it flies.
\* The vehicle then stays where it took off, and the script does not go on.
Overlooked == unnoticed /\ craft.place = "home"

\* IDLE is what lets the next task begin: a vehicle in the air does not show it,
\* whichever calls failed, and whatever was tried after one that failed.  The
\* one exception is a vehicle above its take-off point whose take-off raised.
IdleOnGround == Readable /\ work_state = "IDLE" /\ craft.aloft => Overlooked

\* When execute is over the vehicle is on the ground, or a human has been asked
\* for (line 523), with the same exception: of a vehicle lifted by a take-off
\* that raised nobody is told.
RecoveredOrHandedOver ==
  Readable /\ phase = "idle" /\ craft.aloft => work_state = "MANUAL_CONTROL" \/ Overlooked

\* RecoveredOrHandedOver without the exception, as line 523 intends: not what the code does.
TakeoffRecovered ==
  Readable /\ phase = "idle" /\ craft.aloft => work_state = "MANUAL_CONTROL"

\* RecoveredOrHandedOver without asking that the state can be read: not what the
\* code does, whose finally clause begins with read_state.
AlwaysRecovered ==
  phase = "idle" /\ craft.aloft => work_state = "MANUAL_CONTROL" \/ Overlooked

\* The vehicle only lands where it took off.
LandsAtHome == ~craft.aloft => craft.place = "home"

Terminal == {"COMPLETED", "REJECTED", "FAILED"}

\* Every task that ends was answered with one of the final statuses, and with
\* one only, provided feedback can be sent at all.
AnsweredOnce ==
  Readable /\ "feedback" \notin may_raise /\ phase = "idle" /\ tasks > 0 =>
    \E s \in Terminal : sent \cap Terminal = {s}

\* COMPLETED is told of a vehicle that photographed the target and is back on
\* the ground.
CompletedTruly ==
  "COMPLETED" \in sent => {"TARGET_CONFIRMED", "IMAGE_CAPTURED"} \subseteq sent /\ ~craft.aloft

=============================================================================
