------------------------- MODULE InspectTargetProofs -------------------------
(***************************************************************************)
(* InspectTarget is safe for every adapter: for every set of calls that    *)
(* may raise.                                                              *)
(*                                                                         *)
(* IdleOnGround is not inductive: whether the vehicle flies follows from   *)
(* the local variable airborne, and airborne from how far the script has   *)
(* come.  Consistent says how the three agree in each phase, as long as    *)
(* the state can be read: they disagree only after a take-off that raised  *)
(* and yet lifted the vehicle (unnoticed), and then above the take-off     *)
(* point.  Homing and Answering are what remains true when the state       *)
(* cannot be read, and what the two properties about feedback rest on.     *)
(***************************************************************************)
EXTENDS InspectTarget, TLAPS

LEMMA ScriptEntries ==
  /\ Len(Script) = 27
  /\ Script[1].call = "preflight"
  /\ Script[2].call = "feedback"
  /\ Script[3].call = "set_work_state"
  /\ Script[4].call = "record_home"
  /\ Script[5].call = "feedback"
  /\ Script[6].call = "plan"
  /\ Script[7].call = "set_work_state"
  /\ Script[8].call = "feedback"
  /\ Script[9].call = "takeoff"
  /\ Script[10].call = "feedback"
  /\ Script[11].call = "goto"
  /\ Script[12].call = "feedback"
  /\ Script[13].call = "hold"
  /\ Script[14].call = "feedback"
  /\ Script[15].call = "capture"
  /\ Script[16].call = "feedback"
  /\ Script[17].call = "detect"
  /\ Script[18].call = "feedback"
  /\ Script[19].call = "upload"
  /\ Script[20].call = "feedback"
  /\ Script[21].call = "set_work_state"
  /\ Script[22].call = "feedback"
  /\ Script[23].call = "return"
  /\ Script[24].call = "feedback"
  /\ Script[25].call = "land"
  /\ Script[26].call = "set_work_state"
  /\ Script[27].call = "feedback"
  BY DEF Script, Call, Feedback, SetWorkState

\* Where the calls that matter stand in the script.
LEMMA ScriptFacts ==
  ASSUME NEW i \in 1..27
  PROVE  /\ Script[i].call = "preflight" <=> i = 1
         /\ Script[i].call = "takeoff" <=> i = 9
         /\ Script[i].call = "goto" <=> i = 11
         /\ Script[i].call = "return" <=> i = 23
         /\ Script[i].call = "land" <=> i = 25
         /\ Script[i].call = "set_work_state" <=> i \in {3, 7, 21, 26}
         /\ Script[i].call \in Rejecting => i \in {1, 4, 6, 17}
  BY ScriptEntries DEF Rejecting

\* The work states that the script sets.
LEMMA ScriptWorkStates ==
  /\ Script[3].arg = "PREFLIGHT" /\ Script[7].arg = "EXECUTING"
  /\ Script[21].arg = "RETURNING" /\ Script[26].arg = "IDLE"
  BY DEF Script, SetWorkState

-----------------------------------------------------------------------------
(* The invariant                                                           *)

Types ==
  /\ phase \in Phases
  /\ step \in 1..27
  /\ airborne \in BOOLEAN /\ recovered \in BOOLEAN
  /\ position_valid \in BOOLEAN
  /\ craft \in Craft

\* What execute does not know of: the vehicle then hovers where it took off.
UnnoticedAtHome ==
  /\ unnoticed \in BOOLEAN
  /\ unnoticed => craft.aloft /\ ~airborne /\ craft.place = "home"

Consistent ==
  /\ Types
  /\ UnnoticedAtHome
  /\ work_state = "IDLE" /\ craft.aloft => unnoticed
  /\ LandsAtHome
  /\ recovered => ~craft.aloft
  /\ craft.aloft /\ ~airborne =>
       \/ unnoticed
       \/ work_state = "MANUAL_CONTROL" /\ (phase = "script" => step = 1)
  /\ phase = "script" =>
       /\ airborne <=> step \in 10..25
       /\ recovered <=> step \in 26..27
       /\ airborne => craft.aloft
       /\ step \in 4..26 => work_state # "IDLE"
       /\ step \in 24..25 => craft.place = "home"
  /\ phase \in {"rejected", "failed", "finally"} /\ airborne => ~recovered
  /\ phase \in {"return", "land", "hand_over"} => airborne /\ ~recovered
  /\ phase \in {"return", "land"} => work_state = "RETURNING"
  /\ phase = "land" => craft.place = "home"
  /\ phase \in {"settle", "idle"} /\ airborne /\ ~recovered => work_state = "MANUAL_CONTROL"

-----------------------------------------------------------------------------
(* Every step keeps it, as long as the state can be read                   *)

LEMMA BeginKeeps ==
  ASSUME Consistent, Begin
  PROVE  Consistent'
<1>1. craft.aloft => unnoticed \/ work_state = "MANUAL_CONTROL"
  BY DEF Begin, Consistent, Types
<1>2. airborne' \in BOOLEAN /\ recovered' \in BOOLEAN
  BY Zenon DEF Begin
<1>3. ~airborne' /\ ~recovered'
  BY DEF Begin
<1>4. UNCHANGED <<craft, work_state, position_valid>> /\ phase' = "script" /\ step' = 1
  BY DEF Begin
<1>5. unnoticed' = unnoticed
  BY DEF Begin
<1> QED BY <1>1, <1>2, <1>3, <1>4, <1>5
        DEF Consistent, Types, LandsAtHome, UnnoticedAtHome, Phases

LEMMA DoKeeps ==
  ASSUME Consistent, Do
  PROVE  Consistent'
<1> DEFINE call == Script[step].call
<1>1. step \in 1..27 /\ Len(Script) = 27
  BY ScriptEntries DEF Consistent, Types
<1>2. /\ call = "preflight" <=> step = 1
      /\ call = "takeoff" <=> step = 9
      /\ call = "goto" <=> step = 11
      /\ call = "return" <=> step = 23
      /\ call = "land" <=> step = 25
      /\ call = "set_work_state" <=> step \in {3, 7, 21, 26}
  BY <1>1, ScriptFacts
<1>3. /\ phase = "script" /\ (step = 1 => work_state = "IDLE")
      /\ craft' = Effect(call, craft)
      /\ airborne' = AirborneAfter(call)
      /\ recovered' = (recovered \/ call = "land")
      /\ work_state' = IF call = "set_work_state" THEN Script[step].arg ELSE work_state
      /\ position_valid' = position_valid
      /\ \/ step < 27 /\ step' = step + 1 /\ phase' = "script"
         \/ step = 27 /\ step' = step /\ phase' = "finally"
  BY <1>1, <1>2 DEF Do, NextCall, Accepts
<1> HIDE DEF call
<1>4. craft' \in Craft /\ airborne' \in BOOLEAN /\ recovered' \in BOOLEAN
  BY <1>3 DEF Effect, AirborneAfter, Consistent, Types, Craft
<1>5. craft'.aloft = IF step = 9 THEN TRUE ELSE IF step = 25 THEN FALSE ELSE craft.aloft
  BY <1>1, <1>2, <1>3 DEF Effect, Consistent, Types, Craft
<1>6. craft'.place = IF step = 11 THEN "away" ELSE IF step = 23 THEN "home" ELSE craft.place
  BY <1>1, <1>2, <1>3 DEF Effect, Consistent, Types, Craft
<1>7. airborne' <=> IF step = 9 THEN TRUE ELSE IF step = 25 THEN FALSE ELSE airborne
  BY <1>1, <1>2, <1>3 DEF AirborneAfter
<1>8. recovered' <=> recovered \/ step = 25
  BY <1>2, <1>3
<1>9. work_state' = CASE step = 3 -> "PREFLIGHT" [] step = 7 -> "EXECUTING"
                      [] step = 21 -> "RETURNING" [] step = 26 -> "IDLE"
                      [] OTHER -> work_state
  BY <1>1, <1>2, <1>3, ScriptWorkStates
<1>10. /\ unnoticed' \in BOOLEAN
       /\ unnoticed' <=> unnoticed /\ step # 9
  <2>1. unnoticed' = (unnoticed /\ call # "takeoff")
    BY DEF Do, NextCall, call
  <2>2. unnoticed' \in BOOLEAN
    BY <2>1, Zenon
  <2> QED BY <1>2, <2>1, <2>2
<1>11. UnnoticedAtHome'
  BY <1>1, <1>3, <1>5, <1>6, <1>7, <1>10 DEF Consistent, UnnoticedAtHome
<1> QED BY <1>1, <1>3, <1>4, <1>5, <1>6, <1>7, <1>8, <1>9, <1>10, <1>11
        DEF Consistent, Types, LandsAtHome, UnnoticedAtHome, Phases

LEMMA RejectKeeps ==
  ASSUME Consistent, Reject
  PROVE  Consistent'
  BY DEF Reject, Consistent, Types, LandsAtHome, UnnoticedAtHome, locals,
         Phases, Craft

LEMMA RaiseKeeps ==
  ASSUME Consistent, Raise
  PROVE  Consistent'
<1> DEFINE call == Script[step].call
<1>1. step \in 1..27 /\ (call = "takeoff" <=> step = 9) /\ (call = "goto" <=> step = 11)
      /\ (call = "return" <=> step = 23) /\ (call = "land" <=> step = 25)
  BY ScriptFacts DEF Consistent, Types
<1>2. /\ phase = "script" /\ phase' = "failed"
      /\ craft' \in Partial(call, craft)
      /\ UNCHANGED <<step, airborne, recovered, work_state, position_valid>>
  BY DEF Raise, NextCall, locals
<1>3. unnoticed' = (unnoticed \/ (call = "takeoff" /\ craft' # craft))
  BY DEF Raise, NextCall
<1> HIDE DEF call
<1>4. craft' \in Craft
  BY <1>2 DEF Partial, Effect, Consistent, Types, Craft
<1>5. craft'.aloft => craft.aloft \/ (unnoticed' /\ step = 9)
  <2>1. craft'.aloft /\ ~craft.aloft => call = "takeoff" /\ craft' # craft
    BY <1>2 DEF Partial, Effect, Consistent, Types, Craft
  <2> QED BY <1>1, <1>3, <2>1
<1>6. ~craft'.aloft => craft'.place = "home"
  <2>1. CASE craft' = craft
    BY <2>1 DEF Consistent, LandsAtHome
  <2>2. CASE craft' = Effect(call, craft) /\ step = 11
    BY <1>1, <1>2, <2>2 DEF Effect, Consistent, Types, Craft
  <2>3. CASE craft' = Effect(call, craft) /\ step # 11
    BY <1>1, <1>2, <2>3 DEF Effect, Consistent, Types, Craft, LandsAtHome
  <2> QED BY <1>2, <2>1, <2>2, <2>3 DEF Partial
<1>7. step \in 10..25 => ~recovered
  BY <1>1, <1>2 DEF Consistent
<1>8. unnoticed => unnoticed'
  BY <1>3
<1>9. UnnoticedAtHome'
  <2>1. unnoticed' \in BOOLEAN
    BY <1>3, Zenon
  <2>2. CASE unnoticed /\ step # 11 /\ step # 23 /\ step # 25
    <3>1. craft'.aloft /\ craft'.place = craft.place
      BY <1>1, <1>2, <2>2 DEF Partial, Effect, Consistent, UnnoticedAtHome, Types, Craft
    <3> QED BY <1>2, <2>1, <2>2, <3>1 DEF Consistent, UnnoticedAtHome
  <2>3. CASE unnoticed /\ step \in {11, 23, 25}
    BY <1>1, <1>2, <2>3 DEF Consistent, UnnoticedAtHome
  <2>4. CASE ~unnoticed /\ unnoticed'
    <3>1. step = 9 /\ craft' # craft /\ craft' = [craft EXCEPT !.aloft = TRUE]
      BY <1>1, <1>2, <1>3, <2>4 DEF Partial, Effect
    <3>2. ~craft.aloft /\ craft'.aloft /\ craft'.place = craft.place
      BY <3>1 DEF Consistent, Types, Craft
    <3> QED BY <1>1, <1>2, <2>1, <3>1, <3>2 DEF Consistent, UnnoticedAtHome, LandsAtHome
  <2>5. CASE ~unnoticed'
    BY <2>1, <2>5 DEF UnnoticedAtHome
  <2> QED BY <2>2, <2>3, <2>4, <2>5
<1> QED BY <1>1, <1>2, <1>4, <1>5, <1>6, <1>7, <1>8, <1>9
        DEF Consistent, Types, LandsAtHome, Phases

LEMMA ExceptKeeps ==
  ASSUME Consistent, Except
  PROVE  Consistent'
  BY DEF Except, Consistent, Types, LandsAtHome, UnnoticedAtHome, locals,
         Phases, Craft

LEMMA FinallyGroundKeeps ==
  ASSUME Consistent, FinallyGround
  PROVE  Consistent'
  BY DEF FinallyGround, Consistent, Types, LandsAtHome, UnnoticedAtHome, locals,
         Phases, Craft

LEMMA FinallyAirborneKeeps ==
  ASSUME Consistent, FinallyAirborne
  PROVE  Consistent'
  BY DEF FinallyAirborne, Consistent, Types, LandsAtHome, UnnoticedAtHome, locals,
         Phases, Craft

LEMMA FinallyEscapesKeeps ==
  ASSUME Readable, Consistent, FinallyEscapes
  PROVE  Consistent'
  BY DEF FinallyEscapes, Consistent, Types, LandsAtHome, UnnoticedAtHome, locals,
         Phases, Craft, Readable

LEMMA FlyBackKeeps ==
  ASSUME Consistent, FlyBack
  PROVE  Consistent'
  BY DEF FlyBack, Consistent, Types, LandsAtHome, UnnoticedAtHome, locals,
         Phases, Craft, Partial, Effect, AfterFailedReturn

LEMMA TouchDownKeeps ==
  ASSUME Consistent, TouchDown
  PROVE  Consistent'
<1>1. airborne /\ ~recovered /\ craft.place = "home" /\ work_state = "RETURNING"
  BY DEF TouchDown, Consistent
<1>2. craft' = craft \/ craft' = [craft EXCEPT !.aloft = FALSE]
  BY DEF TouchDown, Partial, Effect
<1>3. craft' \in Craft /\ craft'.place = "home" /\ (craft'.aloft => craft.aloft)
  BY <1>1, <1>2 DEF Consistent, Types, Craft
<1>4. UNCHANGED <<step, airborne, work_state, position_valid, unnoticed>>
  BY DEF TouchDown
<1>5. CASE phase' = "settle" /\ recovered' = TRUE /\ craft' = Effect("land", craft)
  <2>1. ~craft'.aloft
    BY <1>5 DEF Effect, Consistent, Types, Craft
  <2> QED BY <1>1, <1>3, <1>4, <1>5, <2>1
          DEF Consistent, Types, LandsAtHome, UnnoticedAtHome, Phases
<1>6. CASE phase' = "hand_over" /\ recovered' = recovered
  BY <1>1, <1>3, <1>4, <1>6 DEF Consistent, Types, LandsAtHome, UnnoticedAtHome, Phases
<1> QED BY <1>5, <1>6 DEF TouchDown

LEMMA RequestManualTakeoverKeeps ==
  ASSUME Consistent, RequestManualTakeover
  PROVE  Consistent'
  BY DEF RequestManualTakeover, Consistent, Types, LandsAtHome, UnnoticedAtHome, locals,
         Phases, Craft

LEMMA SettleKeeps ==
  ASSUME Consistent, Settle
  PROVE  Consistent'
  BY DEF Settle, Consistent, Types, LandsAtHome, UnnoticedAtHome, locals,
         Phases, Craft, Settled

LEMMA PositionChangesKeeps ==
  ASSUME Consistent, PositionChanges
  PROVE  Consistent'
  BY DEF PositionChanges, Consistent, Types, LandsAtHome, UnnoticedAtHome, locals,
         Phases, Craft

LEMMA InitConsistent == Init => Consistent
<1> SUFFICES ASSUME Init PROVE Consistent
  OBVIOUS
<1>1. airborne \in BOOLEAN /\ recovered \in BOOLEAN /\ position_valid \in BOOLEAN
  BY Zenon DEF Init
<1>2. ~airborne /\ ~recovered
  BY DEF Init
<1>3. phase = "idle" /\ step = 1 /\ ~craft.aloft /\ craft.place = "home" /\ craft \in Craft
  BY DEF Init, Craft
<1>4. unnoticed \in BOOLEAN /\ ~unnoticed
  BY Zenon DEF Init
<1> QED BY <1>1, <1>2, <1>3, <1>4 DEF Consistent, Types, LandsAtHome, UnnoticedAtHome, Phases

LEMMA StepKeeps ==
  ASSUME Readable => Consistent, [Next]_ivars
  PROVE  (Readable => Consistent)'
<1>1. may_raise' = may_raise
  BY DEF Next, Execute, Begin, Do, Reject, Raise, Except, FinallyGround, FinallyAirborne,
         FinallyEscapes, FlyBack, TouchDown, RequestManualTakeover, Settle, PositionChanges, ivars
<1> SUFFICES ASSUME Readable PROVE Consistent'
  BY <1>1 DEF Readable
<1>2. CASE UNCHANGED ivars
  BY <1>2 DEF ivars, locals, Consistent, Types, LandsAtHome, UnnoticedAtHome
<1>3. CASE Begin  BY <1>3, BeginKeeps
<1>4. CASE Execute
  BY <1>4, DoKeeps, RejectKeeps, RaiseKeeps, ExceptKeeps, FinallyGroundKeeps,
     FinallyAirborneKeeps, FinallyEscapesKeeps, FlyBackKeeps, TouchDownKeeps,
     RequestManualTakeoverKeeps, SettleKeeps DEF Execute
<1>5. CASE PositionChanges  BY <1>5, PositionChangesKeeps
<1> QED BY <1>2, <1>3, <1>4, <1>5 DEF Next

-----------------------------------------------------------------------------
(* Landing and answering do not depend on what can be read                 *)

\* What the script sends.
LEMMA ScriptFeedback ==
  /\ Script[2].arg = "ACCEPTED" /\ Script[5].arg = "IN_PROGRESS" /\ Script[8].arg = "IN_PROGRESS"
  /\ Script[10].arg = "IN_PROGRESS" /\ Script[12].arg = "IN_PROGRESS"
  /\ Script[14].arg = "IN_PROGRESS" /\ Script[16].arg = "IN_PROGRESS"
  /\ Script[18].arg = "TARGET_CONFIRMED" /\ Script[20].arg = "IMAGE_CAPTURED"
  /\ Script[22].arg = "RETURNING" /\ Script[24].arg = "IN_PROGRESS"
  /\ Script[27].arg = "COMPLETED"
  BY DEF Script, Feedback

\* Feedback is the call of these entries, and only COMPLETED is final.
LEMMA FeedbackFacts ==
  ASSUME NEW i \in 1..27
  PROVE  /\ Script[i].call = "feedback" <=>
              i \in {2, 5, 8, 10, 12, 14, 16, 18, 20, 22, 24, 27}
         /\ Script[i].call = "feedback" /\ i < 27 =>
              Script[i].arg \notin {"COMPLETED", "REJECTED", "FAILED"}
         /\ Script[27].arg = "COMPLETED"
         /\ i = 18 => Script[i].arg = "TARGET_CONFIRMED"
         /\ i = 20 => Script[i].arg = "IMAGE_CAPTURED"
  BY ScriptEntries, ScriptFeedback

\* Where the vehicle is, and what was said, at each step of the script.
Homing ==
  /\ Types
  /\ LandsAtHome
  /\ phase = "script" =>
       /\ step \in 10..25 => craft.aloft
       /\ step \in 24..25 => craft.place = "home"
       /\ step \in 26..27 => ~craft.aloft
       /\ step \in 19..27 => "TARGET_CONFIRMED" \in sent
       /\ step \in 21..27 => "IMAGE_CAPTURED" \in sent
       /\ airborne <=> step \in 10..25
       /\ sent \cap Terminal = {}
  /\ phase = "land" => craft.place = "home"
  /\ phase \in {"return", "land", "hand_over"} => airborne
  /\ "COMPLETED" \in sent =>
       {"TARGET_CONFIRMED", "IMAGE_CAPTURED"} \subseteq sent /\ ~craft.aloft /\ ~airborne

LEMMA HomingBegin ==
  ASSUME Homing, Begin
  PROVE  Homing'
<1>1. airborne' \in BOOLEAN /\ recovered' \in BOOLEAN /\ ~airborne'
  BY Zenon DEF Begin
<1>2. UNCHANGED <<craft, position_valid>> /\ phase' = "script" /\ step' = 1 /\ sent' = {}
  BY DEF Begin
<1> QED BY <1>1, <1>2 DEF Homing, Types, LandsAtHome, Phases, Terminal

LEMMA HomingDo ==
  ASSUME Homing, Do
  PROVE  Homing'
<1> DEFINE call == Script[step].call
<1> DEFINE arg == Script[step].arg
<1>1. step \in 1..27 /\ Len(Script) = 27
  BY ScriptEntries DEF Homing, Types
<1>2. /\ call = "takeoff" <=> step = 9
      /\ call = "goto" <=> step = 11
      /\ call = "return" <=> step = 23
      /\ call = "land" <=> step = 25
  BY <1>1, ScriptFacts
<1>3. /\ call = "feedback" /\ step < 27 => arg \notin Terminal
      /\ call = "feedback" /\ arg = "COMPLETED" => step = 27
      /\ step = 18 => call = "feedback" /\ arg = "TARGET_CONFIRMED"
      /\ step = 20 => call = "feedback" /\ arg = "IMAGE_CAPTURED"
  BY <1>1, FeedbackFacts DEF Terminal
<1>4. /\ phase = "script"
      /\ craft' = Effect(call, craft)
      /\ airborne' = AirborneAfter(call)
      /\ recovered' = (recovered \/ call = "land")
      /\ sent' = IF call = "feedback" THEN sent \cup {arg} ELSE sent
      /\ position_valid' = position_valid
      /\ \/ step < 27 /\ step' = step + 1 /\ phase' = "script"
         \/ step = 27 /\ step' = step /\ phase' = "finally"
  BY <1>1 DEF Do, NextCall
<1> HIDE DEF call, arg
<1>5. craft' \in Craft /\ airborne' \in BOOLEAN /\ recovered' \in BOOLEAN
  BY <1>4 DEF Effect, AirborneAfter, Homing, Types, Craft
<1>6. craft'.aloft = IF step = 9 THEN TRUE ELSE IF step = 25 THEN FALSE ELSE craft.aloft
  BY <1>1, <1>2, <1>4 DEF Effect, Homing, Types, Craft
<1>7. craft'.place = IF step = 11 THEN "away" ELSE IF step = 23 THEN "home" ELSE craft.place
  BY <1>1, <1>2, <1>4 DEF Effect, Homing, Types, Craft
<1>8. airborne' <=> IF step = 9 THEN TRUE ELSE IF step = 25 THEN FALSE ELSE airborne
  BY <1>1, <1>2, <1>4 DEF AirborneAfter
<1>9. /\ step < 27 => sent' \cap Terminal = {}
      /\ "COMPLETED" \in sent' => step = 27
      /\ step \in 18..27 => "TARGET_CONFIRMED" \in sent'
      /\ step \in 20..27 => "IMAGE_CAPTURED" \in sent'
  BY <1>1, <1>3, <1>4 DEF Homing, Terminal
<1> QED BY <1>1, <1>4, <1>5, <1>6, <1>7, <1>8, <1>9
        DEF Homing, Types, LandsAtHome, Phases

LEMMA HomingRaise ==
  ASSUME Homing, Raise
  PROVE  Homing'
<1> DEFINE call == Script[step].call
<1>1. step \in 1..27 /\ (call = "takeoff" <=> step = 9) /\ (call = "goto" <=> step = 11)
      /\ (call = "return" <=> step = 23) /\ (call = "land" <=> step = 25)
      /\ (call = "feedback" /\ Script[step].arg = "COMPLETED" => step = 27)
  BY ScriptFacts, FeedbackFacts DEF Homing, Types
<1>2. /\ phase = "script" /\ phase' = "failed"
      /\ craft' \in Partial(call, craft)
      /\ sent' \in {sent} \cup (IF call = "feedback" /\ "feedback" \in Late
                               THEN {sent \cup {Script[step].arg}} ELSE {})
      /\ UNCHANGED <<step, airborne, recovered, position_valid>>
  BY DEF Raise, NextCall, locals
<1> HIDE DEF call
<1>3. craft' \in Craft
  BY <1>2 DEF Partial, Effect, Homing, Types, Craft
<1>4. ~craft'.aloft => craft'.place = "home"
  <2>1. CASE craft' = craft
    BY <2>1 DEF Homing, LandsAtHome
  <2>2. CASE craft' = Effect(call, craft) /\ step = 11
    BY <1>1, <1>2, <2>2 DEF Effect, Homing, Types, Craft
  <2>3. CASE craft' = Effect(call, craft) /\ step # 11
    BY <1>1, <1>2, <2>3 DEF Effect, Homing, Types, Craft, LandsAtHome
  <2> QED BY <1>2, <2>1, <2>2, <2>3 DEF Partial
<1>5. "COMPLETED" \in sent' => step = 27 /\ sent \subseteq sent'
  BY <1>1, <1>2 DEF Homing, Terminal
<1>6. step = 27 => craft' = craft
  BY <1>1, <1>2 DEF Partial, Effect
<1> QED BY <1>1, <1>2, <1>3, <1>4, <1>5, <1>6
        DEF Homing, Types, LandsAtHome, Phases

LEMMA HomingExcept ==
  ASSUME Homing, Except
  PROVE  Homing'
<1>1. sent' = sent \cup {Verdict} \/ sent' = sent
  BY DEF Except, Verdicts
<1>2. Verdict # "COMPLETED"
  BY DEF Verdict
<1>3. phase' = "finally" /\ UNCHANGED <<step, airborne, recovered, position_valid, craft>>
  BY DEF Except, locals
<1> QED BY <1>1, <1>2, <1>3 DEF Homing, Types, LandsAtHome, Phases

LEMMA HomingFinally ==
  ASSUME Homing, Reject \/ FinallyGround \/ FinallyAirborne \/ FinallyEscapes
                 \/ RequestManualTakeover \/ Settle
  PROVE  Homing'
  BY DEF Reject, FinallyGround, FinallyAirborne, FinallyEscapes, RequestManualTakeover, Settle,
         Homing, Types, LandsAtHome, locals, Phases

LEMMA HomingFlyBack ==
  ASSUME Homing, FlyBack
  PROVE  Homing'
<1>1. craft' = craft \/ craft' = [craft EXCEPT !.place = "home"]
  BY DEF FlyBack, Partial, Effect
<1>2. phase' = "land" => craft'.place = "home"
  BY DEF FlyBack, Partial, Effect, AfterFailedReturn, Homing, Types, Craft
<1>3. airborne /\ phase' \in {"land", "hand_over"}
  BY DEF FlyBack, AfterFailedReturn, Homing
<1>4. UNCHANGED <<step, airborne, recovered, sent, position_valid>>
  BY DEF FlyBack, locals
<1>5. craft' \in Craft /\ craft'.aloft = craft.aloft /\ (craft.place = "home" => craft'.place = "home")
  BY <1>1 DEF Homing, Types, Craft
<1> QED BY <1>2, <1>3, <1>4, <1>5 DEF Homing, Types, LandsAtHome, Phases

LEMMA HomingTouchDown ==
  ASSUME Homing, TouchDown
  PROVE  Homing'
<1>1. craft' = craft \/ craft' = [craft EXCEPT !.aloft = FALSE]
  BY DEF TouchDown, Partial, Effect
<1>2. craft.place = "home" /\ airborne /\ phase' \in {"settle", "hand_over"}
  BY DEF TouchDown, Homing
<1>3. UNCHANGED <<step, airborne, sent, position_valid>>
  BY DEF TouchDown
<1>4. recovered' \in BOOLEAN
  BY Zenon DEF TouchDown, Homing, Types
<1>5. craft' \in Craft /\ craft'.place = "home"
  BY <1>1, <1>2 DEF Homing, Types, Craft
<1> QED BY <1>2, <1>3, <1>4, <1>5 DEF Homing, Types, LandsAtHome, Phases

LEMMA HomingInit == Init => Homing
<1> SUFFICES ASSUME Init PROVE Homing
  OBVIOUS
<1>1. airborne \in BOOLEAN /\ recovered \in BOOLEAN /\ position_valid \in BOOLEAN
  BY Zenon DEF Init
<1>2. /\ phase = "idle" /\ step = 1 /\ ~craft.aloft /\ craft.place = "home" /\ craft \in Craft
      /\ sent = {}
  BY DEF Init, Craft
<1> QED BY <1>1, <1>2 DEF Homing, Types, LandsAtHome, Phases

LEMMA HomingStep ==
  ASSUME Homing, [Next]_ivars
  PROVE  Homing'
<1>1. CASE UNCHANGED ivars
  BY <1>1 DEF ivars, locals, Homing, Types, LandsAtHome
<1>2. CASE Begin  BY <1>2, HomingBegin
<1>3. CASE Execute
  BY <1>3, HomingDo, HomingRaise, HomingExcept, HomingFinally, HomingFlyBack, HomingTouchDown
     DEF Execute
<1>4. CASE PositionChanges
  BY <1>4 DEF PositionChanges, Homing, Types, LandsAtHome, locals
<1> QED BY <1>1, <1>2, <1>3, <1>4 DEF Next

-----------------------------------------------------------------------------
(* One answer                                                              *)

Working == Readable /\ "feedback" \notin may_raise

\* Which final statuses were sent, in each phase.
Answering ==
  /\ step \in 1..27
  /\ phase \in {"script", "rejected", "failed"} => sent \cap Terminal = {}
  /\ phase \in {"finally", "return", "land", "hand_over", "settle"}
       \/ (phase = "idle" /\ tasks > 0) => \E s \in Terminal : sent \cap Terminal = {s}

LEMMA AnsweringDo ==
  ASSUME Answering, Do
  PROVE  Answering'
<1> DEFINE call == Script[step].call
<1> DEFINE arg == Script[step].arg
<1>1. step \in 1..27 /\ Len(Script) = 27
  BY ScriptEntries DEF Answering
<1>2. /\ call = "feedback" /\ step < 27 => arg \notin Terminal
      /\ step = 27 => call = "feedback" /\ arg = "COMPLETED"
  BY <1>1, FeedbackFacts DEF Terminal
<1>3. /\ phase = "script"
      /\ sent' = IF call = "feedback" THEN sent \cup {arg} ELSE sent
      /\ \/ step < 27 /\ step' = step + 1 /\ phase' = "script"
         \/ step = 27 /\ step' = step /\ phase' = "finally"
  BY <1>1 DEF Do, NextCall
<1> HIDE DEF call, arg
<1>4. sent \cap Terminal = {} /\ "COMPLETED" \in Terminal
  BY <1>3 DEF Answering, Terminal
<1>5. CASE step < 27
  <2>1. sent' \cap Terminal = {}
    BY <1>2, <1>3, <1>4, <1>5
  <2> QED BY <1>1, <1>3, <1>5, <2>1 DEF Answering
<1>6. CASE step = 27
  <2>1. sent' \cap Terminal = {"COMPLETED"}
    BY <1>2, <1>3, <1>4, <1>6
  <2> QED BY <1>1, <1>3, <1>4, <1>6, <2>1 DEF Answering
<1> QED BY <1>1, <1>5, <1>6

LEMMA AnsweringExcept ==
  ASSUME Working, Answering, Except
  PROVE  Answering'
<1>1. sent' = sent \cup {Verdict} /\ phase' = "finally" /\ step' = step
  BY DEF Except, Verdicts, Working, Readable
<1>2. Verdict \in Terminal
  BY DEF Verdict, Terminal
<1>3. sent \cap Terminal = {}
  BY DEF Except, Answering
<1>4. sent' \cap Terminal = {Verdict}
  BY <1>1, <1>2, <1>3
<1> QED BY <1>1, <1>2, <1>4 DEF Answering

LEMMA AnsweringStep ==
  ASSUME Working => Answering, [Next]_ivars
  PROVE  (Working => Answering)'
<1>1. may_raise' = may_raise
  BY DEF Next, Execute, Begin, Do, Reject, Raise, Except, FinallyGround, FinallyAirborne,
         FinallyEscapes, FlyBack, TouchDown, RequestManualTakeover, Settle, PositionChanges, ivars
<1> SUFFICES ASSUME Working, Answering PROVE Answering'
  BY <1>1 DEF Working, Readable
<1>2. CASE UNCHANGED ivars
  BY <1>2 DEF ivars, Answering
<1>3. CASE Begin
  BY <1>3 DEF Begin, Answering
<1>4. CASE Do  BY <1>4, AnsweringDo
<1>5. CASE Except  BY <1>5, AnsweringExcept
<1>6. CASE Raise
  <2>1. NextCall.call # "feedback"
    BY <1>6 DEF Raise, Working, Readable
  <2>2. phase' = "failed" /\ sent' = sent /\ phase = "script" /\ step' = step
    BY <1>6, <2>1 DEF Raise
  <2> QED BY <2>2 DEF Answering
<1>7. CASE Reject
  BY <1>7 DEF Reject, Answering
<1>8. CASE FinallyGround \/ FinallyAirborne \/ FinallyEscapes \/ FlyBack \/ TouchDown
           \/ RequestManualTakeover \/ Settle
  <2>1. /\ UNCHANGED <<sent, step, tasks>>
        /\ phase \in {"finally", "return", "land", "hand_over", "settle"}
        /\ phase' \in {"return", "land", "hand_over", "settle", "idle"}
    BY <1>8 DEF FinallyGround, FinallyAirborne, FinallyEscapes, FlyBack, TouchDown,
                RequestManualTakeover, Settle, AfterFailedReturn
  <2> QED BY <2>1 DEF Answering
<1>9. CASE PositionChanges
  BY <1>9 DEF PositionChanges, Answering
<1> QED BY <1>2, <1>3, <1>4, <1>5, <1>6, <1>7, <1>8, <1>9 DEF Next, Execute

-----------------------------------------------------------------------------
(* Theorems                                                                *)

THEOREM Invariance ==
  Spec => [](Readable => Consistent)
<1>1. (Readable => Consistent) /\ [Next]_ivars => (Readable => Consistent)'
  BY StepKeeps
<1>2. Init => (Readable => Consistent)
  BY InitConsistent
<1> QED BY <1>1, <1>2, PTL DEF Spec

\* Whichever calls fail, before or after their effect, in whichever tasks: a
\* vehicle in the air does not show the work state that lets the next task
\* begin, except where a take-off that raised has lifted it.
THEOREM IdleIsOnGround ==
  Spec => []IdleOnGround
<1>1. (Readable => Consistent) => IdleOnGround  BY DEF Consistent, UnnoticedAtHome, IdleOnGround, Overlooked
<1> QED BY <1>1, Invariance, PTL

\* When execute is over the vehicle is down, or a human was asked to take over,
\* or it hovers where a take-off that raised has lifted it.
THEOREM RecoversOrHandsOver ==
  Spec => []RecoveredOrHandedOver
<1>1. (Readable => Consistent) => RecoveredOrHandedOver
  BY DEF Consistent, Types, UnnoticedAtHome, RecoveredOrHandedOver, Overlooked
<1> QED BY <1>1, Invariance, PTL

LEMMA HomingInvariant == Spec => []Homing
<1>1. Homing /\ [Next]_ivars => Homing'
  BY HomingStep
<1> QED BY <1>1, HomingInit, PTL DEF Spec

\* The vehicle lands nowhere but where it took off, whichever calls raise and
\* whichever of them had their effect.
THEOREM LandsWhereItTookOff == Spec => []LandsAtHome
<1>1. Homing => LandsAtHome  BY DEF Homing
<1> QED BY <1>1, HomingInvariant, PTL

\* COMPLETED is never told of a vehicle in the air, nor of a target that was
\* not confirmed and photographed.
THEOREM CompletesTruly == Spec => []CompletedTruly
<1>1. Homing => CompletedTruly  BY DEF Homing, CompletedTruly
<1> QED BY <1>1, HomingInvariant, PTL

\* With feedback that works every task gets one final status.
THEOREM AnswersOnce == Spec => []AnsweredOnce
<1>1. (Working => Answering) /\ [Next]_ivars => (Working => Answering)'
  BY AnsweringStep
<1>2. Init => (Working => Answering)
  BY DEF Init, Answering
<1>3. (Working => Answering) => AnsweredOnce
  BY DEF Working, Answering, AnsweredOnce
<1> QED BY <1>1, <1>2, <1>3, PTL DEF Spec

=============================================================================
