---------------------------- MODULE ApproachGrasp ----------------------------
(***************************************************************************)
(* Car 1 drives up to the yellow block and grasps it                       *)
(* (devices/car1/approach_grasp_c1.py): drive_phase steers by camera       *)
(* frames, grasp_main_loop keeps the arm on the block and starts a thread  *)
(* that grabs it, and main waits for `done`.                               *)
(*                                                                         *)
(* A frame shows the block or not; its distance is "far" (0.6 m or more),  *)
(* "near", "reach" (below APPROACH_STOP) or, with a hole in the depth      *)
(* image, unknown.  Time passes in ticks of which Memory make the 0.5 s    *)
(* that target_mem lasts; the longer deadlines may pass at any step.       *)
(* Inside drive_phase last_track and target_mem hold the same target, so   *)
(* `memory` stands for both.                                               *)
(***************************************************************************)
EXTENDS Naturals

CONSTANTS
  Memory,   \* ticks for which target_mem counts
  Threads,  \* the threads that may run do_grab
  Nothing

ASSUME MemoryAssumption == Memory \in Nat \ {0}

VARIABLES
  main,           \* where main is: the loop it runs or its next read of `done`
  wheels,         \* the last command on /controller/cmd_vel
  seen_in_range,  \* local variables of drive_phase: it came to line 347 with a
                  \* block nearer than 0.6 m (never with one within reach)
  lost_since,     \* the block is lost, and the car was stopped for that
  dist,           \* the distance last measured
  memory,         \* target_mem
  memory_age,     \* ticks since target_mem was written
  sight,          \* how the last frame was read
  unseen,         \* ticks since the block was detected, at most Memory + 1
  moving, done,   \* what the loop and the threads share
  grab,           \* where each thread is in do_grab and pick
  gripper, arm    \* what was last sent to the arm's servos

\* History, which drive_phase does not keep: the distances below 0.6 m that it
\* has steered by, "near" and "reach".
VARIABLE met

drive == <<wheels, seen_in_range, lost_since, dist, sight, unseen, met>>
mem   == <<memory, memory_age>>
arms  == <<moving, done, grab, gripper, arm>>
avars == <<main, drive, mem, arms>>

Target == [dist : {"far", "near", "reach"}, centred : BOOLEAN]

Sighting == Target \cup [dist : {Nothing}, centred : BOOLEAN]

-----------------------------------------------------------------------------
(* drive_phase                                                             *)

Older(age, ticks) == IF age + ticks > Memory THEN Memory + 1 ELSE age + ticks

\* The loop is left: the car is stopped, and the arm's turn comes if the
\* distance last measured is in reach.
EndDrive(last) ==
  /\ wheels' = "stop"
  /\ main' = IF last = "reach" THEN "check" ELSE "finished"

\* A frame without the block, and no memory of it.
Lost ==
  /\ sight' = "lost"
  /\ UNCHANGED <<seen_in_range, dist, memory, met>>
  /\ \/ ~seen_in_range /\ wheels' = "forward" /\ UNCHANGED <<main, lost_since>>
     \/ /\ seen_in_range
        /\ lost_since' = TRUE
        /\ \/ wheels' = (IF lost_since THEN wheels ELSE "stop") /\ UNCHANGED main
           \/ lost_since /\ EndDrive(dist)

\* The target the iteration steers by: a position or distance that jumps
\* away from the last one is rejected.
Kept(target) ==
  IF memory = Nothing \/ target.dist = Nothing THEN {target}
  ELSE IF {target.dist, memory.dist} = {"far", "reach"} THEN {memory}
  ELSE {target, memory}

LostForGood == UNCHANGED lost_since  \* a mistake: lost_since is not cleared

SeenAgain == lost_since' = FALSE

\* One target out of Kept is steered by.
Steer(target) ==
  /\ SeenAgain
  /\ dist' = target.dist
  /\ met' = met \cup ({target.dist} \cap {"near", "reach"})
  /\ memory' = IF target.dist = Nothing THEN memory ELSE target
  /\ \/ /\ target.dist = "reach"
        /\ UNCHANGED seen_in_range
        /\ \/ target.centred /\ EndDrive("reach")
           \/ ~target.centred /\ wheels' = "turn" /\ UNCHANGED main
     \/ /\ target.dist # "reach"
        /\ seen_in_range' = (seen_in_range \/ target.dist = "near")
        /\ \/ wheels' = "forward" /\ UNCHANGED main
           \/ target.dist # Nothing /\ EndDrive(target.dist)  \* stuck

DriveFrame(ticks) ==
  /\ main = "drive"
  /\ \/ \E seen \in Sighting :
          /\ \E target \in Kept(seen) : Steer(target)
          /\ sight' = "seen" /\ unseen' = 0
          /\ memory_age' = IF seen.dist = Nothing THEN Older(memory_age, ticks) ELSE 0
     \/ /\ unseen' = Older(unseen, ticks)
        /\ IF memory # Nothing /\ memory_age + ticks < Memory
           THEN Steer(memory) /\ sight' = "remembered" /\ memory_age' = 0
           ELSE Lost /\ memory_age' = Older(memory_age, ticks)
  /\ UNCHANGED arms

\* No frame within 0.4 s: the wheels keep their command.
NoFrame(ticks) ==
  /\ main = "drive"
  /\ memory_age' = Older(memory_age, ticks)
  /\ unseen' = Older(unseen, ticks)
  /\ UNCHANGED <<main, wheels, seen_in_range, lost_since, dist, memory, sight, met, arms>>

DriveTimeout ==
  /\ main = "drive"
  /\ EndDrive(dist)
  /\ UNCHANGED <<seen_in_range, lost_since, dist, sight, unseen, met, mem, arms>>

-----------------------------------------------------------------------------
(* grasp_main_loop, and main waiting for it                                *)

\* The top of the loop.  After 45 s it is left for the wait in main.
Check ==
  /\ main = "check"
  /\ \/ done /\ main' = "wait" /\ UNCHANGED arm
     \/ ~done /\ main' = "track" /\ UNCHANGED arm
     \/ ~done /\ main' = "wait" /\ arm' = "hold"
  /\ UNCHANGED <<drive, mem, moving, done, grab, gripper>>

SetByTheThread(t) == grab' = [grab EXCEPT ![t] = "start"] /\ UNCHANGED moving  \* a mistake

StartGrab(t) == grab' = [grab EXCEPT ![t] = "start"] /\ moving' = TRUE

\* The rest of the loop: nothing without a frame or while a thread moves the
\* arm, or without the block and a memory of it; a thread once it is stable.
Track ==
  /\ main = "track" /\ main' = "check"
  /\ \/ UNCHANGED <<moving, grab, arm>>
     \/ /\ ~moving
        /\ arm' = "track"
        /\ \/ UNCHANGED <<moving, grab>>
           \/ \E t \in Threads : grab[t] = "idle" /\ StartGrab(t)
  /\ UNCHANGED <<drive, mem, done, gripper>>

Wait ==
  /\ main = "wait" /\ done
  /\ main' = "finished"
  /\ UNCHANGED <<drive, mem, arms>>

-----------------------------------------------------------------------------
(* do_grab and pick                                                        *)

SkippedAsDone(t) ==   \* a mistake: a skipped grab is reported as done
  moving' = FALSE /\ done' = TRUE /\ grab' = [grab EXCEPT ![t] = "idle"]

\* No depth, out of range, no answer of a servo, no solution.
Skipped(t) == moving' = FALSE /\ UNCHANGED done /\ grab' = [grab EXCEPT ![t] = "idle"]

Goes(t, from, to) == grab[t] = from /\ grab' = [grab EXCEPT ![t] = to]

\* Depth, servo positions and the inverse kinematics.
Measure(t) ==
  /\ grab[t] = "start"
  /\ \/ Skipped(t)
     \/ Goes(t, "start", "reach") /\ UNCHANGED <<moving, done>>
  /\ memory' \in {memory} \cup Target
  /\ memory_age' = IF memory' = memory THEN memory_age ELSE 0
  /\ UNCHANGED <<main, drive, gripper, arm>>

Reach(t) ==
  /\ Goes(t, "reach", "close")
  /\ arm' = "grab"
  /\ UNCHANGED <<main, drive, mem, moving, done, gripper>>

Close(t) ==
  /\ Goes(t, "close", "lift")
  /\ gripper' = "closed"
  /\ UNCHANGED <<main, drive, mem, moving, done, arm>>

Lift(t) ==
  /\ Goes(t, "lift", "clear")
  /\ arm' = "hold"
  /\ UNCHANGED <<main, drive, mem, moving, done, gripper>>

ClearMoving(t) ==
  /\ Goes(t, "clear", "finish")
  /\ moving' = FALSE
  /\ UNCHANGED <<main, drive, mem, done, gripper, arm>>

SetDone(t) ==
  /\ Goes(t, "finish", "idle")
  /\ done' = TRUE
  /\ UNCHANGED <<main, drive, mem, moving, gripper, arm>>

\* An exception ends the thread and leaves `moving` as it is.
Raise(t) ==
  /\ grab[t] \in {"start", "reach", "close", "lift"}
  /\ grab' = [grab EXCEPT ![t] = "idle"]
  /\ UNCHANGED <<main, drive, mem, moving, done, gripper, arm>>

-----------------------------------------------------------------------------
ApproachInit ==
  /\ main = "drive" /\ wheels = "stop"
  /\ seen_in_range = FALSE /\ lost_since = FALSE /\ dist = Nothing
  /\ memory = Nothing /\ memory_age = 0
  /\ sight = "lost" /\ unseen = Memory + 1 /\ met = {}
  /\ moving = FALSE /\ done = FALSE /\ grab = [t \in Threads |-> "idle"]
  /\ gripper = "open" /\ arm = "init"

GrabStep(t) ==
  Measure(t) \/ Reach(t) \/ Close(t) \/ Lift(t) \/ ClearMoving(t) \/ SetDone(t)

ApproachNext ==
  \/ \E ticks \in 0..Memory : DriveFrame(ticks) \/ NoFrame(ticks)
  \/ DriveTimeout \/ Check \/ Track \/ Wait
  \/ \E t \in Threads : GrabStep(t) \/ Raise(t)

\* drive_phase ends after 25 s and grasp_main_loop after 45 s; both loops and
\* every thread go on.
Fairness ==
  /\ WF_avars(DriveTimeout) /\ WF_avars(Check) /\ WF_avars(Track) /\ WF_avars(Wait)
  /\ SF_avars(Check /\ main' = "wait")
  /\ \A t \in Threads : WF_avars(GrabStep(t))

ApproachSpec == ApproachInit /\ [][ApproachNext]_avars

FairSpec == ApproachSpec /\ Fairness

-----------------------------------------------------------------------------
(* Properties                                                              *)

\* The types; and whenever the arm has its turn the wheels stand, after a
\* drive that measured the block in reach.
ApproachTypeOK ==
  /\ main \in {"drive", "check", "track", "wait", "finished"}
  /\ wheels \in {"stop", "forward", "turn"}
  /\ seen_in_range \in BOOLEAN /\ lost_since \in BOOLEAN
  /\ dist \in {"far", "near", "reach", Nothing}
  /\ memory \in Target \cup {Nothing} /\ memory_age \in 0..(Memory + 1)
  /\ sight \in {"seen", "remembered", "lost"} /\ unseen \in 0..(Memory + 1)
  /\ met \subseteq {"near", "reach"}
  /\ moving \in BOOLEAN /\ done \in BOOLEAN
  /\ grab \in [Threads -> {"idle", "start", "reach", "close", "lift", "clear", "finish"}]
  /\ gripper \in {"open", "closed"} /\ arm \in {"init", "track", "grab", "hold"}
  /\ main \in {"check", "track", "wait"} => wheels = "stop" /\ dist = "reach"

\* A car that has once steered by the block between APPROACH_STOP and 0.6 m, and
\* now has lost it, stands still, however often it found and lost the block in
\* between ("it must not cruise on", line 301).  A block that was only met within
\* APPROACH_STOP does not count: see LostStopsInReach.
LostStops == main = "drive" /\ "near" \in met /\ sight = "lost" => wheels = "stop"

\* VIOLATED by the code: the same for every block that was met nearer than 0.6 m.
\* The branch for a block within reach but off the centre (line 336) continues
\* before line 347 sets seen_in_range, so when that block is lost the car drives
\* forward (line 310), towards what it was next to.
LostStopsInReach == main = "drive" /\ met # {} /\ sight = "lost" => wheels = "stop"

\* Two grabbing threads never move the arm at the same time, although nothing but
\* the flag `moving` keeps a second one from being started.  What main itself
\* sends to the arm, after its timeout as well (Check), is not meant.
OneGrabber ==
  \A t, u \in Threads :
    grab[t] \notin {"idle", "finish"} /\ grab[u] \notin {"idle", "finish"} => t = u

\* The program reports the end of a grasp only when the gripper was closed.
FinishedHolding == main = "finished" /\ dist = "reach" => gripper = "closed"

\* VIOLATED by the code: the memory is "against jitter of single frames"
\* (line 290), so no target is steered by that was not detected for Memory ticks.
MemoryExpires == sight = "remembered" /\ memory_age = 0 => unseen <= Memory

\* VIOLATED by the code: the drive reports success only when the distance is
\* "in place and centred" (line 269).
GraspsCentred == main = "check" => memory.centred

\* VIOLATED by the code: the arm that holds the object is not moved again.
HoldsStill == done => arm = "hold"

\* VIOLATED by the code: the grasp is aborted after 45 s (line 482), and the
\* program ends.
Finishes == <>(main = "finished")

=============================================================================
