------------------------------ MODULE DdsProofs ------------------------------
(***************************************************************************)
(* DdsScheduler is correct for every plan and every fleet, and implements  *)
(* Dispatch; the exit code of the demo around it can be believed.          *)
(*                                                                         *)
(* The coordinator sees only copies of what the vehicles know, and the     *)
(* vehicles only copies of its decisions, so the inductive invariant says  *)
(* what each copy still guarantees about its origin: a bid, that its       *)
(* vehicle has the task and can do it; the coordinator's list of completed *)
(* tasks, that they ran; an entry of executed_tasks, that the vehicle took *)
(* the one assignment of that task.  main only calls operations of the     *)
(* agents, so this holds throughout; what the dashboard has seen completed *)
(* was executed, and as many tasks as there are in the plan are all.       *)
(***************************************************************************)
EXTENDS PlannedDemo, FiniteSetTheorems, TLAPS

\* A bid is only made for a task the vehicle has taken and can do.
BidSound ==
  \A b \in bid_topic :
    /\ b.task \in vehicle[b.agent].tasks
    /\ Needs[b.task] = Capability[b.agent]
    /\ Payload[b.task] <= MaxPayload[b.agent]

\* What the coordinator holds was once published.
CoordinatorSound ==
  /\ coordinator.bids \subseteq bid_topic
  /\ coordinator.completed_tasks \subseteq Completed
  /\ \A a \in assignment_topic : a.task \in coordinator.assigned_tasks

\* A task is assigned at most once.
AssignedOnce ==
  \A a, b \in assignment_topic : a.task = b.task => a = b

\* A vehicle executed only tasks that were assigned to it, and every execution
\* is remembered by the vehicle.
ExecutionSound ==
  /\ \A v \in Vehicles : \A t \in vehicle[v].executed_tasks :
       \E a \in assignment_topic : a.task = t /\ a.agent = v
  /\ \A v \in Vehicles : vehicle[v].taken \subseteq assignment_topic
  /\ \A t \in Tasks : runs[t] = 0 \/ \E v \in Vehicles : t \in vehicle[v].executed_tasks

IInv ==
  /\ TypeOK
  /\ BidSound
  /\ CoordinatorSound
  /\ AssignedOnce
  /\ ExecutionSound
  /\ ExecutedOnce
  /\ PredecessorFirst
  /\ AssignmentKnown
  /\ AssignmentFits

-----------------------------------------------------------------------------
(* Lemmas about the operators                                              *)

\* A drain keeps what was held and takes only what was published.
LEMMA DrainedFacts ==
  ASSUME NEW held, NEW topic, NEW s \in Drained(held, topic)
  PROVE  held \subseteq s /\ s \subseteq topic
  BY DEF Drained

\* synchronize_inputs of a vehicle only adds published tasks.
LEMMA SynchronizedFacts ==
  ASSUME TypeOK, NEW v \in Vehicles, NEW s \in Synchronized(vehicle[v])
  PROVE  /\ s \in VehicleState
         /\ vehicle[v].tasks \subseteq s.tasks
         /\ s.bidded_tasks = vehicle[v].bidded_tasks
         /\ s.executed_tasks = vehicle[v].executed_tasks
         /\ s.taken = vehicle[v].taken
         /\ s.assignment_epochs = vehicle[v].assignment_epochs
<1>1. s.tasks \in Drained(vehicle[v].tasks, task_topic)
  BY DEF Synchronized
<1>2. vehicle[v].tasks \subseteq s.tasks /\ s.tasks \subseteq Tasks
  BY <1>1, DrainedFacts DEF TypeOK
<1>3. vehicle[v] \in VehicleState
  BY DEF TypeOK
<1> QED BY <1>2, <1>3 DEF VehicleState, Synchronized

\* synchronize_inputs of the coordinator only takes what was published.
LEMMA CoordinatorFacts ==
  ASSUME TypeOK, NEW c \in SynchronizedCoordinator
  PROVE  /\ c \in CoordinatorState
         /\ c.bids \subseteq bid_topic
         /\ c.completed_tasks \subseteq Completed
         /\ c.assigned_tasks = coordinator.assigned_tasks
<1>1. /\ c.tasks \in Drained(coordinator.tasks, task_topic)
      /\ c.capabilities \in Drained(coordinator.capabilities, capability_topic)
      /\ c.bids \in Drained(coordinator.bids, bid_topic)
      /\ c.completed_tasks \in Drained(coordinator.completed_tasks, Completed)
  BY DEF SynchronizedCoordinator
<1>2. /\ c.tasks \subseteq Tasks /\ c.capabilities \subseteq Vehicles
      /\ c.bids \subseteq bid_topic /\ c.bids \subseteq Bid
      /\ c.completed_tasks \subseteq Completed /\ c.completed_tasks \subseteq Tasks
  BY <1>1, DrainedFacts DEF TypeOK, Completed
<1>3. coordinator.assigned_tasks \subseteq Tasks
  BY DEF TypeOK, CoordinatorState
<1> QED BY <1>2, <1>3 DEF CoordinatorState, SynchronizedCoordinator

\* The order of the bids is strict, so a task has at most one winner, and that
\* winner is a bid for the task.
LEMMA OneWinner ==
  ASSUME NEW c \in CoordinatorState, NEW t \in Tasks
  PROVE  /\ \A b \in ChosenCandidate(c, t) : b \in c.bids /\ b \in Bid /\ b.task = t
         /\ \A b, o \in ChosenCandidate(c, t) : b = o
<1>1. \A b \in ChosenCandidate(c, t) : b \in c.bids /\ b \in Bid /\ b.task = t
  BY DEF ChosenCandidate, Eligible, CoordinatorState
<1>2. ASSUME NEW b \in ChosenCandidate(c, t), NEW o \in ChosenCandidate(c, t), b # o
      PROVE  FALSE
  <2>1. b \in Bid /\ o \in Bid
    BY <1>1
  <2>2. /\ b.cost \in Nat /\ b.eta \in Nat /\ b.agent \in Nat
        /\ o.cost \in Nat /\ o.eta \in Nat /\ o.agent \in Nat
    BY <2>1, SchedulerAssumption DEF Bid
  <2>3. Before(b, o) /\ Before(o, b)
    BY <1>2 DEF ChosenCandidate
  <2> QED BY <2>2, <2>3 DEF Before
<1> QED BY <1>1, <1>2

\* Epochs are positive numbers.
LEMMA EpochType ==
  ASSUME NEW c \in CoordinatorState, NEW t \in Assignable(c)
  PROVE  Epoch(c, t) \in Nat \ {0}
<1> DEFINE below == {u \in Assignable(c) : u <= t}
<1>1. c.assigned_tasks \subseteq Tasks /\ Assignable(c) \subseteq Tasks /\ t \in Nat
  BY SchedulerAssumption DEF CoordinatorState, Assignable, Ready
<1>2. IsFiniteSet(c.assigned_tasks) /\ IsFiniteSet(below)
  <2>1. below \subseteq Tasks  BY <1>1
  <2> QED BY <1>1, <2>1, SchedulerAssumption, FS_Subset
<1>3. Cardinality(c.assigned_tasks) \in Nat /\ Cardinality(below) \in Nat
  BY <1>2, FS_CardinalityType
<1>4. Cardinality(below) # 0
  <2>1. t \in below  BY <1>1
  <2> QED BY <1>2, <2>1, FS_EmptySet
<1> QED BY <1>3, <1>4 DEF Epoch

-----------------------------------------------------------------------------
(* The invariant is inductive                                              *)

LEMMA InitIInv == Init => IInv
  BY SchedulerAssumption
     DEF Init, VehicleInit, CoordinatorInit, IInv, TypeOK, VehicleState, CoordinatorState,
         BidSound, CoordinatorSound, AssignedOnce, ExecutionSound, ExecutedOnce,
         PredecessorFirst, AssignmentKnown, AssignmentFits, Completed

\* Steps that change neither a vehicle, nor the coordinator, nor what was bid,
\* assigned and executed.
LEMMA OtherStepsKeepIInv ==
  ASSUME IInv,
         task_topic' \subseteq Tasks, transform_topic' \subseteq Tasks,
         capability_topic' \subseteq Vehicles, expired' \subseteq bid_topic,
         UNCHANGED <<bid_topic, assignment_topic, runs, off_target, vehicle, coordinator>>
  PROVE  IInv'
  BY DEF IInv, TypeOK, BidSound, CoordinatorSound, AssignedOnce, ExecutionSound,
         ExecutedOnce, PredecessorFirst, AssignmentKnown, AssignmentFits, Completed

\* A vehicle bids: the bids it adds are sound.
LEMMA BidKeepsIInv ==
  ASSUME IInv, NEW v \in Vehicles, SubmitCandidateBids(v)
  PROVE  IInv'
<1>1. PICK s \in Synchronized(vehicle[v]) : \E offer \in [Wanted(v, s) -> Costs \X Etas] :
        /\ bid_topic' = bid_topic \cup
             {[task |-> t, agent |-> v, cost |-> offer[t][1], eta |-> offer[t][2]] : t \in Wanted(v, s)}
        /\ vehicle' = [vehicle EXCEPT ![v] =
             [s EXCEPT !.bidded_tasks = s.bidded_tasks \cup Wanted(v, s)]]
  BY DEF SubmitCandidateBids
<1>2. PICK offer \in [Wanted(v, s) -> Costs \X Etas] :
        /\ bid_topic' = bid_topic \cup
             {[task |-> t, agent |-> v, cost |-> offer[t][1], eta |-> offer[t][2]] : t \in Wanted(v, s)}
        /\ vehicle' = [vehicle EXCEPT ![v] =
             [s EXCEPT !.bidded_tasks = s.bidded_tasks \cup Wanted(v, s)]]
  BY <1>1
<1>3. TypeOK
  BY DEF IInv
<1>4. /\ s \in VehicleState
      /\ vehicle[v].tasks \subseteq s.tasks
      /\ s.executed_tasks = vehicle[v].executed_tasks
      /\ s.taken = vehicle[v].taken
  BY <1>3, SynchronizedFacts
<1>5. Wanted(v, s) \subseteq s.tasks /\ Wanted(v, s) \subseteq Tasks
  BY <1>4 DEF Wanted, VehicleState
<1>6. /\ vehicle' \in [Vehicles -> VehicleState]
      /\ \A w \in Vehicles : /\ vehicle[w].tasks \subseteq vehicle'[w].tasks
                             /\ vehicle'[w].executed_tasks = vehicle[w].executed_tasks
                             /\ vehicle'[w].taken = vehicle[w].taken
      /\ vehicle'[v].tasks = s.tasks
  BY <1>2, <1>3, <1>4, <1>5 DEF TypeOK, VehicleState
<1>7. \A b \in bid_topic' : b \in bid_topic \/
        /\ b \in Bid /\ b.agent = v /\ b.task \in s.tasks
        /\ Needs[b.task] = Capability[v] /\ Payload[b.task] <= MaxPayload[v]
  BY <1>2, <1>5 DEF Wanted, Bid
<1>8. bid_topic \subseteq bid_topic' /\ bid_topic' \subseteq Bid
  BY <1>2, <1>3, <1>7 DEF TypeOK
<1>9. UNCHANGED <<task_topic, transform_topic, capability_topic, assignment_topic,
                  expired, runs, off_target, coordinator>>
  BY DEF SubmitCandidateBids, world
<1>10. TypeOK'
  BY <1>3, <1>6, <1>8, <1>9 DEF TypeOK
<1>11. BidSound'
  BY <1>3, <1>6, <1>7 DEF IInv, BidSound, TypeOK, Bid
<1>12. CoordinatorSound' /\ AssignedOnce' /\ ExecutedOnce' /\ PredecessorFirst' /\ AssignmentFits'
  BY <1>8, <1>9 DEF IInv, CoordinatorSound, AssignedOnce, ExecutedOnce, PredecessorFirst,
                    AssignmentFits, Completed
<1>13. ExecutionSound'
  BY <1>6, <1>9 DEF IInv, ExecutionSound
<1>14. AssignmentKnown'
  BY <1>3, <1>6, <1>9 DEF IInv, AssignmentKnown, TypeOK, Assignment
<1> QED BY <1>10, <1>11, <1>12, <1>13, <1>14 DEF IInv

\* A vehicle executes: only its own assignments, and none that it executed.
LEMMA ProcessKeepsIInv ==
  ASSUME IInv, NEW v \in Vehicles, ProcessAssignments(v)
  PROVE  IInv'
<1>1. PICK s \in Synchronized(vehicle[v]),
           taken \in Drained(vehicle[v].taken, assignment_topic),
           targets \in SUBSET transform_topic :
        LET mine == Accepted(v, s, taken \ s.taken)
            done == {a.task : a \in mine} \cap s.tasks
        IN /\ vehicle' = [vehicle EXCEPT ![v] =
                [s EXCEPT !.taken = taken,
                          !.executed_tasks = s.executed_tasks \cup done,
                          !.assignment_epochs =
                             [t \in Tasks |-> IF \E a \in mine : a.task = t
                                              THEN (CHOOSE a \in mine : a.task = t).assignment_epoch
                                              ELSE s.assignment_epochs[t]]]]
           /\ runs' = [t \in Tasks |-> IF t \in done THEN runs[t] + 1 ELSE runs[t]]
           /\ off_target' = off_target \cup (done \ targets)
  BY DEF ProcessAssignments
<1> DEFINE mine == Accepted(v, s, taken \ s.taken)
           done == {a.task : a \in mine} \cap s.tasks
           epochs == [t \in Tasks |-> IF \E a \in mine : a.task = t
                                      THEN (CHOOSE a \in mine : a.task = t).assignment_epoch
                                      ELSE s.assignment_epochs[t]]
<1>2. TypeOK
  BY DEF IInv
<1>3. /\ s \in VehicleState
      /\ vehicle[v].tasks \subseteq s.tasks
      /\ s.executed_tasks = vehicle[v].executed_tasks
      /\ s.taken = vehicle[v].taken
      /\ s.assignment_epochs \in [Tasks -> Nat]
  BY <1>2, SynchronizedFacts DEF VehicleState
<1>4. taken \subseteq assignment_topic /\ taken \subseteq Assignment
  BY <1>2, DrainedFacts DEF TypeOK
<1>5. \A a \in mine : /\ a \in taken /\ a \in Assignment
                      /\ a.agent = v /\ a.task \notin vehicle[v].executed_tasks
  BY <1>3, <1>4 DEF Accepted
<1>6. done \subseteq Tasks /\ \A t \in done : /\ t \notin vehicle[v].executed_tasks
                                            /\ \E a \in taken : a.task = t /\ a.agent = v
  BY <1>5 DEF Assignment
<1>7. epochs \in [Tasks -> Nat]
  <2>1. \A t \in Tasks : (\E a \in mine : a.task = t) =>
          (CHOOSE a \in mine : a.task = t) \in mine
    OBVIOUS
  <2> HIDE DEF mine
  <2> QED BY <1>3, <1>5, <2>1 DEF Assignment
<1>8. /\ vehicle' = [vehicle EXCEPT ![v] =
           [s EXCEPT !.taken = taken,
                     !.executed_tasks = s.executed_tasks \cup done,
                     !.assignment_epochs = epochs]]
      /\ runs' = [t \in Tasks |-> IF t \in done THEN runs[t] + 1 ELSE runs[t]]
      /\ off_target' = off_target \cup (done \ targets)
  BY <1>1
<1> HIDE DEF mine, done, epochs
<1>9. /\ vehicle' \in [Vehicles -> VehicleState]
      /\ \A w \in Vehicles : vehicle[w].tasks \subseteq vehicle'[w].tasks
      /\ \A w \in Vehicles \ {v} : vehicle'[w] = vehicle[w]
      /\ vehicle'[v].executed_tasks = vehicle[v].executed_tasks \cup done
      /\ vehicle'[v].taken = taken
  BY <1>2, <1>3, <1>4, <1>6, <1>7, <1>8 DEF TypeOK, VehicleState
<1>10. UNCHANGED <<task_topic, transform_topic, capability_topic, bid_topic,
                   assignment_topic, expired, coordinator>>
  BY DEF ProcessAssignments, topics
<1>11. \A t \in done : runs[t] = 0
  <2> SUFFICES ASSUME NEW t \in done, runs[t] # 0 PROVE FALSE
    OBVIOUS
  <2>1. PICK w \in Vehicles : t \in vehicle[w].executed_tasks
    BY <1>6 DEF IInv, ExecutionSound
  <2>2. PICK b \in assignment_topic : b.task = t /\ b.agent = w
    BY <2>1 DEF IInv, ExecutionSound
  <2>3. PICK a \in assignment_topic : a.task = t /\ a.agent = v
    BY <1>4, <1>6
  <2>4. a = b
    BY <2>2, <2>3 DEF IInv, AssignedOnce
  <2> QED BY <1>6, <2>1, <2>2, <2>3, <2>4
<1>12. /\ runs' \in [Tasks -> Nat]
       /\ \A t \in Tasks : runs'[t] <= 1 /\ runs[t] <= runs'[t]
       /\ \A t \in Tasks : runs'[t] = 0 \/ t \in done \/ runs'[t] = runs[t]
  BY <1>2, <1>8, <1>11 DEF IInv, ExecutedOnce, TypeOK
<1>13. TypeOK'
  BY <1>2, <1>6, <1>8, <1>9, <1>10, <1>12 DEF TypeOK
<1>14. ExecutedOnce' /\ AssignedOnce' /\ AssignmentFits'
  BY <1>10, <1>12 DEF IInv, ExecutedOnce, AssignedOnce, AssignmentFits
<1>15. CoordinatorSound' /\ PredecessorFirst'
  <2>1. Completed \subseteq Completed'
    BY <1>2, <1>12 DEF Completed, TypeOK
  <2>2. CoordinatorSound'
    BY <1>10, <2>1 DEF IInv, CoordinatorSound
  <2>3. \A t \in Tasks : runs[t] > 0 => runs'[t] > 0
    BY <1>2, <1>12 DEF TypeOK
  <2>4. \A a \in assignment_topic : Predecessor[a.task] \in Tasks \cup {None}
    BY <1>2, SchedulerAssumption DEF TypeOK, Assignment
  <2> QED BY <1>10, <2>2, <2>3, <2>4 DEF IInv, PredecessorFirst
<1>16. BidSound' /\ AssignmentKnown'
  BY <1>2, <1>9, <1>10 DEF IInv, BidSound, AssignmentKnown, TypeOK, Bid, Assignment
<1>17. ExecutionSound'
  <2>1. \A w \in Vehicles : \A t \in vehicle'[w].executed_tasks :
          \E a \in assignment_topic : a.task = t /\ a.agent = w
    BY <1>4, <1>6, <1>9 DEF IInv, ExecutionSound
  <2>2. \A w \in Vehicles : vehicle'[w].taken \subseteq assignment_topic
    BY <1>4, <1>9 DEF IInv, ExecutionSound
  <2>3. \A t \in Tasks : runs'[t] = 0 \/ \E w \in Vehicles : t \in vehicle'[w].executed_tasks
    BY <1>9, <1>12 DEF IInv, ExecutionSound
  <2> QED BY <1>10, <2>1, <2>2, <2>3 DEF ExecutionSound
<1> QED BY <1>13, <1>14, <1>15, <1>16, <1>17 DEF IInv

\* The coordinator assigns: tasks that are not assigned, whose predecessor ran,
\* each to one bid it holds.
LEMMA ScheduleKeepsIInv ==
  ASSUME IInv, ScheduleReadyTasks
  PROVE  /\ IInv'
         /\ \A a \in assignment_topic' \ assignment_topic :
              \A b \in assignment_topic : b.task # a.task
<1>1. PICK c \in SynchronizedCoordinator :
        /\ assignment_topic' = assignment_topic \cup
             UNION {{[task |-> t, agent |-> b.agent, assignment_epoch |-> Epoch(c, t)] :
                       b \in ChosenCandidate(c, t)} : t \in Assignable(c)}
        /\ coordinator' = [c EXCEPT !.assigned_tasks = c.assigned_tasks \cup Assignable(c)]
  BY DEF ScheduleReadyTasks
<1>2. TypeOK
  BY DEF IInv
<1>3. /\ c \in CoordinatorState
      /\ c.bids \subseteq bid_topic
      /\ c.completed_tasks \subseteq Completed
      /\ c.assigned_tasks = coordinator.assigned_tasks
  BY <1>2, CoordinatorFacts
<1>4. /\ Assignable(c) \subseteq Tasks \ coordinator.assigned_tasks
      /\ \A t \in Assignable(c) : Predecessor[t] = None \/ Predecessor[t] \in Completed
  BY <1>3 DEF Assignable, Ready, CoordinatorState
\* Every new assignment rests on a bid for its task.
<1>5. \A a \in assignment_topic' : a \in assignment_topic \/
        /\ a.task \in Assignable(c)
        /\ \E b \in ChosenCandidate(c, a.task) :
             a = [task |-> a.task, agent |-> b.agent, assignment_epoch |-> Epoch(c, a.task)]
  BY <1>1
<1>6. \A a \in assignment_topic' : a \in assignment_topic \/
        /\ a.task \in Assignable(c) /\ a \in Assignment
        /\ \E b \in bid_topic : b.task = a.task /\ b.agent = a.agent
  <2> SUFFICES ASSUME NEW a \in assignment_topic', a \notin assignment_topic
               PROVE  /\ a.task \in Assignable(c) /\ a \in Assignment
                      /\ \E b \in bid_topic : b.task = a.task /\ b.agent = a.agent
    OBVIOUS
  <2>1. a.task \in Assignable(c) /\ a.task \in Tasks
    BY <1>4, <1>5
  <2>2. PICK b \in ChosenCandidate(c, a.task) :
          a = [task |-> a.task, agent |-> b.agent, assignment_epoch |-> Epoch(c, a.task)]
    BY <1>5
  <2>3. b \in c.bids /\ b \in Bid /\ b.task = a.task
    BY <1>3, <2>1, OneWinner
  <2>4. Epoch(c, a.task) \in Nat \ {0}
    BY <1>3, <2>1, EpochType
  <2>5. a.agent = b.agent
    BY <2>2
  <2>6. a \in Assignment
    BY <2>1, <2>2, <2>3, <2>4 DEF Assignment, Bid
  <2> QED BY <1>3, <2>1, <2>3, <2>5, <2>6
<1>7. \A a \in assignment_topic' \ assignment_topic :
        \A b \in assignment_topic : b.task # a.task
  BY <1>4, <1>6 DEF IInv, CoordinatorSound
<1>8. AssignedOnce'
  <2> SUFFICES ASSUME NEW a \in assignment_topic', NEW b \in assignment_topic', a.task = b.task
               PROVE  a = b
    BY DEF AssignedOnce
  <2>1. CASE a \in assignment_topic /\ b \in assignment_topic
    BY <2>1 DEF IInv, AssignedOnce
  <2>2. CASE a \notin assignment_topic /\ b \notin assignment_topic
    <3>1. a.task \in Tasks
      BY <1>4, <1>5, <2>2
    <3>2. PICK x \in ChosenCandidate(c, a.task) :
            a = [task |-> a.task, agent |-> x.agent, assignment_epoch |-> Epoch(c, a.task)]
      BY <1>5, <2>2
    <3>3. PICK y \in ChosenCandidate(c, a.task) :
            b = [task |-> a.task, agent |-> y.agent, assignment_epoch |-> Epoch(c, a.task)]
      BY <1>5, <2>2
    <3>4. x = y
      BY <1>3, <3>1, OneWinner
    <3> QED BY <3>2, <3>3, <3>4
  <2>3. CASE a \in assignment_topic /\ b \notin assignment_topic
    BY <1>7, <2>3
  <2>4. CASE a \notin assignment_topic /\ b \in assignment_topic
    BY <1>7, <2>4
  <2> QED BY <2>1, <2>2, <2>3, <2>4
<1>9. UNCHANGED <<task_topic, transform_topic, capability_topic, bid_topic,
                  expired, runs, off_target, vehicle>>
  BY DEF ScheduleReadyTasks, world
<1>10. /\ coordinator' \in CoordinatorState
       /\ coordinator'.bids \subseteq bid_topic
       /\ coordinator'.completed_tasks \subseteq Completed
       /\ coordinator'.assigned_tasks = coordinator.assigned_tasks \cup Assignable(c)
  BY <1>1, <1>3, <1>4 DEF CoordinatorState
<1>11. assignment_topic \subseteq assignment_topic' /\ assignment_topic' \subseteq Assignment
  BY <1>1, <1>2, <1>6 DEF TypeOK
<1>12. TypeOK'
  BY <1>2, <1>9, <1>10, <1>11 DEF TypeOK
<1>13. BidSound' /\ ExecutedOnce'
  BY <1>9 DEF IInv, BidSound, ExecutedOnce
<1>14. CoordinatorSound'
  BY <1>6, <1>9, <1>10 DEF IInv, CoordinatorSound, Completed
<1>15. ExecutionSound'
  BY <1>9, <1>11 DEF IInv, ExecutionSound
<1>16. PredecessorFirst'
  BY <1>4, <1>6, <1>9 DEF IInv, PredecessorFirst, Completed
<1>17. AssignmentKnown' /\ AssignmentFits'
  BY <1>6, <1>9 DEF IInv, AssignmentKnown, AssignmentFits, BidSound
<1> QED BY <1>7, <1>8, <1>12, <1>13, <1>14, <1>15, <1>16, <1>17 DEF IInv

LEMMA StepIInv == IInv /\ [Next]_dvars => IInv'
<1> SUFFICES ASSUME IInv, [Next]_dvars PROVE IInv'
  OBVIOUS
<1> USE DEF world
<1>1. CASE PublishIncidentPlan
  BY <1>1, OtherStepsKeepIInv DEF PublishIncidentPlan, IInv, TypeOK
<1>2. CASE ProcessTasks
  <2>1. transform_topic' \subseteq Tasks
    BY <1>2, DrainedFacts DEF ProcessTasks, IInv, TypeOK
  <2> QED BY <1>2, <2>1, OtherStepsKeepIInv DEF ProcessTasks, IInv, TypeOK
<1>3. ASSUME NEW v \in Vehicles, PublishCapability(v) PROVE IInv'
  BY <1>3, OtherStepsKeepIInv DEF PublishCapability, IInv, TypeOK
<1>4. ASSUME NEW v \in Vehicles, SubmitCandidateBids(v) PROVE IInv'
  BY <1>4, BidKeepsIInv
<1>5. ASSUME NEW v \in Vehicles, ProcessAssignments(v) PROVE IInv'
  BY <1>5, ProcessKeepsIInv
<1>6. CASE ScheduleReadyTasks
  BY <1>6, ScheduleKeepsIInv
<1>7. CASE BidExpires
  BY <1>7, OtherStepsKeepIInv DEF BidExpires, topics, IInv, TypeOK
<1>8. CASE UNCHANGED dvars
  BY <1>8, OtherStepsKeepIInv DEF dvars, topics, IInv, TypeOK
<1> QED BY <1>1, <1>2, <1>3, <1>4, <1>5, <1>6, <1>7, <1>8 DEF Next

\* Every reachable state satisfies the invariant.
THEOREM Invariance == Spec => []IInv
  BY InitIInv, StepIInv, PTL DEF Spec

\* The topics and the agents' collections hold what they are declared to.
THEOREM TypeCorrect == Spec => []TypeOK
<1>1. IInv => TypeOK  BY DEF IInv
<1> QED BY <1>1, Invariance, PTL

\* No task is executed twice, however late every sample is.
THEOREM ExecutesOnce == Spec => []ExecutedOnce
<1>1. IInv => ExecutedOnce  BY DEF IInv
<1> QED BY <1>1, Invariance, PTL

\* No task is assigned before its predecessor ran.
THEOREM PredecessorsFirst == Spec => []PredecessorFirst
<1>1. IInv => PredecessorFirst  BY DEF IInv
<1> QED BY <1>1, Invariance, PTL

\* An assigned vehicle knows its task, so process_assignments drops none.
THEOREM AssignmentsKnown == Spec => []AssignmentKnown
<1>1. IInv => AssignmentKnown  BY DEF IInv
<1> QED BY <1>1, Invariance, PTL

\* An assigned vehicle can do and carry its task.
THEOREM AssignmentsFit == Spec => []AssignmentFits
<1>1. IInv => AssignmentFits  BY DEF IInv
<1> QED BY <1>1, Invariance, PTL

-----------------------------------------------------------------------------
(* Refinement                                                              *)

\* The owner of a task is the vehicle of its assignment, if it has one.
LEMMA OwnerFacts ==
  ASSUME AssignedOnce, NEW t \in Tasks
  PROVE  /\ \A a \in assignment_topic : a.task = t => Owner(t) = a.agent
         /\ (\A a \in assignment_topic : a.task # t) => Owner(t) = None
<1>1. ASSUME NEW a \in assignment_topic, a.task = t
      PROVE  Owner(t) = a.agent
  <2>1. (CHOOSE b \in assignment_topic : b.task = t) = a
    BY <1>1 DEF AssignedOnce
  <2> QED BY <1>1, <2>1 DEF Owner
<1> QED BY <1>1 DEF Owner

\* A step that neither assigns nor executes is a stutter outside.
LEMMA OutsideStutter ==
  ASSUME UNCHANGED assignment_topic,
         \A v \in Vehicles : vehicle'[v].executed_tasks = vehicle[v].executed_tasks
  PROVE  UNCHANGED Abstract!dispatch
<1>1. Executed' = Executed
  BY DEF Executed
<1>2. UNCHANGED [t \in Tasks |-> Owner(t)]
  BY DEF Owner
<1> QED BY <1>1, <1>2 DEF Abstract!dispatch

\* A round of bids executes nothing.
LEMMA BidStutters ==
  ASSUME IInv, NEW v \in Vehicles, SubmitCandidateBids(v)
  PROVE  UNCHANGED Abstract!dispatch
<1>1. PICK s \in Synchronized(vehicle[v]) :
        vehicle' = [vehicle EXCEPT ![v] = [s EXCEPT !.bidded_tasks = s.bidded_tasks \cup Wanted(v, s)]]
  BY DEF SubmitCandidateBids
<1>2. s \in VehicleState /\ s.executed_tasks = vehicle[v].executed_tasks
  BY SynchronizedFacts DEF IInv
<1>3. \A u \in Vehicles : vehicle'[u].executed_tasks = vehicle[u].executed_tasks
  BY <1>1, <1>2 DEF IInv, TypeOK, VehicleState
<1> QED BY <1>3, OutsideStutter DEF SubmitCandidateBids

LEMMA InitRefines == Init => Abstract!Init
  BY DEF Init, Abstract!Init, Owner, Executed, VehicleInit

\* A scheduling round gives owners to tasks that had none.
LEMMA ScheduleRefines ==
  ASSUME IInv, ScheduleReadyTasks
  PROVE  Abstract!Assign
<1>1. IInv' /\ \A a \in assignment_topic' \ assignment_topic :
                  \A b \in assignment_topic : b.task # a.task
  BY ScheduleKeepsIInv
<1>2. assignment_topic \subseteq assignment_topic' /\ UNCHANGED runs
  BY DEF ScheduleReadyTasks, world
<1>3. assignment_topic' \subseteq Assignment
  BY <1>1 DEF IInv, TypeOK
<1>4. \A t \in Tasks : /\ \A a \in assignment_topic' : a.task = t => Owner(t)' = a.agent
                       /\ (\A a \in assignment_topic' : a.task # t) => Owner(t)' = None
  <2> SUFFICES ASSUME NEW t \in Tasks
               PROVE  /\ \A a \in assignment_topic' : a.task = t => Owner(t)' = a.agent
                      /\ (\A a \in assignment_topic' : a.task # t) => Owner(t)' = None
    OBVIOUS
  <2>1. ASSUME NEW a \in assignment_topic', a.task = t
        PROVE  Owner(t)' = a.agent
    <3>1. (CHOOSE b \in assignment_topic' : b.task = t) = a
      BY <1>1, <2>1 DEF IInv, AssignedOnce
    <3> QED BY <2>1, <3>1 DEF Owner
  <2> QED BY <2>1 DEF Owner
<1>5. \A t \in Tasks : Owner(t)' \in Vehicles \cup {None}
  BY <1>3, <1>4 DEF Assignment
<1>6. ASSUME NEW t \in Tasks, Owner(t)' # Owner(t)
      PROVE  /\ Owner(t) = None
             /\ <<t, Owner(t)'>> \in Able
             /\ Predecessor[t] # None =>
                  \E v \in Vehicles : <<Predecessor[t], v>> \in Executed
  <2>1. PICK a \in assignment_topic' : a.task = t /\ a.agent = Owner(t)'
    <3>1. CASE \A a \in assignment_topic' : a.task # t
      BY <1>2, <1>4, <1>6, <3>1, OwnerFacts DEF IInv
    <3> QED BY <1>4, <3>1
  <2>2. a \notin assignment_topic
    BY <1>6, <2>1, OwnerFacts DEF IInv
  <2>3. Owner(t) = None
    BY <1>1, <2>1, <2>2, OwnerFacts DEF IInv
  <2>4. <<t, Owner(t)'>> \in Able
    BY <1>1, <1>3, <2>1 DEF IInv, AssignmentFits, Able, Assignment
  <2>5. ASSUME Predecessor[t] # None
        PROVE  \E v \in Vehicles : <<Predecessor[t], v>> \in Executed
    <3>1. Predecessor[t] \in Tasks /\ runs[Predecessor[t]] > 0
      BY <1>1, <1>2, <2>1, <2>5, SchedulerAssumption DEF IInv, PredecessorFirst
    <3>2. PICK v \in Vehicles : Predecessor[t] \in vehicle[v].executed_tasks
      BY <3>1 DEF IInv, ExecutionSound
    <3> QED BY <3>1, <3>2 DEF Executed
  <2> QED BY <2>3, <2>4, <2>5
<1>7. Executed' = Executed
  BY DEF ScheduleReadyTasks, Executed
<1> QED BY <1>5, <1>6, <1>7 DEF Abstract!Assign

\* A vehicle executes tasks it owns.
LEMMA ProcessRefines ==
  ASSUME IInv, NEW v \in Vehicles, ProcessAssignments(v)
  PROVE  Abstract!Execute(v)
<1>1. PICK s \in Synchronized(vehicle[v]),
           taken \in Drained(vehicle[v].taken, assignment_topic) :
        LET mine == Accepted(v, s, taken \ s.taken)
            done == {a.task : a \in mine} \cap s.tasks
        IN vehicle' = [vehicle EXCEPT ![v] =
             [s EXCEPT !.taken = taken,
                       !.executed_tasks = s.executed_tasks \cup done,
                       !.assignment_epochs =
                          [t \in Tasks |-> IF \E a \in mine : a.task = t
                                           THEN (CHOOSE a \in mine : a.task = t).assignment_epoch
                                           ELSE s.assignment_epochs[t]]]]
  BY DEF ProcessAssignments
<1> DEFINE done == {a.task : a \in Accepted(v, s, taken \ s.taken)} \cap s.tasks
<1>2. taken \subseteq assignment_topic /\ assignment_topic \subseteq Assignment
  BY DrainedFacts DEF IInv, TypeOK
<1>3. \A t \in done : t \in Tasks /\ \E a \in assignment_topic : a.task = t /\ a.agent = v
  BY <1>2 DEF Accepted, Assignment
<1>4. \A t \in done : t \in Tasks /\ Owner(t) = v
  BY <1>3, OwnerFacts DEF IInv
<1>5. s \in VehicleState /\ s.executed_tasks = vehicle[v].executed_tasks
  BY SynchronizedFacts DEF IInv
<1>6. vehicle'[v].executed_tasks = vehicle[v].executed_tasks \cup done
  BY <1>1, <1>5 DEF IInv, TypeOK, VehicleState
<1>7. \A u \in Vehicles \ {v} : vehicle'[u] = vehicle[u]
  BY <1>1 DEF IInv, TypeOK
<1> HIDE DEF done
<1>8. Executed' = Executed \cup (done \X {v})
  BY <1>4, <1>6, <1>7 DEF Executed
<1>9. UNCHANGED [t \in Tasks |-> Owner(t)]
  BY DEF ProcessAssignments, topics, Owner
<1> QED BY <1>4, <1>8, <1>9 DEF Abstract!Execute

\* The scheduler implements Dispatch.
THEOREM Refinement == Spec => Implements
<1>1. IInv /\ [Next]_dvars => [Abstract!Next]_(Abstract!dispatch)
  <2> SUFFICES ASSUME IInv, [Next]_dvars PROVE [Abstract!Next]_(Abstract!dispatch)
    OBVIOUS
  <2>1. CASE ScheduleReadyTasks
    BY <2>1, ScheduleRefines DEF Abstract!Next
  <2>2. ASSUME NEW v \in Vehicles, ProcessAssignments(v)
        PROVE  [Abstract!Next]_(Abstract!dispatch)
    BY <2>2, ProcessRefines DEF Abstract!Next
  <2>3. ASSUME NEW v \in Vehicles, SubmitCandidateBids(v)
        PROVE  UNCHANGED Abstract!dispatch
    BY <2>3, BidStutters
  <2>4. CASE UNCHANGED <<assignment_topic, vehicle>>
    BY <2>4, OutsideStutter
  <2> QED BY <2>1, <2>2, <2>3, <2>4
          DEF Next, PublishIncidentPlan, ProcessTasks, PublishCapability, BidExpires,
              dvars, topics, world
<1> QED BY <1>1, InitRefines, Invariance, PTL DEF Spec, Implements, Abstract!Spec

-----------------------------------------------------------------------------
(* The demo                                                                *)

DemoInv ==
  /\ IInv
  /\ dashboard \subseteq Completed
  /\ exit_code = 0 => Completed = Tasks

\* Nothing that was executed is forgotten.
LEMMA CompletedGrows ==
  ASSUME IInv, [Next]_dvars
  PROVE  Completed \subseteq Completed'
<1>1. CASE UNCHANGED runs
  BY <1>1 DEF Completed
<1>2. ASSUME NEW v \in Vehicles, ProcessAssignments(v)
      PROVE  Completed \subseteq Completed'
  <2>1. \A t \in Tasks : runs'[t] = runs[t] + 1 \/ runs'[t] = runs[t]
    BY <1>2 DEF ProcessAssignments
  <2> QED BY <2>1 DEF Completed, IInv, TypeOK
<1> QED BY <1>1, <1>2 DEF Next, PublishIncidentPlan, ProcessTasks, PublishCapability,
              SubmitCandidateBids, ScheduleReadyTasks, BidExpires, dvars, world

\* A step of the demo is one of the agents', or leaves them alone.
LEMMA DemoStep ==
  ASSUME [DemoNext]_demo
  PROVE  /\ [Next]_dvars
         /\ UNCHANGED <<dashboard, exit_code>>
              \/ Collect
              \/ Check
<1>1. CASE UNCHANGED demo
  BY <1>1 DEF demo, dvars
<1>2. CASE Delay
  BY <1>2 DEF Delay, Next
<1>3. ASSUME NEW name, Agent(name)
      PROVE  Next /\ UNCHANGED <<dashboard, exit_code>>
  BY <1>3, DemoAssumption DEF Agent, Next
<1>4. CASE Main
  BY <1>3, <1>4 DEF Main, Collect, Check
<1> QED BY <1>1, <1>2, <1>4 DEF DemoNext

LEMMA DemoStepKeeps ==
  ASSUME DemoInv, [DemoNext]_demo
  PROVE  DemoInv'
<1>1. IInv' /\ Completed \subseteq Completed'
  BY DemoStep, StepIInv, CompletedGrows DEF DemoInv
<1>2. Completed' \subseteq Tasks
  BY DEF Completed
<1>3. CASE UNCHANGED <<dashboard, exit_code>>
  BY <1>1, <1>2, <1>3 DEF DemoInv
<1>4. CASE Collect
  <2>1. dashboard' \subseteq Completed
    BY <1>4, DrainedFacts DEF Collect, Finished, DemoInv
  <2> QED BY <1>1, <1>2, <1>4, <2>1 DEF Collect, DemoInv
<1>5. CASE Check
  <2>1. ASSUME exit_code' = 0
        PROVE  Completed' = Tasks
    <3>1. Cardinality(dashboard) = Cardinality(Tasks)
      BY <1>5, <2>1 DEF Check
    <3>2. dashboard \subseteq Tasks /\ IsFiniteSet(Tasks)
      BY SchedulerAssumption DEF DemoInv, Completed
    <3>3. dashboard = Tasks
      BY <3>1, <3>2, FS_Subset
    <3> QED BY <1>1, <1>2, <3>3 DEF DemoInv
  <2> QED BY <1>1, <1>5, <2>1 DEF Check, DemoInv
<1> QED BY <1>3, <1>4, <1>5, DemoStep

LEMMA DemoInvariance == PlannedSpec => []DemoInv
<1>1. PlannedInit => DemoInv
  BY InitIInv, SchedulerAssumption, DemoAssumption DEF PlannedInit, DemoInit, DemoInv
<1>2. DemoInv /\ [PlannedNext]_planned => DemoInv'
  <2> SUFFICES ASSUME DemoInv, [PlannedNext]_planned PROVE DemoInv'
    OBVIOUS
  <2>1. CASE [DemoNext]_demo
    BY <2>1, DemoStepKeeps
  <2>2. ASSUME NEW given, LoadPlan(given)
        PROVE  DemoInv'
    <3>1. UNCHANGED <<dvars, dashboard>> /\ exit_code' # 0
      BY <2>2, DemoAssumption DEF LoadPlan
    <3>2. IInv'
      BY <3>1, StepIInv DEF DemoInv
    <3>3. Completed' = Completed
      BY <3>1 DEF Completed, dvars, world
    <3> QED BY <3>1, <3>2, <3>3 DEF DemoInv
  <2> QED BY <2>1, <2>2 DEF PlannedNext, WriteTemporary, Replace, planned
<1> QED BY <1>1, <1>2, PTL DEF PlannedSpec

\* Exit code 0 means that every task was executed exactly once, by a vehicle
\* that is able to, whatever was late and whichever bids lapsed.
THEOREM ExitIsHonest == PlannedSpec => []ExitHonest
<1>1. DemoInv => ExitHonest
  <2> SUFFICES ASSUME DemoInv, exit_code = 0, NEW t \in Tasks
               PROVE  runs[t] = 1 /\ <<t, Owner(t)>> \in Able
    BY DEF ExitHonest
  <2>1. runs[t] > 0 /\ runs[t] <= 1 /\ runs[t] \in Nat
    BY DEF DemoInv, Completed, IInv, ExecutedOnce, TypeOK
  <2>2. PICK v \in Vehicles : t \in vehicle[v].executed_tasks
    BY <2>1 DEF DemoInv, IInv, ExecutionSound
  <2>3. PICK a \in assignment_topic : a.task = t /\ a.agent = v
    BY <2>2 DEF DemoInv, IInv, ExecutionSound
  <2>4. Owner(t) = v
    BY <2>3, OwnerFacts DEF DemoInv, IInv
  <2> QED BY <2>1, <2>3, <2>4 DEF DemoInv, IInv, AssignmentFits, Able
<1> QED BY <1>1, DemoInvariance, PTL

\* The planner's validator accepts nothing that the C++ one rejects.
LEMMA Agreement ==
  ASSUME NEW document \in Documents, Validates(document)
  PROVE  Loads(document)
<1>1. /\ Len(document) = 2 /\ DOMAIN document = 1..2
      /\ document[1] \in PlanTask \cup {Malformed} /\ document[2] \in PlanTask \cup {Malformed}
  <2>1. PICK n \in 0..2 : document \in [1..n -> PlanTask \cup {Malformed}]
    BY DEF Documents
  <2>2. document \in Seq(PlanTask \cup {Malformed}) /\ Len(document) = n
    BY <2>1
  <2> QED BY <2>1, <2>2 DEF Validates
<1>2. PICK s : OfKind(document, "SURVEY") = {s}
  <2>1. IsFiniteSet(OfKind(document, "SURVEY"))
    BY <1>1, FS_Interval, FS_Subset DEF OfKind
  <2> QED BY <2>1, FS_Singleton DEF Validates
<1>3. PICK d : OfKind(document, "DELIVERY") = {d}
  <2>1. IsFiniteSet(OfKind(document, "DELIVERY"))
    BY <1>1, FS_Interval, FS_Subset DEF OfKind
  <2> QED BY <2>1, FS_Singleton DEF Validates
<1>4. /\ s \in 1..2 /\ document[s].kind = "SURVEY"
      /\ d \in 1..2 /\ document[d].kind = "DELIVERY"
  <2>1. s \in OfKind(document, "SURVEY") /\ d \in OfKind(document, "DELIVERY")
    BY <1>2, <1>3
  <2> QED BY <2>1, <1>1 DEF OfKind
<1>5. document[1].task_id # document[2].task_id
  <2>1. document[2].task_id \notin {document[j].task_id : j \in 1..(2 - 1)}
    BY DEF Validates
  <2>2. 1 \in 1..(2 - 1)
    OBVIOUS
  <2> QED BY <2>1, <2>2
<1>6. /\ document[s].predecessor_task_id = NoTask
      /\ document[d].predecessor_task_id = document[s].task_id
      /\ document[s].incident_id = document[d].incident_id
  BY <1>2, <1>3 DEF Validates
<1>7. \A i \in 1..2 : TaskParses(document[i])
  <2> SUFFICES ASSUME NEW i \in 1..2
               PROVE  TaskParses(document[i])
    OBVIOUS
  <2>1. document[i].kind \in {"SURVEY", "DELIVERY"}
    <3>1. i = 1 \/ i = 2
      OBVIOUS
    <3>2. document[i] \in PlanTask \cup {Malformed}
      BY <1>1, <3>1
    <3>3. \A task \in PlanTask : task.kind \in {"SURVEY", "DELIVERY"}
      BY DEF PlanTask
    <3>4. Malformed.kind = "SURVEY"
      BY DEF Malformed
    <3> QED BY <3>2, <3>3, <3>4
  <2> QED BY <2>1 DEF Validates, TaskParses
<1> QED BY <1>1, <1>4, <1>5, <1>6, <1>7 DEF Loads, PlanHolds

\* Whatever the model answers and wherever the planner stops, a file of the
\* planner is one that the demo loads.
THEOREM PlannerFilesLoad == PlannedSpec => []PlannerFileLoads
<1> DEFINE FileInv ==
      /\ temporary \in Validated \cup {None, Unfinished}
      /\ PlannerFileLoads
<1>1. PlannedInit => FileInv
  BY DEF PlannedInit, PlannerFileLoads
<1>2. FileInv /\ [PlannedNext]_planned => FileInv'
  <2> SUFFICES ASSUME FileInv, [PlannedNext]_planned PROVE FileInv'
    OBVIOUS
  <2>1. CASE UNCHANGED plan_files
    BY <2>1 DEF plan_files, PlannerFileLoads
  <2>2. CASE WriteTemporary
    <3>1. UNCHANGED <<file, by_planner>> /\ temporary' \in Validated \cup {Unfinished}
      BY <2>2 DEF WriteTemporary
    <3> QED BY <3>1 DEF PlannerFileLoads
  <2>3. CASE Replace
    <3>1. temporary \in Documents /\ Validates(temporary)
      BY <2>3 DEF Replace, Validated
    <3> QED BY <2>3, <3>1, Agreement DEF Replace, PlannerFileLoads
  <2>4. ASSUME NEW given, LoadPlan(given)
        PROVE  FileInv'
    BY <2>4 DEF LoadPlan, PlannerFileLoads
  <2> QED BY <2>1, <2>2, <2>3, <2>4 DEF PlannedNext, planned
<1>3. FileInv => PlannerFileLoads
  OBVIOUS
<1> QED BY <1>1, <1>2, <1>3, PTL DEF PlannedSpec

\* The tasks of the scheduler are a survey and a delivery that waits for it and
\* carries what a plan may ask for.
SurveyThenDelivery(survey, delivery) ==
  /\ Tasks = {survey, delivery} /\ survey # delivery
  /\ Predecessor[survey] = None /\ Predecessor[delivery] = survey
  /\ Needs[survey] = "CAMERA_THERMAL" /\ Needs[delivery] = "MEDICAL_PAYLOAD"
  /\ Payload[delivery] >= 12

\* What the C++ validator accepts fits such tasks.
LEMMA LoadedFits ==
  ASSUME NEW survey, NEW delivery, SurveyThenDelivery(survey, delivery),
         NEW document \in Documents, Loads(document), plan = document
  PROVE  PlanFits
<1>1. Len(document) = 2 /\ DOMAIN document = 1..2
  <2>1. PICK n \in 0..2 : document \in [1..n -> PlanTask \cup {Malformed}]
    BY DEF Documents
  <2>2. document \in Seq(PlanTask \cup {Malformed}) /\ Len(document) = n
    BY <2>1
  <2> QED BY <2>1, <2>2 DEF Loads, PlanHolds
<1>2. PICK s \in 1..2, d \in 1..2 :
        /\ document[s].kind = "SURVEY" /\ document[d].kind = "DELIVERY"
        /\ document[s].predecessor_task_id = NoTask
        /\ document[d].predecessor_task_id = document[s].task_id
  BY DEF Loads, PlanHolds
<1>3. s # d
  BY <1>2
<1>4. /\ document[s].required_capability = "CAMERA_THERMAL" /\ document[s].payload_kg = 0
      /\ document[d].required_capability = "MEDICAL_PAYLOAD"
  <2>1. TaskParses(document[s]) /\ TaskParses(document[d])
    BY <1>1 DEF Loads
  <2> QED BY <2>1, <1>2 DEF TaskParses
<1>5. document[d].payload_kg \in {0, 12}
  <2>1. document[d] \in PlanTask \cup {Malformed}
    BY <1>1 DEF Documents
  <2>2. \A task \in PlanTask : task.payload_kg \in {0, 12}
    BY DEF PlanTask
  <2>3. Malformed.payload_kg \in {0, 12}
    BY DEF Malformed
  <2> QED BY <2>1, <2>2, <2>3
<1>6. Payload[survey] \in Nat /\ Payload[delivery] \in Nat
  BY SchedulerAssumption DEF SurveyThenDelivery
<1> DEFINE f == [t \in Tasks |-> IF t = survey THEN s ELSE d]
<1>7. f \in [Tasks -> 1..Len(document)] /\ f[survey] = s /\ f[delivery] = d
  BY <1>1 DEF SurveyThenDelivery
<1> HIDE DEF f
<1>8. \A i \in 1..Len(document) : \E t \in Tasks : f[t] = i
  <2> SUFFICES ASSUME NEW i \in 1..Len(document)
               PROVE  \E t \in Tasks : f[t] = i
    OBVIOUS
  <2>1. i = s \/ i = d
    BY <1>1, <1>3
  <2> QED BY <2>1, <1>7 DEF SurveyThenDelivery
<1>9. /\ document[f[survey]].payload_kg <= Payload[survey]
      /\ document[f[delivery]].payload_kg <= Payload[delivery]
  BY <1>4, <1>5, <1>6, <1>7 DEF SurveyThenDelivery
<1>10. ASSUME NEW t \in Tasks
       PROVE  /\ document[f[t]].required_capability = Needs[t]
              /\ document[f[t]].payload_kg <= Payload[t]
              /\ IF Predecessor[t] = None THEN document[f[t]].predecessor_task_id = NoTask
                 ELSE document[f[t]].predecessor_task_id = document[f[Predecessor[t]]].task_id
  <2>1. CASE t = survey
    BY <2>1, <1>2, <1>4, <1>7, <1>9, Zenon DEF SurveyThenDelivery
  <2>2. CASE t = delivery
    <3>1. Predecessor[t] # None
      BY <2>2, SchedulerAssumption DEF SurveyThenDelivery
    <3> QED BY <2>2, <3>1, <1>2, <1>4, <1>7, <1>9, Zenon DEF SurveyThenDelivery
  <2> QED BY <2>1, <2>2 DEF SurveyThenDelivery
<1> QED BY <1>7, <1>8, <1>10, Zenon DEF PlanFits

\* Whichever file is loaded, the plan that runs is one the two vehicles can do in
\* the demo's two rounds, so the constants of the scheduler stand for all of them.
THEOREM PlanAlwaysFits ==
  ASSUME NEW survey, NEW delivery, SurveyThenDelivery(survey, delivery)
  PROVE  PlannedSpec => []PlanFits
<1> DEFINE PlanInv ==
      /\ temporary \in Validated \cup {None, Unfinished}
      /\ file \in Documents \cup {None}
      /\ plan # None => plan \in Documents /\ Loads(plan)
<1>1. PlannedInit => PlanInv
  BY DEF PlannedInit
<1>2. PlanInv /\ [PlannedNext]_planned => PlanInv'
  <2> SUFFICES ASSUME PlanInv, [PlannedNext]_planned PROVE PlanInv'
    OBVIOUS
  <2>1. CASE UNCHANGED <<plan_files, plan>>
    BY <2>1 DEF plan_files
  <2>2. CASE WriteTemporary
    BY <2>2 DEF WriteTemporary
  <2>3. CASE Replace
    <3>1. temporary \in Documents
      BY <2>3 DEF Replace, Validated
    <3> QED BY <2>3, <3>1 DEF Replace
  <2>4. ASSUME NEW given \in Documents \cup {file}, LoadPlan(given)
        PROVE  PlanInv'
    <3>1. given # None => given \in Documents
      OBVIOUS
    <3> QED BY <2>4, <3>1 DEF LoadPlan
  <2> QED BY <2>1, <2>2, <2>3, <2>4 DEF PlannedNext, planned
<1>3. PlanInv => PlanFits
  <2> SUFFICES ASSUME PlanInv, plan # None PROVE PlanFits
    BY DEF PlanFits
  <2> QED BY LoadedFits
<1> QED BY <1>1, <1>2, <1>3, PTL DEF PlannedSpec

=============================================================================
