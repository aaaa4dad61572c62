---------------------------- MODULE DdsScheduler ----------------------------
(***************************************************************************)
(* The agents of the ZRDDS scheduler (src/src/main.cpp) and the topics     *)
(* between them: a planner publishes tasks, vehicles bid for the ones they *)
(* can do, the coordinator assigns each task to its cheapest bid once its  *)
(* predecessor is completed.                                               *)
(*                                                                         *)
(* A topic is the set of samples written to it.  Every reader takes some   *)
(* of the samples it has not taken yet: reliable topics may be late, and   *)
(* the best-effort CoordinateTransform may never come.  Here the operations *)
(* may be called in any order; DdsDemo runs them in the order of main.     *)
(*                                                                         *)
(* Left out: poses and batteries, which only enter the cost of a bid (any  *)
(* of Costs), and the states and events other than PHASE_COMPLETED.        *)
(***************************************************************************)
EXTENDS Naturals, FiniteSets

CONSTANTS
  Tasks,        \* task ids, ordered as std::map orders them
  Vehicles,     \* agent ids, ordered likewise
  Predecessor,  \* predecessor_task_id of a task, None for ""
  Needs,        \* required_capability of a task
  Capability,   \* primary_capability of a vehicle
  Payload,      \* payload_kg of a task
  MaxPayload,   \* max_payload_kg of a vehicle
  Costs, Etas,  \* what a bid may offer
  Settled,      \* settle() outlasts every delivery but the best-effort one
  None

Bid == [task : Tasks, agent : Vehicles, cost : Costs, eta : Etas]

Assignment == [task : Tasks, agent : Vehicles, assignment_epoch : Nat \ {0}]

ASSUME SchedulerAssumption ==
  /\ Tasks \subseteq Nat /\ IsFiniteSet(Tasks)
  /\ Vehicles \subseteq Nat
  /\ Costs \subseteq Nat /\ Etas \subseteq Nat
  /\ Predecessor \in [Tasks -> Tasks \cup {None}]
  /\ Payload \in [Tasks -> Nat] /\ MaxPayload \in [Vehicles -> Nat]
  /\ DOMAIN Needs = Tasks /\ DOMAIN Capability = Vehicles
  /\ Settled \in BOOLEAN
  /\ None \notin Tasks /\ None \notin Vehicles

VARIABLES
  task_topic,        \* tasks published
  transform_topic,   \* tasks whose coordinate transform was published
  capability_topic,  \* vehicles that announced themselves
  bid_topic,         \* bids
  assignment_topic,  \* assignments
  expired,           \* bids older than their bid_ttl_ms
  runs,              \* how often a task was executed, each time to PHASE_COMPLETED
  off_target,        \* tasks executed without having their transform
  vehicle,           \* the state of each VehicleAgent
  coordinator        \* the state of the Coordinator

topics == <<task_topic, transform_topic, capability_topic, bid_topic, assignment_topic>>
world  == <<expired, runs, off_target>>
dvars  == <<topics, world, vehicle, coordinator>>

-----------------------------------------------------------------------------
(* Readers                                                                 *)

\* What a reader may hold after a drain of a topic, having held some of it.
Drained(held, topic) == {s \in SUBSET topic : held \subseteq s /\ (Settled => s = topic)}

Completed == {t \in Tasks : runs[t] > 0}

-----------------------------------------------------------------------------
(* StructuredPlanner and CoordinateService                                 *)

PublishIncidentPlan ==
  /\ task_topic = {}
  /\ task_topic' = Tasks
  /\ UNCHANGED <<transform_topic, capability_topic, bid_topic, assignment_topic,
                 world, vehicle, coordinator>>

\* The service publishes a transform for every task it takes, and keeps nothing.
ProcessTasks ==
  /\ transform_topic' \in Drained(transform_topic, task_topic)
  /\ UNCHANGED <<task_topic, capability_topic, bid_topic, assignment_topic,
                 world, vehicle, coordinator>>

-----------------------------------------------------------------------------
(* VehicleAgent                                                            *)

PublishCapability(v) ==
  /\ capability_topic' = capability_topic \cup {v}
  /\ UNCHANGED <<task_topic, transform_topic, bid_topic, assignment_topic,
                 world, vehicle, coordinator>>

\* synchronize_inputs of a vehicle whose state is s: the states it may lead to.
\* Which transforms it got matters only where targets_ decides a destination.
Synchronized(s) ==
  [tasks             : Drained(s.tasks, task_topic),
   bidded_tasks      : {s.bidded_tasks},
   executed_tasks    : {s.executed_tasks},
   assignment_epochs : {s.assignment_epochs},
   taken             : {s.taken}]

\* A mistake: the payload is not looked at.
WantedAnyPayload(v, s) == {t \in s.tasks \ s.bidded_tasks : Needs[t] = Capability[v]}

\* The tasks the vehicle bids for.
Wanted(v, s) ==
  {t \in s.tasks \ s.bidded_tasks : Needs[t] = Capability[v] /\ Payload[t] <= MaxPayload[v]}

SubmitCandidateBids(v) ==
  /\ \E s \in Synchronized(vehicle[v]) :
     \E offer \in [Wanted(v, s) -> Costs \X Etas] :
       /\ bid_topic' = bid_topic \cup
            {[task |-> t, agent |-> v, cost |-> offer[t][1], eta |-> offer[t][2]] : t \in Wanted(v, s)}
       /\ vehicle' = [vehicle EXCEPT ![v] =
            [s EXCEPT !.bidded_tasks = s.bidded_tasks \cup Wanted(v, s)]]
  /\ UNCHANGED <<task_topic, transform_topic, capability_topic, assignment_topic,
                 world, coordinator>>

\* The assignments among new that concern the vehicle and are not old ones.
Accepted(v, s, new) ==
  {a \in new : a.agent = v /\ a.task \notin s.executed_tasks
               /\ a.assignment_epoch > s.assignment_epochs[a.task]}

\* process_assignments, with execute for every task the vehicle knows.
ProcessAssignments(v) ==
  /\ \E s \in Synchronized(vehicle[v]) :
     \E taken \in Drained(vehicle[v].taken, assignment_topic) :
     \E targets \in SUBSET transform_topic :
       LET mine == Accepted(v, s, taken \ s.taken)
           done == {a.task : a \in mine} \cap s.tasks
       IN /\ vehicle' = [vehicle EXCEPT ![v] =
               [s EXCEPT !.taken = taken,
                         !.executed_tasks = s.executed_tasks \cup done,
                         !.assignment_epochs =
                            [t \in Tasks |-> IF \E a \in mine : a.task = t
                                             THEN (CHOOSE a \in mine : a.task = t).assignment_epoch
                                             ELSE s.assignment_epochs[t]]]]
          /\ runs' = [t \in Tasks |-> IF t \in done THEN runs[t] + 1 ELSE runs[t]]
          /\ off_target' = off_target \cup (done \ targets)
  /\ UNCHANGED <<topics, expired, coordinator>>

-----------------------------------------------------------------------------
(* Coordinator                                                             *)

SynchronizedCoordinator ==
  [tasks           : Drained(coordinator.tasks, task_topic),
   capabilities    : Drained(coordinator.capabilities, capability_topic),
   bids            : Drained(coordinator.bids, bid_topic),
   completed_tasks : Drained(coordinator.completed_tasks, Completed),
   assigned_tasks  : {coordinator.assigned_tasks}]

Ready(c) ==
  {t \in c.tasks \ c.assigned_tasks :
     Predecessor[t] = None \/ Predecessor[t] \in c.completed_tasks}

Eligible(c, t) ==
  {b \in c.bids : /\ b.task = t
                  /\ b \notin expired
                  /\ b.agent \in c.capabilities
                  /\ Capability[b.agent] = Needs[t]}

\* Lowest cost, then shortest ETA, then bid id, which ends in the agent's id.
Before(b, c) ==
  \/ b.cost < c.cost
  \/ b.cost = c.cost /\ b.eta < c.eta
  \/ b.cost = c.cost /\ b.eta = c.eta /\ b.agent < c.agent

\* choose_candidate: empty or the winning bid.
ChosenCandidate(c, t) ==
  {b \in Eligible(c, t) : \A o \in Eligible(c, t) \ {b} : Before(b, o)}

\* The tasks assigned by one call, in the order of their ids.
Assignable(c) == {t \in Ready(c) : ChosenCandidate(c, t) # {}}

Epoch(c, t) == Cardinality(c.assigned_tasks) + Cardinality({u \in Assignable(c) : u <= t})

ScheduleReadyTasks ==
  /\ \E c \in SynchronizedCoordinator :
       /\ assignment_topic' = assignment_topic \cup
            UNION {{[task |-> t, agent |-> b.agent, assignment_epoch |-> Epoch(c, t)] :
                      b \in ChosenCandidate(c, t)} : t \in Assignable(c)}
       /\ coordinator' = [c EXCEPT !.assigned_tasks = c.assigned_tasks \cup Assignable(c)]
  /\ UNCHANGED <<task_topic, transform_topic, capability_topic, bid_topic,
                 world, vehicle>>

-----------------------------------------------------------------------------
(* Time                                                                    *)

\* A bid outlives its bid_ttl_ms; no vehicle bids twice for a task.
BidExpires ==
  /\ \E b \in bid_topic \ expired : expired' = expired \cup {b}
  /\ UNCHANGED <<topics, runs, off_target, vehicle, coordinator>>

-----------------------------------------------------------------------------
VehicleInit ==
  [tasks |-> {}, bidded_tasks |-> {}, executed_tasks |-> {},
   assignment_epochs |-> [t \in Tasks |-> 0], taken |-> {}]

CoordinatorInit ==
  [tasks |-> {}, capabilities |-> {}, bids |-> {}, completed_tasks |-> {}, assigned_tasks |-> {}]

Init ==
  /\ task_topic = {} /\ transform_topic = {} /\ capability_topic = {}
  /\ bid_topic = {} /\ assignment_topic = {}
  /\ expired = {}
  /\ runs = [t \in Tasks |-> 0]
  /\ off_target = {}
  /\ vehicle = [v \in Vehicles |-> VehicleInit]
  /\ coordinator = CoordinatorInit

Next ==
  \/ PublishIncidentPlan
  \/ ProcessTasks
  \/ \E v \in Vehicles : PublishCapability(v)
  \/ \E v \in Vehicles : SubmitCandidateBids(v)
  \/ \E v \in Vehicles : ProcessAssignments(v)
  \/ ScheduleReadyTasks
  \/ BidExpires

Spec == Init /\ [][Next]_dvars

-----------------------------------------------------------------------------
(* Properties                                                              *)

VehicleState ==
  [tasks : SUBSET Tasks, bidded_tasks : SUBSET Tasks,
   executed_tasks : SUBSET Tasks, assignment_epochs : [Tasks -> Nat],
   taken : SUBSET Assignment]

CoordinatorState ==
  [tasks : SUBSET Tasks, capabilities : SUBSET Vehicles, bids : SUBSET Bid,
   completed_tasks : SUBSET Tasks, assigned_tasks : SUBSET Tasks]

\* Type invariant.
TypeOK ==
  /\ task_topic \subseteq Tasks /\ transform_topic \subseteq Tasks
  /\ capability_topic \subseteq Vehicles
  /\ bid_topic \subseteq Bid
  /\ assignment_topic \subseteq Assignment
  /\ expired \subseteq bid_topic
  /\ runs \in [Tasks -> Nat]
  /\ off_target \subseteq Tasks
  /\ vehicle \in [Vehicles -> VehicleState]
  /\ coordinator \in CoordinatorState

\* However late the samples are, no task is executed twice, by one vehicle or
\* by two.
ExecutedOnce == \A t \in Tasks : runs[t] <= 1

\* README.md:26: a task is not even assigned before its predecessor was executed.
PredecessorFirst ==
  \A a \in assignment_topic :
    Predecessor[a.task] # None => runs[Predecessor[a.task]] > 0

\* The vehicle that is assigned a task has already taken it from its own topic:
\* process_assignments never drops an assignment for a task it does not find.
AssignmentKnown ==
  \A a \in assignment_topic : a.task \in vehicle[a.agent].tasks

\* The coordinator never compares payloads; still no vehicle is assigned more
\* than it can carry, or a task it has no capability for.
AssignmentFits ==
  \A a \in assignment_topic :
    Needs[a.task] = Capability[a.agent] /\ Payload[a.task] <= MaxPayload[a.agent]

\* Seen from outside, the scheduler only assigns and executes.
Owner(t) ==
  IF \E a \in assignment_topic : a.task = t
  THEN (CHOOSE a \in assignment_topic : a.task = t).agent ELSE None

Able == {p \in Tasks \X Vehicles :
           Needs[p[1]] = Capability[p[2]] /\ Payload[p[1]] <= MaxPayload[p[2]]}

Executed == {p \in Tasks \X Vehicles : p[1] \in vehicle[p[2]].executed_tasks}

Abstract == INSTANCE Dispatch WITH
  owner <- [t \in Tasks |-> Owner(t)], executed <- Executed

\* The agents implement Dispatch: an owner is never replaced, is able to do the
\* task, and nobody executes a task that is not its own.
Implements == Abstract!Spec

=============================================================================
