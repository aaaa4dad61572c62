# Verification of the UAV/UGV scheduler

TLA+ models of the scheduler in `src/`, TLC runs that check them on small instances, and TLAPS
proofs for every value of the constants. Paths below are relative to `src/`; `uav/` stands for
`devices/uav/group4/`.

    tlc -workers 2 -config Mission.cfg MCMissionFsm           # one run
    tlapm MissionFsmProofs.tla                                # the proofs of one module

`PROJECT.json` names for every definition the lines it translates, for every run its
configuration, and for every checked property a change of the code that would break it. Such a
change is an operator of the module marked "a mistake".

## 1. The system

The repository holds two independent schedulers and the programs of the devices.

**Master agent** (`master_agent/`, asyncio). An operator's sentence becomes a mission; a UAV
inspects the place; the operator judges its photograph; a UGV clears the garbage.

| part | state | operations | talks to |
| --- | --- | --- | --- |
| `mission_fsm.py`, `scheduler.py` | missions: phase, current tasks and agents, failed agents, retries, verdict | create, inspection result, feedback (accept, image, completion, failure) | registry (nearest free device), bus |
| `server.py`, `registry.py`, `bus.py` | connections, last state of each agent, subscribers | one websocket handler per connection, offline judgement every second, publish | devices, state machine, dashboard |
| `device_agent.py` | connection, work state, current task, progress | three coroutines per connection: heartbeat, receive, execute | gateway |
| `parser.py`, `models.py` | none | text or model answer to command | state machine |
| `main.py --demo` | assignment and progress of each scripted device | heartbeats, tasks, automatic verdict, all in the master's own event loop | registry, bus, dashboards |

**ZRDDS scheduler** (`src/main.cpp`, `src/task_plan.cpp`, `llm_planner.py`). A task plan is
written by a language model, checked twice, published over DDS topics, bid for by vehicles and
assigned by one coordinator. One thread runs all agents in a fixed script with settling times;
the samples arrive when they arrive.

**UAV group 4** (`devices/uav/group4/`).

| part | state | operations | talks to |
| --- | --- | --- | --- |
| `agent/safety_supervisor.py` | last position, recovery clock, latched emergency | evaluate a sample, reset after landing | nobody: no agent in the repository calls it yet |
| `behaviors/inspect_target.py` over an adapter | work state, airborne, home | the inspection with its except and finally clauses | adapter, camera, detector, uploader, feedback callback |
| `behaviors/hover_test.py` over `fancinnov_real_adapter.py` | work state, airborne | the hover test: arm, take off, climb, land | ROS 2 commands, two telemetry readers and `real_state_aggregator.py` |
| `agent/drone_agent_service.py`, `task_store.py`, `real_state_monitor.py` | records on disk, work state, monitor thread | handle a line of standard input, poll and publish states | standard input and output, executor |
| `work_bridge_patch/` | send and receive buffers, connection, watchdog | commands to MAVLink, telemetry to topics, emergency landing | flight controller |
| `readonly_adapter/` | last messages and their ages | reconnect, snapshot | flight controller |

**Car 1** (`devices/car1/approach_grasp_c1.py`). Drive to a yellow block by camera, then a main
loop keeps the arm on the block and starts a thread that grasps it.

The dashboard, the map assets, the IDL, tests and build files complete the repository. Every part,
modelled or not, is listed under "components" in `PROJECT.json`, with the reason for what is left
out.

### Where it is hard

- Feedback of devices is late, and speaks of tasks that were replaced meanwhile; devices refuse,
  fail on the way home and disappear (state machine).
- Handlers of the old and the new connection of one device run side by side; the work of a device
  outlives the connection its coroutines end with (gateway, device).
- Samples of reliable topics come late, those of a best-effort topic may never come, and bids
  lapse (ZRDDS scheduler).
- Any call of a behaviour may raise, before or after its effect, in the clauses that were to
  recover from an exception too (inspection, hover test).
- Height and armed state are separate messages of different age, from two sources (hover test).
- A process may die or be interrupted between any two writes, and its successor reads what it
  stored (terminal service). A second thread writes on the same output.
- Two flags, a deadline and a thread decide who may move the arm (car).
- A broken connection shows in nothing the bridge looks at; the process has to die of it, with
  commands in three places (bridge). Refusal, reset, end and silence of a connection are different
  exceptions, and what was heard before them must not be shown after them (read-only adapter).
- `bus.publish` waits for its handlers, `broadcast` for its dashboards: whoever publishes may be
  suspended for as long as a dashboard does not read (demo).

`PROJECT.json` lists these as hazards, at their lines, with the properties that would show them
going wrong or the reason why none does.

### What makes each part correct

The properties are stated in the modules, each with a comment that names the code it is about. In
one line for each part: a mission trusts no stale message and comes to rest; a supervisor never
orders a coordinate-based move without a settled position and never ignores a fault in flight; a
task is executed once, by an able vehicle, after its predecessor; a vehicle in the air is never
shown as free and lands at home or is handed over (but for a take-off that lifts it and raises); a test succeeds only with stopped motors; a task
on the terminal is neither executed nor answered twice; the end of an accepted task reaches the
master; a car that met the block on its way and lost it stands, and one grabbing thread moves the arm; a command that goes through
the bridge is neither repeated, reordered nor invented, and a bridge that has something to write comes back; no snapshot
outlives its connection; a mission of the demo ends whatever the dashboards do.

## 2. Modules

| module | models | state and actions |
| --- | --- | --- |
| `MissionFsm` | `mission_fsm.py`, `scheduler.py` | variables are the fields of `Mission`, plus `stage` (what became of each task at its device), `wire` (feedback in flight), `dispatched`. `CreateMission`, `OnInspectionResult`, `OnFeedback` are the handlers; `RegistryChange`, the losses and `DeviceStep` the environment |
| `MissionContract` | nothing: what the operator is promised | asked only with a photograph, a vehicle only after a yes, completion only by a no or a delivery, bounded failures |
| `SafetySupervisor` | `safety_supervisor.py` | `Evaluate` is one call with any sample, `ResetAfterSafeLanding` the reset; `clean_for` is history |
| `DdsScheduler` | the agents of `main.cpp` | a topic is the set of its samples, each reader takes some it has not taken; one action per operation of an agent, callable in any order |
| `Dispatch` | nothing: the abstract scheduler | one owner per task, able, in turn, and nobody else executes |
| `DdsDemo` | `main` of `main.cpp` | the script of calls over `DdsScheduler`, the dashboard's count and the exit code |
| `TaskPlan` | both plan validators | operators `Loads` (C++) and `Validates` (Python) over all documents of up to two tasks |
| `PlannedDemo` | from the model's answer to the end of `main` | composes `TaskPlan` and `DdsDemo`: temporary file, replacement, load |
| `InspectTarget` | `inspect_target.py` | the script of calls with phases for except and finally; an adapter is drawn from `Adapters`, the sets of calls that may raise, and `Late` are those that may raise after their effect (in the run every movement, take-off included). `unnoticed` is history: a take-off that raised has lifted the vehicle, of which `execute` does not know |
| `HoverTest` | `hover_test.py`, real adapter, readers, aggregator | one action per step of `execute`; flight controller, messages in flight, readers with backlog and ages |
| `TerminalService` | `drone_agent_service.py`, store, monitor, tool | phases of the main thread, the monitor thread, standard input and pipe, kill and restart |
| `TaskDesk` | nothing: what the submitter of tasks is promised | a task is taken once, executed at most once and before its only answer, filed as answered |
| `DeviceLink` | `device_agent.py`, `server.py`, `registry.py` | one device, overlapping connections, its three coroutines and one handler per connection |
| `DemoMaster` | `main.py --demo`, `parser.py`, chat, verdict and event routes of `server.py` | a step runs to the next await that can suspend; `sending` is a broadcast under way, with those it was begun for and those already told |
| `FcuBridge` | `fcu_bridge_001.cpp`, `fcu_bridge.h`, `safe_launch.sh` | one process (`at`) with subscription, send buffer, socket and the memory of the last heartbeat; the wire and the vehicle's armed state beside it |
| `CommandChannel` | nothing: what the bridge is for the topic's clients | a bounded queue and a line that lose messages, and end and start again together |
| `ReadonlyAdapter` | `uav_readonly_adapter.py` | the loops of `run` and `_run_connection`, the projector as ages, the last snapshot; `air` and `reachable` are the controller |
| `ApproachGrasp` | `approach_grasp_c1.py` | one action per frame, per iteration of the main loop and per step of a grasping thread; `met` is history: the distances below 0.6 m that were steered by |

`MC*` modules hold constants of instances and symmetry sets, `*Proofs` modules the theorems.
`PlannedDemo` EXTENDS `DdsDemo`, which EXTENDS `DdsScheduler`; `DdsScheduler` implements `Dispatch`
under the mapping that reads a task's owner off the assignment topic and its execution off `runs`.
`MissionFsm` implements `MissionContract` with a status read off the phase, and photographs and
deliveries read off the stages of the tasks at their devices. `FcuBridge` implements
`CommandChannel` with the subscription as the queue and the written and the buffered commands as
the line. `TerminalService` implements `TaskDesk` with the tasks that have a record as those that
were taken and the records of results as the file; crashes, restarts and faults of disk and pipe are
stutters.

### Abstractions worth knowing

- `MissionFsm`: a handler runs to its last assignment before it awaits anything that suspends, so
  it is one step. Messages of both directions are lost with a connection, and feedback reaches the
  state machine in any order, because the handlers of an old and a new connection overlap
  (`DeviceLink`). Distances move with every heartbeat, so the nearest candidate is any candidate.
- `SafetySupervisor`: ages and charge are the side of their thresholds they are on; time in whole
  units up to the recovery time.
- `DdsScheduler`: poses and batteries only enter the cost of a bid, which is any of `Costs`. The
  states and events other than completion have no reader that acts on them.
- `TaskPlan`: what both validators check of one property alone (types, ranges, lengths,
  identifiers; the limits were compared and agree) is one flag; the rules across properties and
  across tasks are written out. `PlannedDemo` forgets both files once the plan is loaded.
- `InspectTarget`: positions are "home" and "away"; geometry only decides whether a task is
  rejected, and that is arbitrary. Which calls raise is arbitrary.
- `HoverTest`: the ROS 2 reader runs one callback per read and keeps `Backlog` messages per topic,
  dropping the oldest; the MAVLink reader takes all that wait. Reading happens in the loops of
  `execute`. The runner's `--control-path-ready` makes `control_ready` true whatever the
  aggregator says (`uav/agent/real_agent_runner.py:50`), so it does not appear.
- `TerminalService`: the records in memory equal the file. The branch that answers BUSY
  (`uav/agent/drone_agent_service.py:186`) cannot be reached by one thread: theorem `ServiceTypes`.
  The one that answers EXECUTOR_UNAVAILABLE (`:227-235`) is left out because `run_terminal_agent.py:130`
  gives every dry-run service an executor.
- `DeviceLink`: what a device has written arrives; losses are `MissionFsm`'s. Hellos are handled in
  the order they were sent. The answer NO_CAPABILITY of `device_agent.py:165-167` would run into
  the assertion of `_feedback`; this master never sends such an assignment.
- `ApproachGrasp`: inside `drive_phase` `last_track` and `target_mem` hold the same target, so
  `memory` is both. The long deadlines may pass at any step. Shutdown of ROS is left out.

- `FcuBridge`: what is sent that is not a command is one kind of chatter, which matters because
  writing to a broken connection is what kills the process. While `connect` blocks or the 200 ms
  between the copies of a landing pass the process takes no step, and commands queue up. There is
  one process at a time.
- `ReadonlyAdapter`: a unit of time is the longest wait for a message (0.25 s); ages stop at
  `Horizon`, beyond every limit they are compared with. Of a value only its presence is kept.
- `DemoMaster`: the registry, the scheduler and the state machine are reduced to what the demo's
  devices reach: they accept at once, never fail and are where they are. The language model is any
  answer it may give. The chat handler is followed through its two broadcasts; those of the tasks
  and of the verdict do to the dashboards what those of the heartbeat do and are left out, except
  that they suspend the task before the automatic verdict.

## 3. Runs

Twelve runs, all expected to pass; sizes are distinct states as TLC reports them.

| run | configuration | question | bounds and why they are enough |
| --- | --- | --- | --- |
| mission | `Mission.cfg` | does the state machine ever trust stale feedback, does it keep its contract, what may stall it? | one mission (missions share only the registry, which changes freely), two UAVs and two UGVs so that there is a device to switch to and one left, one retry; losses, refusals and any order of feedback; 228,932. `MissionLarge.cfg` has three retries, as the code, without liveness |
| supervisor | `Supervisor.cfg` | any sequence of samples | two positions (only their distance matters), two units of recovery; 6,821 |
| scheduler | `Scheduler.cfg` | any order of the agents' operations, any lateness; `Dispatch` implemented | two dependent tasks, one vehicle able to do both and one that carries only the second; one cost, because any candidate may come first by the lateness of bids; 105,465 |
| demo_late | `DemoLate.cfg` | from the plan to the exit code | all documents of up to two tasks (the plan has two), late samples, lapsing bids; 664,411 |
| inspect | `Inspect.cfg` | whatever calls raise, where does the vehicle end and what is told of it? | four adapters: no failures, failing actions, failing feedback as well, and telemetry too; every call that moves the vehicle may also raise after its effect; three tasks, because each meets what the one before left; 11,608 |
| hover_ros | `HoverRos.cfg` | every choice of telemetry sources | two waiting messages per topic: one from before and one from after a change; 834,796 |
| terminal | `Terminal.cfg` | crashes, interrupts, full disk, broken pipe; `TaskDesk` implemented | two tasks, three lines (one repeated), two processes: before and after a crash; 340,105 |
| link | `Link.cfg` | overlapping connections, attempts to connect that fail | one task of each kind, two connections: the broken one and its successor; 277,116 |
| approach | `Approach.cfg` | frames, deadlines, threads | a memory of two ticks, two threads; 35,896 |
| bridge | `Bridge.cfg` | commands through deaths, stalls and cuts | a landing and another command, a subscription of two so that it overflows, two published commands and the notices of arming, one heartbeat on its way; crashes, cuts and stalls are not bounded; 69,034 |
| adapter | `Adapter.cfg` | refusal, reset, end, silence and noise of a connection | one sensor (they do not interact), limits of a few units that keep the order of the code's: publish and stale before silence, a delay that reaches its maximum; 160,014 |
| demo_master | `DemoMaster.cfg` | requests, dashboards and scripted devices in one event loop: does any mission wait for nobody, come back to life or never end? | two requests, one device of each kind, so that the second request may displace the first; one dashboard, whose WebSocket has one life: it joins, may stall, and goes; texts that parse and texts that do not; 98,796. `DemoMasterLarge.cfg` has two dashboards and one request: only there is a dashboard removed because of an error that the broadcast meets at another |

Deadlock is checked for the supervisor and the demo, which never stop. The other programs end or come
to rest: their configurations say `CHECK_DEADLOCK FALSE`, and where coming to rest is the point a
liveness property says so (`Ends`, `Stops`, `EveryTaskAnswered`, `AcceptedIsReported`, `Settles`).

### Fairness

- `MissionFsm`: the event loop handles what it received and a device ends the task it has. Messages
  may be lost and devices may refuse; the operator owes nothing. `Settles` says what is left to wait
  for: a verdict, or a device that refused or whose last word was lost, for the code has no timeout.
- `HoverTest`: each loop of `execute` has a deadline and each call returns or raises, so some step
  of it is taken. Telemetry and flight controller owe nothing.
- `TerminalService`: the main thread goes on (`Main`), a publication that was begun ends
  (`PublishState`); input, crashes and the state provider owe nothing, so a provider may hang.
- `DeviceLink`: the coroutines of a connection and the handlers at the gateway go on; nothing makes
  connections break, and the last of the bounded connections stays.
- `FcuBridge`: the script looks every three seconds, the loop of the process turns, and TCP delivers
  or gives up. Nothing makes a process crash, a connection break, the controller accept one, or
  anybody give the bridge something to send. `ComesBack` has as its conditions what it needs of
  these: a controller that accepts, an end of the crashes, and something to write again and again
  while the bridge lives. The last cannot be had from the pose feed that `safe_launch.sh` starts:
  it repeats positions that reach it through the bridge's own connection
  (`CRUISE_TEST_GUIDE.md:5` under `uav/work_bridge_patch/`).
- `ReadonlyAdapter`: an attempt to connect, a sleep and a wait for a message end, and time goes on
  however fast messages come. `Reconnects` assumes that the controller is reachable and sends.
- `DemoMaster`: the loops of the demo go on and each device's turn comes every three seconds; a send
  to a dashboard ends, because uvicorn closes a WebSocket that answers no ping; a closed connection
  is noticed; somebody judges the pictures, as the automatic verdict does. Requests and dashboards
  owe nothing.
- `InspectTarget`: `execute` goes on; its properties do not depend on it.
- `ApproachGrasp`, used beside the runs only: deadlines pass, threads go on, and the arm is in
  position again and again, so that the thread is started.

## 4. Proofs

All by `tlapm` (Z3, Zenon, LS4), from the named assumptions on the constants only. Each inductive
invariant was first checked by TLC as an invariant of the run.

| module | theorems | argument |
| --- | --- | --- |
| `MissionFsmProofs` | `TypeCorrect`, `Invariance`, `AssigneeCorrect`, `DispatchBounded`, `ConfirmShowsImage`, `PickupNeedsImage`, `CompletionCorrect`, `Refinement` | the properties speak of what a mission believes, so the invariant ties belief to fact: identifiers are fresh (`Numbered`), every message in flight was true and stays true (`WireSound`), a pickup follows a photograph (`PickupsSeen`), and each mission's fields agree with the stages of its tasks and with its retry budget (`MissionInv`). `Refinement`: each handler is a step of `MissionContract` or a stutter |
| `VehicleProofs`, `SafetySupervisor` | `SupervisorTypeCorrect`, `MovesNeedPosition`, `AdmissionIsSafe`, `FaultsAreAnswered`, `GroundStaysGround` | the recovery clock never runs ahead of the time the stream was really clean (`Honest`) |
| `VehicleProofs`, `HoverTest` | `HoverTypeCorrect`, `TakeoffIsConfirmed`, `SuccessIsLanded` | for any length of the backlog. "Armed" is only ever said after the one ARM command was spent, on the topic, in the queue and by the controller alike, so a "no" read after a "yes" is news from after the flight (`ArmedOnce`); after take-off a "no" is final (`NoIsFinal`); the ROS 2 reader is the only source (`RosAlone`) |
| `VehicleProofs`, `ApproachGrasp` | `ApproachTypeCorrect`, `StopsWhenLost`, `GrabsAlone`, `FinishesHolding` | a thread with work left holds `moving`; `done` is only set after the gripper closed; `seen_in_range` stands for a block steered by between `APPROACH_STOP` and 0.6 m, and a car that lost such a block was stopped for it |
| `DdsProofs` | `TypeCorrect`, `ExecutesOnce`, `PredecessorsFirst`, `AssignmentsKnown`, `AssignmentsFit`, `Refinement`, `ExitIsHonest`, `PlannerFilesLoad`, `PlanAlwaysFits` | what each agent holds was published, an assigned task has one assignment, and an execution was paid for with it. `Refinement`: Init maps to `Dispatch!Init`, each action to a step or a stutter. The dashboard counts only published completions; the Python validator accepts only what the C++ one accepts (lemma `Agreement`). `PlanAlwaysFits` has one hypothesis, `SurveyThenDelivery`: the scheduler's tasks are a survey and a delivery after it, of at least the greatest payload a plan may ask for. These are the two tasks of `main.cpp`, and the constants of `DemoLate.cfg` |
| `InspectTargetProofs` | `IdleIsOnGround`, `RecoversOrHandsOver`, `LandsWhereItTookOff`, `CompletesTruly`, `AnswersOnce` | whether the vehicle flies follows from the local variable `airborne`, and that from the place in the script (`Consistent`, as long as the state can be read). `Homing` and `Answering` are what remains when it cannot, and what the last three rest on. Flight and `airborne` disagree only after a take-off that raised and yet lifted the vehicle (`unnoticed`): `airborne` is then false, the vehicle above its take-off point, and the first two theorems except just that. Nothing is assumed of the adapter but, in these two, that its state can be read; section 6 has both gaps |
| `TerminalServiceProofs` | `ServiceTypes`, `NeverExecutedAgain`, `OneAnswer`, `StoredWasPublished`, `ServiceIsDesk`, `NothingAfterStopped` | how far the handling of a task has come can be read off its record and the phase of the main thread (`Handled`), and the death of a process changes neither. `ServiceIsDesk`: each action is a step of `TaskDesk` or a stutter |
| `FcuBridgeProofs` | `TypeCorrect`, `NothingPassedOver`, `BridgeRelays` | what was taken up is what was heard, then what is written, then what is buffered, as long as nothing was cut; `BridgeRelays`: each action is a step of `CommandChannel` or a stutter, the mapped line growing at its end and shrinking at its beginning |
| `LinkProofs`, `DeviceLink` | `LinkTypeCorrect`, `LinkIsPresent`, `FeedbackIsOfAssigned` | that the late end of an old handler takes nobody's link needs that the gateway met the connections in their order (`Greeted`): the link it has is the newest it met |
| `LinkProofs`, `ReadonlyAdapter` | `ShowsCurrentLink` | the property is not inductive: that the snapshot is renewed in time follows from the time left until the next one, and that an old connection is never the reason from what `mark_disconnected` does before anything else (`Current`) |
| `DemoMasterProofs` | `TypeCorrect`, `BusyIsNotFree`, `WorkIsWanted`, `WaitingIsServed`, `VerdictUnderWay`, `EndedIsFinal`, `ListenersKept` | device and mission name each other, and `Consistent` says that the two never disagree: a request is unknown until its mission exists, no two devices work for one mission, a pickup has no picture, and the automatic verdict is on its way for every picture that waits. `EndedIsFinal` is an action property |

The type invariants, and the invariants that a contract a run checks implies (of `MissionFsm`,
`DdsScheduler` and, `ExecutedOnce`, `AnsweredAtMostOnce` and `RecordIsAnswer`, of `TerminalService`),
are proved and no longer checked by a run; `MissionLarge.cfg` and `DemoMasterLarge.cfg` check theirs
on other instances. `VehicleProofs` and `LinkProofs` hold the proofs of several modules that share
no variable, because their programs belong together.

Every invariant, action property and refinement that a run checks is stated by a theorem. Only
model-checked is liveness: `Settles`, `EveryTaskAnswered`, `Stops`, `AcceptedIsReported`, `LandHeard`,
`ComesBack`, `Reconnects`, both `Ends`, `MissionsEnd` and `GoneAreForgotten`, because liveness under
fairness and ENABLED are out of the prover's reach. So is induction over data; RECURSIVE operators
are not used. The safety half of some of them is proved: a mission that has not ended has a device at
work (`WaitingIsServed`) or waits for a verdict, which with `auto_confirm` is under way
(`VerdictUnderWay`); `MissionsEnd` adds that device and verdict take their steps.

## 5. What is not modelled

The list with reasons is in `PROJECT.json`. What is left out of the parts that hold control:

- `emergency_land.py`. Its programs lose their quotes inside the nested shell commands (lines 46, 60
  and 146: bare names where strings are meant), so today it is one failing command after another;
  `watch_z` then formats a missing height. There is no behaviour to check until they run.
- A second bridge beside the first: when `docker exec` fails for a moment the script counts no process
  (`safe_launch.sh:22`) and starts another. `FcuBridge` has one process at a time.
- What the bridge publishes of the vehicle's telemetry, but for the armed notice; the followed paths.
- A `publish` of the read-only adapter that raises `OSError` itself (a full disk, a closed pipe). In the
  loop it would count as a broken connection; inside the except clause (`uav_readonly_adapter.py:345`)
  it would end the adapter.
- The commands that car 1's `main` sends to the arm while a thread is still grabbing, after the 45 s:
  `Check` makes them, `OneGrabber` speaks of the threads only.
- Missions by `goto_pose`, the recording backend and the simulated dry run of the real adapter.
- The JSON parser and the checks of single properties of a plan; `write_snapshot`.
- `models.py` and the uav contracts (conversions without state), the dashboard (a display), cameras
  and detectors (external programs), image processing and kinematics of the car, the simulator's
  maps, probes and manual tools.
- Clocks that disagree: `registry.py:44` compares a device's clock with the master's.

## 6. Where code and documents disagree

None of the twelve runs is expected to fail. What the code does not keep is reproduced by one
configuration per module, `tlc -config X.cfg M`. Each lists everything that is violated; TLC stops at
the first, which is then taken out of the file to see the next.

| configuration, module | property | what TLC finds | what the repository says |
| --- | --- | --- | --- |
| `MissionDivergences`, MCMissionFsm | `TerminalIsFinal` | a FAILED sent on the way home revives a COMPLETED mission (`mission_fsm.py:184`) | `mission_fsm.py:123` announces it as ended |
| | `FailsOnlyWithoutDevice` | a failure of a task that is not current fails the mission with devices left (`:205`) | `master_agent/README.md:63`: FAILED only without a device |
| | `PickupConfirmed` | after the operator's no a late failure of an earlier pickup sends another UGV (`:202`) | `:31`: a UGV is sent for confirmed garbage |
| | `ShownIsCurrent` | the picture of a replaced inspection is shown for the new one | `mission_fsm.py:30`: waits for the verdict on the picture |
| `SupervisorDivergences`, MCSafetySupervisor | `LossNeverReturns` | a latched RETURN_HOME answers a lost position (`safety_supervisor.py:107`) | `:188`: position loss forbids the return |
| | `CommandChannelFirst` | it also answers a lost flight controller (`:171`) | `:162`: highest priority |
| | `EmergencyNotReplaced` | a latched emergency is followed by NONE (`:191`) | `:71` and a test: latched and not replaced |
| `DdsDivergences`, MCDdsDemo | `OnTarget` | without the coordinate transform a task is executed at the origin (`main.cpp:579`) | `main.cpp:618`: "on_target_executing" |
| `InspectDivergences`, MCInspectTarget | `TakeoffRecovered` | a take-off that lifts the vehicle and then raises leaves `airborne` false (`inspect_target.py:371-372`): the vehicle stays in the air, IDLE, and nobody is asked to take over. `fancinnov_real_adapter.py:73-77` publishes a command before a spin that may raise | `:523`: takeover when recovery fails |
| | `AlwaysRecovered` | `read_state` raising in the finally clause skips return and takeover (`inspect_target.py:513`) | `:523`: takeover when recovery fails |
| `HoverDivergences`, HoverTest | `TakeoffConfirmedAlways` | take-off without a confirmed arming when MAVLink falls silent (`fancinnov_real_adapter.py:170`) | `:174`: not published |
| | `LandedTrulyAlways` | success with armed motors on an armed state from before the flight (`mavlink_state_reader.py:68`) | `hover_test.py:69` |
| | `HandedOver` | the takeover request is overwritten with IDLE (`hover_test.py:78`) | `:77` |
| `TerminalDivergences`, MCTerminalService | `DuplicateWasHandled` | a task interrupted by a crash is a DUPLICATE without result (`drone_agent_service.py:172`) | `:180`: "already processed" |
| `LinkDivergences`, DeviceLink | `RejectedNotTaken` | BUSY is said of the task in execution (`device_agent.py:163`) | the same line |
| | `ComesBack` | a failed attempt to connect sets OFFLINE (`device_agent.py:146`) and nothing sets an idle device back: it reconnects and reports OFFLINE for ever | `registry.py:48`: reporting again means online |
| `ApproachDivergences`, ApproachGrasp | `MemoryExpires` | a remembered target is stored again as if it was seen, so it never grows old (`approach_grasp_c1.py:328`) | `:290` and `:301`: it bridges jitter of single frames; never go on straight after a loss |
| | `LostStopsInReach` | a block met only nearer than `APPROACH_STOP`, off the centre, does not set `seen_in_range`, because line 336 continues before line 347; when it is lost the car drives forward (`:310`) | `:301`: lost in the approach zone, never cruise on |
| | `GraspsCentred` | the drive reports success by distance alone (`:369`) | `:269`: returns True when in place and centred |
| | `HoldsStill` | `moving` is cleared before `done`, so the loop may move the arm that holds the block (`:475`) | `:474` says the grasp is done and the object held |
| | `Finishes` | after the timeout, or an exception that leaves `moving` set, main waits for `done` for ever (`:566`) | `:482`: grasp timeout, abort |
| `BridgeDivergences`, FcuBridge | `LandSentApart` | the three copies of LAND fill the send buffer, which is written once, after the callback: they leave together (`fcu_bridge_001.cpp:187`) | `:186`: sent three times against loss |
| | `ComesBackAlone` | a broken connection shows only in what `recv` and `send` return; nobody need give the bridge anything to write, and without that nothing kills the process (`:398`) | `safe_launch.sh:18`: a dead bridge is started again |
| `AdapterDivergences`, ReadonlyAdapter | `AgeHasValue` | an unusable message sets the age of a value that never came (`uav_readonly_adapter.py:146`) | the age is what tells a reader that there is a value |
| | `ModeHeardHere` | after a reconnection any message makes the vehicle online with the mode of before (`:138`) | the mode has no age to tell |
| | `NoiseGivesUp` | BAD_DATA refreshes the local `last_rx` (`:324`): a connection with nothing but noise is kept, shown offline | `:327`: silence ends a connection |
| | `StopsOffline` | a signal ends the loop without a snapshot (`:310`): the last one may say online for ever | |
| `DemoMasterDivergences`, DemoMaster | `NoDisplacement` | a second mission gets a device that has not sent its heartbeat since it was assigned, and replaces its task (`main.py:119`) | `scheduler.py:33`: the device must be idle |
| | `FailedMeansNothing` | very long numbers become infinite coordinates (`parser.py:240`): the mission exists and is worked on, the reply cannot be written | the reply is an error |
| | `FailedOnlyByTarget` | a dashboard that comes or goes while `mission_created` is sent changes the set under iteration (`server.py:94`): the chat fails, its mission exists | as above |
| | `FailsOnlyWhenBusy` | a slow dashboard holds up the heartbeats of all devices (`server.py:96`), the registry counts them as offline and a mission fails | |

`TakeoffConfirmed` and `LandedTruly` are stated for the ROS 2 reader alone and checked in a run in
which the other sources are in use as well; their unrestricted forms end in `Always`.

Read, without a property: `parser.py:35` promises the forms "坐标 3.2 5.1" and "x=3.2 y=5.1", which the
expression does not match; a dashboard never sends, so `ws_events` cuts it off every 60 s
(`server.py:190`) and it comes back after 5 s; `chat` says that devices are being sent
(`server.py:120`) also of a mission that has already failed; in the demo a dashboard hears of the
ACCEPTED of a task before its `mission_created`.

## 7. Plan

Done, in this order: state machine with its contract and proofs; supervisor; DDS scheduler with its
abstract specification and refinement, demo and plans; inspection and hover test; terminal service;
device and gateway; car; bridge with the channel it implements; read-only adapter; the master's demo
with parser and dashboards. Then proofs of every safety property the runs check, and the desk the
terminal service implements.

What would come next:

1. Abstract specifications of `DeviceLink` (one registered link per device, with the end of each task
   reported once) and of `InspectTarget` (a flight that ends at home or with a human), and their
   refinements.
2. `FcuBridge` with a second process, once the script's look at the process list is changed or its
   failure is to be tolerated; `EmergencyLand` over `FcuBridge` once its programs run.
3. Reference checks of `select_nearest` and `choose_candidate` as operators.
