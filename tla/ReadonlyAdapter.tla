--------------------------- MODULE ReadonlyAdapter ---------------------------
(***************************************************************************)
(* The read-only adapter (uav_readonly_adapter.py): it keeps a MAVLink     *)
(* connection to the flight controller, projects what it hears into one    *)
(* state, and publishes snapshots of the state with the ages of its parts. *)
(*                                                                         *)
(* Time is counted in units of the longest wait for a message; ages stop   *)
(* at Horizon, beyond which no comparison of the code tells them apart.    *)
(* Of a value only whether there is one is kept.                           *)
(***************************************************************************)
EXTENDS Integers

CONSTANTS
  Sensors,       \* parts of the state with an age of their own: position, battery
  StaleAfter,    \* stale_after_s
  Silence,       \* reconnect_on_silence_s
  PublishEvery,  \* publish_interval_s
  DelayInitial, DelayMax,  \* reconnect_initial_s, reconnect_max_s
  Horizon        \* bound of the ages

ASSUME TimesAssumption ==
  /\ {StaleAfter, Silence, PublishEvery, DelayInitial, DelayMax, Horizon} \subseteq Nat \ {0}
  /\ DelayInitial <= DelayMax
  /\ Silence < Horizon /\ StaleAfter + PublishEvery <= Horizon

\* Python's None.
Null == -1

Ages == {Null} \cup 0 .. Horizon

VARIABLES
  phase,      \* where run is: connect, loop, receive, sleep or stopped
  running,    \* no signal has come
  reconnect_delay,
  last_rx_monotonic,  \* the projector's, as an age
  last_seen,  \* last_position_monotonic and last_battery_monotonic, as ages
  known,      \* the sensors of which the state has a value
  last_rx,    \* the local variable of _run_connection, as an age
  next_publish,  \* time until the next snapshot is due
  out,        \* the last snapshot published, [online |-> FALSE] before the first
  broken,     \* how the connection has failed: no, reset or eof
  reachable,  \* the flight controller accepts connections
  air,        \* what it sends: messages, noise or nothing
  heard_ago,  \* history: age of the last message of this connection
  mode_heard  \* history: this connection has brought a heartbeat

projector == <<last_rx_monotonic, last_seen, known>>
loop      == <<last_rx, next_publish>>
world     == <<reachable, air>>
history   == <<heard_ago, mode_heard>>
rvars     == <<phase, running, reconnect_delay, projector, loop, out, broken, world, history>>

-----------------------------------------------------------------------------
(* StateProjector                                                          *)

Least(a, b) == IF a <= b THEN a ELSE b

Later(age, d) == IF age = Null THEN Null ELSE Least(age + d, Horizon)

\* Messages that tell of no sensor, of a sensor with a usable value or not, and
\* noise: BAD_DATA and unknown types.
Messages == [type : {"HEARTBEAT", "OTHER", "BAD_DATA"}]
              \cup [type : {"SENSOR"}, sensor : Sensors, usable : BOOLEAN]

Processed(m) == m.type # "BAD_DATA"

\* process: time d has passed when m arrives.
LinkAge(m, d) == IF Processed(m) THEN 0 ELSE Later(last_rx_monotonic, d)

Process(m, d) ==
  /\ last_seen' = [s \in Sensors |->
       IF m.type = "SENSOR" /\ m.sensor = s THEN 0 ELSE Later(last_seen[s], d)]
  /\ known' = IF m.type = "SENSOR" /\ m.usable THEN known \cup {m.sensor} ELSE known
  /\ heard_ago' = IF Processed(m) THEN 0 ELSE Later(heard_ago, d)
  /\ mode_heard' = (mode_heard \/ m.type = "HEARTBEAT")

\* Time passes without a message.
Elapse(d) ==
  /\ last_seen' = [s \in Sensors |-> Later(last_seen[s], d)]
  /\ heard_ago' = Later(heard_ago, d)
  /\ UNCHANGED <<known, mode_heard>>

\* snapshot, when the last message is link_age old.
Snapshot(link_age, seen) ==
  [online |-> link_age # Null /\ link_age <= StaleAfter, seen |-> seen]

MarkDisconnectedNot(age) == age  \* a mistake: ages are left to themselves

\* mark_disconnected
MarkDisconnected(age) == Null

-----------------------------------------------------------------------------
(* ReadOnlyMavlinkAdapter.run                                              *)

CaughtOSError == {"refused", "reset", "silence"}  \* a mistake: EOFError is not an OSError

\* The failures that run catches.
Caught == {"refused", "reset", "silence", "eof"}

\* The except clause, after the projector has come to the given ages.
Fail(failure, link_age, seen) ==
  IF failure \in Caught
  THEN /\ last_rx_monotonic' = MarkDisconnected(link_age)
       /\ out' = Snapshot(MarkDisconnected(link_age), seen)
       /\ phase' = IF running THEN "sleep" ELSE "stopped"
  ELSE /\ phase' = "stopped"
       /\ last_rx_monotonic' = link_age
       /\ UNCHANGED out

Connect(d) ==
  /\ phase = "connect"
  /\ last_seen' = [s \in Sensors |-> Later(last_seen[s], d)]
  /\ IF reachable
     THEN /\ phase' = "loop"
          /\ reconnect_delay' = DelayInitial
          /\ last_rx' = 0
          /\ next_publish' = 0
          /\ broken' = "no"
          /\ heard_ago' = Null /\ mode_heard' = FALSE
          /\ last_rx_monotonic' = Later(last_rx_monotonic, d)
          /\ UNCHANGED out
     ELSE /\ Fail("refused", Later(last_rx_monotonic, d), last_seen')
          /\ UNCHANGED <<reconnect_delay, loop, broken, history>>
  /\ UNCHANGED <<running, known, world>>

Sleep ==
  /\ phase = "sleep"
  /\ phase' = IF running THEN "connect" ELSE "stopped"
  /\ Elapse(reconnect_delay)
  /\ last_rx_monotonic' = Later(last_rx_monotonic, reconnect_delay)
  /\ reconnect_delay' = Least(2 * reconnect_delay, DelayMax)
  /\ UNCHANGED <<running, loop, out, broken, world>>

GoesOnAlways == TRUE  \* a mistake: a connection is served until it fails

\* The condition of _run_connection's loop.
GoesOn == running

\* The top of the loop: the heartbeat may find the connection broken.
Loop ==
  /\ phase = "loop"
  /\ \/ ~GoesOn /\ phase' = "stopped" /\ UNCHANGED <<last_rx_monotonic, out>>
     \/ GoesOn /\ phase' = "receive" /\ UNCHANGED <<last_rx_monotonic, out>>
     \/ GoesOn /\ broken # "no" /\ Fail(broken, last_rx_monotonic, last_seen)
  /\ UNCHANGED <<running, reconnect_delay, last_seen, known, loop, broken, world, history>>

\* The rest of a turn: no message for too long, or a snapshot if it is due.
Finish(d, link_age) ==
  IF last_rx' > Silence
  THEN Fail("silence", link_age, last_seen') /\ UNCHANGED next_publish
  ELSE /\ phase' = "loop"
       /\ last_rx_monotonic' = link_age
       /\ IF next_publish <= d
          THEN next_publish' = PublishEvery /\ out' = Snapshot(link_age, last_seen')
          ELSE next_publish' = next_publish - d /\ UNCHANGED out

Receive(m, d) ==
  /\ phase = "receive" /\ broken = "no"
  /\ air = (IF Processed(m) THEN "messages" ELSE "noise")
  /\ Process(m, d)
  /\ last_rx' = 0
  /\ Finish(d, LinkAge(m, d))
  /\ UNCHANGED <<running, reconnect_delay, broken, world>>

TimeOut(d) ==
  /\ phase = "receive" /\ broken = "no" /\ air = "nothing"
  /\ Elapse(d)
  /\ last_rx' = Later(last_rx, d)
  /\ Finish(d, Later(last_rx_monotonic, d))
  /\ UNCHANGED <<running, reconnect_delay, broken, world>>

\* recv_match raises.
ReceiveFails ==
  /\ phase = "receive" /\ broken # "no"
  /\ Fail(broken, last_rx_monotonic, last_seen)
  /\ UNCHANGED <<running, reconnect_delay, last_seen, known, loop, broken, world, history>>

\* SIGINT or SIGTERM.
Stop ==
  /\ running
  /\ running' = FALSE
  /\ UNCHANGED <<phase, reconnect_delay, projector, loop, out, broken, world, history>>

-----------------------------------------------------------------------------
(* The flight controller and the network                                   *)

Break(how) ==
  /\ phase \in {"loop", "receive"} /\ broken = "no"
  /\ broken' = how
  /\ UNCHANGED <<phase, running, reconnect_delay, projector, loop, out, world, history>>

Reach ==
  /\ phase # "stopped"
  /\ reachable' = ~reachable
  /\ UNCHANGED <<phase, running, reconnect_delay, projector, loop, out, broken, air, history>>

Sends(what) ==
  /\ phase # "stopped"
  /\ air' = what
  /\ UNCHANGED <<phase, running, reconnect_delay, projector, loop, out, broken, reachable, history>>

-----------------------------------------------------------------------------

Init ==
  /\ phase = "connect"
  /\ running = TRUE
  /\ reconnect_delay = DelayInitial
  /\ last_rx_monotonic = Null
  /\ last_seen = [s \in Sensors |-> Null]
  /\ known = {}
  /\ last_rx = 0
  /\ next_publish = 0
  /\ out = [online |-> FALSE, seen |-> last_seen]
  /\ broken = "no"
  /\ reachable \in BOOLEAN
  /\ air \in {"messages", "noise", "nothing"}
  /\ heard_ago = Null
  /\ mode_heard = FALSE

\* A refused connection is told at once or after a long time.
Durations == {0, Horizon}

Next ==
  \/ \E d \in Durations : Connect(d)
  \/ Sleep \/ Loop
  \/ \E m \in Messages, d \in 0 .. 1 : Receive(m, d)
  \/ TimeOut(1)
  \/ ReceiveFails
  \/ Stop
  \/ \E how \in {"reset", "eof"} : Break(how)
  \/ Reach
  \/ \E what \in {"messages", "noise", "nothing"} : Sends(what)

Spec == Init /\ [][Next]_rvars

\* An attempt to connect ends, a sleep ends, a wait for a message ends, and time
\* goes on however fast messages come.
Fairness ==
  /\ WF_rvars(\E d \in Durations : Connect(d))
  /\ WF_rvars(Sleep)
  /\ WF_rvars(Loop)
  /\ WF_rvars(TimeOut(1) \/ ReceiveFails \/ \E m \in Messages, d \in 0 .. 1 : Receive(m, d))
  /\ SF_rvars(\E m \in Messages : Receive(m, 1))

FairSpec == Spec /\ Fairness

-----------------------------------------------------------------------------
(* Properties                                                              *)

\* Type invariant.
TypeOK ==
  /\ phase \in {"connect", "loop", "receive", "sleep", "stopped"}
  /\ running \in BOOLEAN
  /\ reconnect_delay \in DelayInitial .. DelayMax
  /\ last_rx_monotonic \in Ages
  /\ last_seen \in [Sensors -> Ages]
  /\ known \subseteq Sensors
  /\ last_rx \in 0 .. Horizon
  /\ next_publish \in 0 .. PublishEvery
  /\ out \in [online : BOOLEAN, seen : [Sensors -> Ages]]
  /\ broken \in {"no", "reset", "eof"}
  /\ reachable \in BOOLEAN
  /\ air \in {"messages", "noise", "nothing"}
  /\ heard_ago \in Ages
  /\ mode_heard \in BOOLEAN

\* As long as the adapter runs, whoever reads its last snapshot is not told that
\* the vehicle is online on the strength of an earlier connection, nor of a
\* message older than the limit and the time between two snapshots: every
\* failure is published before the adapter sleeps or connects again.
OnlineIsCurrent ==
  phase # "stopped" /\ out.online =>
    /\ phase \in {"loop", "receive"}
    /\ heard_ago # Null /\ heard_ago < StaleAfter + PublishEvery

\* Once the flight controller can be reached and goes on sending, and no
\* connection breaks any more, the adapter shows it online for good.
Reconnects ==
  [](running) /\ <>[](reachable /\ air = "messages")
    /\ <>[][~(\E how \in {"reset", "eof"} : Break(how))]_rvars => <>[](out.online)

\* A signal ends the adapter, wherever it is.
Ends == ~running ~> phase = "stopped"

\* An age says how old a value is: there is none of a value that never came.
AgeHasValue == \A s \in Sensors : out.seen[s] # Null => s \in known

\* A connection on which nothing but noise arrives is given up.
NoiseGivesUp == phase = "loop" => last_rx_monotonic <= Silence

\* The mode shown of a vehicle that is online was heard on this connection.
ModeHeardHere == phase = "loop" /\ out.online => mode_heard

\* An adapter that has stopped does not leave the vehicle online.
StopsOffline == phase = "stopped" => ~out.online

=============================================================================
