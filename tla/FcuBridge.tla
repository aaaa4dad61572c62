----------------------------- MODULE FcuBridge -----------------------------
(***************************************************************************)
(* The bridge between the ROS 2 topic "command" and the flight controller  *)
(* (fcu_bridge_001.cpp, fcu_bridge.h), and the script that starts it again *)
(* when it has died (safe_launch.sh).                                      *)
(*                                                                         *)
(* A bridge is one thread: it creates its subscriptions, connects, and     *)
(* then turns in a loop that handles one waiting command, parses what has  *)
(* arrived and writes out what there is to send.  Only the messages that   *)
(* stand for commands are kept; every other message the bridge sends       *)
(* (heartbeats, poses, targets, the GNSS origin) is "chatter", which       *)
(* matters because writing to a broken connection kills the process.       *)
(*                                                                         *)
(* One process runs at a time; the script's look at the list of processes  *)
(* is taken to succeed.                                                    *)
(***************************************************************************)
EXTENDS Naturals, Sequences, SequencesExt

CONSTANTS
  Commands,      \* commands that clients publish
  Depth,         \* commands that may wait in the subscription, 100 in the code
  MaxPublished,  \* bound: commands that clients publish
  MaxBeats       \* bound: heartbeats on the way to a bridge

ASSUME DepthAssumption == Depth \in Nat \ {0}
ASSUME BoundsAssumption == MaxPublished \in Nat /\ MaxBeats \in Nat

\* 1101 tells the topic's readers that the vehicle has been armed.
Notice == "1101"

ASSUME CommandsAssumption == Notice \notin Commands

VARIABLES
  at,         \* where each process stands: down, setup, spin or serve
  socket,     \* the connection as the process has it: none, open, closed by
              \* the flight controller, or reset
  link,       \* the way to the controller: clear, stalled, torn after a stall
              \* in which a message was cut, or mended
  topic,      \* waiting in the process's subscription
  mav_buf_send_,  \* commands to be written
  chatter,    \* something else is to be written
  wire,       \* commands written and not yet heard
  inbox,      \* heartbeats on their way, by their base_mode: armed or safe
  armed_,     \* the process's memory of the last heartbeat
  armed,      \* the vehicle is armed
  reachable,  \* the flight controller accepts connections
  published,  \* commands published so far
  given,      \* history: number of messages put in the process's queue
  taken,      \* history: commands the process has put in its buffer
  heard       \* history: commands the controller has heard from the process

process  == <<at, socket, link, armed_>>
carried  == <<topic, mav_buf_send_, chatter, wire, inbox>>
world    == <<armed, reachable, published>>
history  == <<given, taken, heard>>
bvars    == <<process, carried, world, history>>

Topic == Commands \cup {Notice}

TypeOK ==
  /\ at \in {"down", "setup", "spin", "serve"}
  /\ socket \in {"none", "open", "closed", "reset"}
  /\ link \in {"clear", "stalled", "torn", "mended"}
  /\ topic \in Seq(Topic)
  /\ mav_buf_send_ \in Seq(Commands)
  /\ wire \in Seq(Commands)
  /\ inbox \in Seq({"armed", "safe"})
  /\ chatter \in BOOLEAN /\ armed_ \in BOOLEAN
  /\ armed \in BOOLEAN /\ reachable \in BOOLEAN
  /\ published \in Nat
  /\ given \in Nat
  /\ taken \in Seq(Commands)
  /\ heard \in Seq(Commands)

Alive == at # "down"

-----------------------------------------------------------------------------
(* The topic                                                               *)

EnqueuedFirst(q, c) == <<c>> \o q  \* a mistake: the newest message comes first

\* A subscription keeps the last Depth messages.
Enqueued(q, c) == IF Len(q) < Depth THEN Append(q, c) ELSE Append(Tail(q), c)

\* A message is lost when nobody has the subscription.
Deliver(c) ==
  /\ topic' = IF Alive THEN Enqueued(topic, c) ELSE topic
  /\ given' = IF Alive THEN given + 1 ELSE given

Publish(c) ==
  /\ published < MaxPublished
  /\ published' = published + 1
  /\ Deliver(c)
  /\ UNCHANGED <<process, mav_buf_send_, chatter, wire, inbox, armed, reachable, taken, heard>>

-----------------------------------------------------------------------------
(* safe_launch.sh                                                          *)

\* The script finds no process and starts one.  Its members armed_ and the like
\* hold what was in the memory.  What an earlier one wrote has arrived or is lost.
Restart ==
  /\ ~Alive /\ wire = <<>>
  /\ at' = "setup"
  /\ link' = "clear"
  /\ armed_' \in BOOLEAN
  /\ given' = 0
  /\ taken' = <<>>
  /\ heard' = <<>>
  /\ UNCHANGED <<socket, carried, world>>

-----------------------------------------------------------------------------
(* The process                                                             *)

\* The kernel sends on what was written, unless there is something unread.
Die ==
  /\ at' = "down"
  /\ socket' = "none"
  /\ topic' = <<>>
  /\ mav_buf_send_' = <<>>
  /\ chatter' = FALSE
  /\ inbox' = <<>>
  /\ wire' \in {wire, <<>>}
  /\ UNCHANGED <<link, armed_, world, history>>

\* Anything else that ends the process.  One that is about to write to a broken
\* connection is left to Flush.
Crash ==
  /\ Alive
  /\ ~(at = "serve" /\ socket \in {"none", "reset"})
  /\ Die

\* The result of wifi_connect is ignored: the loop runs without a connection.
Connect ==
  /\ at = "setup"
  /\ at' = "spin"
  /\ socket' = IF reachable THEN "open" ELSE "none"
  /\ UNCHANGED <<link, armed_, carried, world, history>>

CopiesNoLand(c) ==  \* a mistake: LAND is not among the cases
  IF c \in {Notice, "LAND"} THEN <<>> ELSE <<c>>

\* cmdHandler: the messages a command is turned into.  A landing is repeated;
\* the process sleeps between the copies and writes nothing meanwhile.
Copies(c) ==
  CASE c = Notice -> <<>>
    [] c = "LAND" -> <<c, c, c>>
    [] OTHER      -> <<c>>

\* spin_some: one command, and whatever else is waiting, if there is anything
\* (other).
Spin(other) ==
  /\ at = "spin"
  /\ at' = "serve"
  /\ chatter' = (chatter \/ other)
  /\ IF topic = <<>>
     THEN UNCHANGED <<topic, mav_buf_send_, taken>>
     ELSE LET copies == Copies(Head(topic)) IN
          /\ topic' = Tail(topic)
          /\ mav_buf_send_' = mav_buf_send_ \o copies
          /\ taken' = taken \o copies
  /\ UNCHANGED <<socket, link, armed_, wire, inbox, world, given, heard>>

\* parse_data, for a heartbeat: 1101 when the vehicle turns out to be armed,
\* and a heartbeat in return.
Parse ==
  /\ at = "serve" /\ inbox # <<>>
  /\ inbox' = Tail(inbox)
  /\ armed_' = (Head(inbox) = "armed")
  /\ chatter' = TRUE
  /\ IF Head(inbox) = "armed" /\ ~armed_
     THEN Deliver(Notice)
     ELSE UNCHANGED <<topic, given>>
  /\ UNCHANGED <<at, socket, link, mav_buf_send_, wire, world, taken, heard>>

WrittenAnyway ==  \* a mistake: a message that does not fit is left out of any write
  {SubSeq(mav_buf_send_, i + 1, Len(mav_buf_send_)) : i \in 0 .. Len(mav_buf_send_)}

\* What of the buffer gets into the connection.  While the peer acknowledges
\* nothing the kernel's buffer fills up and send takes a part; the message it
\* cuts spoils the beginning of what is written next.
Written ==
  LET s == mav_buf_send_ IN
  CASE link = "stalled" -> {SubSeq(s, 1, i) : i \in 0 .. Len(s)}
    [] link = "torn"    -> {SubSeq(s, i + 1, Len(s)) : i \in 0 .. Len(s)}
    [] OTHER            -> {s}

BrokenPipeIgnored ==  \* a mistake: send with MSG_NOSIGNAL, its result still ignored
  /\ at' = "spin"
  /\ mav_buf_send_' = <<>>
  /\ chatter' = FALSE
  /\ UNCHANGED <<socket, link, armed_, topic, wire, inbox, world, history>>

\* Nothing handles SIGPIPE.
BrokenPipe == Die

\* flush_data.  The result of send is ignored; a connection the peer has closed
\* swallows one write, and the next one raises SIGPIPE.
Flush ==
  /\ at = "serve"
  /\ IF mav_buf_send_ = <<>> /\ ~chatter
     THEN /\ at' = "spin"
          /\ UNCHANGED <<socket, link, armed_, carried, world, history>>
     ELSE \/ socket \in {"none", "reset"} /\ BrokenPipe
          \/ /\ socket \in {"open", "closed"}
             /\ at' = "spin"
             /\ mav_buf_send_' = <<>>
             /\ chatter' = FALSE
             /\ IF socket = "closed"
                THEN socket' = "reset" /\ UNCHANGED <<link, wire>>
                ELSE /\ \E w \in Written : wire' = wire \o w
                     /\ link' = IF link = "torn" THEN "mended" ELSE link
                     /\ UNCHANGED socket
             /\ UNCHANGED <<armed_, topic, inbox, world, history>>

-----------------------------------------------------------------------------
(* The flight controller and the network                                   *)

Obeyed(message) ==
  CASE message = "ARM"    -> TRUE
    [] message = "DISARM" -> FALSE
    [] OTHER              -> armed

Hear ==
  /\ wire # <<>> /\ link # "stalled"
  /\ heard' = Append(heard, Head(wire))
  /\ wire' = Tail(wire)
  /\ armed' = Obeyed(Head(wire))
  /\ UNCHANGED <<process, topic, mav_buf_send_, chatter, inbox, reachable, published, given, taken>>

Beat ==
  /\ socket = "open" /\ link # "stalled"
  /\ Len(inbox) < MaxBeats
  /\ inbox' = Append(inbox, IF armed THEN "armed" ELSE "safe")
  /\ UNCHANGED <<process, topic, mav_buf_send_, chatter, wire, world, history>>

\* The vehicle disarms itself once it has landed.
Disarms ==
  /\ armed
  /\ armed' = FALSE
  /\ UNCHANGED <<process, carried, reachable, published, history>>

\* The flight controller ends the connection, or TCP gives up a stalled one.
Cut ==
  /\ socket = "open"
  /\ socket' = IF link = "stalled" THEN "reset" ELSE "closed"
  /\ wire' = <<>>
  /\ UNCHANGED <<at, link, armed_, topic, mav_buf_send_, chatter, inbox, world, history>>

\* Another stall before anything else is written is part of the same one.
Stall ==
  /\ socket = "open" /\ link \in {"clear", "mended"}
  /\ link' = "stalled"
  /\ UNCHANGED <<at, socket, armed_, carried, world, history>>

StallEnds ==
  /\ socket = "open" /\ link = "stalled"
  /\ link' \in {"torn", "mended"}
  /\ UNCHANGED <<at, socket, armed_, carried, world, history>>

\* What a dead process wrote is given up.
Abandon ==
  /\ at = "down" /\ wire # <<>>
  /\ wire' = <<>>
  /\ UNCHANGED <<process, topic, mav_buf_send_, chatter, inbox, world, history>>

Reach ==
  /\ reachable' = ~reachable
  /\ UNCHANGED <<process, carried, armed, published, history>>

-----------------------------------------------------------------------------

Init ==
  /\ at = "down"
  /\ socket = "none"
  /\ link = "clear"
  /\ topic = <<>>
  /\ mav_buf_send_ = <<>>
  /\ chatter = FALSE
  /\ wire = <<>>
  /\ inbox = <<>>
  /\ armed_ = FALSE
  /\ armed = FALSE
  /\ reachable \in BOOLEAN
  /\ published = 0
  /\ given = 0
  /\ taken = <<>>
  /\ heard = <<>>

Next ==
  \/ \E c \in Commands : Publish(c)
  \/ Restart \/ Crash \/ Connect
  \/ \E other \in BOOLEAN : Spin(other)
  \/ Parse \/ Flush
  \/ Hear \/ Beat \/ Disarms
  \/ Cut \/ Stall \/ StallEnds \/ Abandon
  \/ Reach

Spec == Init /\ [][Next]_bvars

\* The script looks every three seconds, the loop turns, and TCP delivers or
\* gives up.  Nobody owes the bridge anything to send.
Fairness ==
  /\ WF_bvars(Restart)
  /\ WF_bvars(Connect)
  /\ WF_bvars(\E other \in BOOLEAN : Spin(other))
  /\ WF_bvars(Flush)
  /\ WF_bvars(Hear)
  /\ WF_bvars(Abandon)
  /\ WF_bvars(Cut /\ link = "stalled")

FairSpec == Spec /\ Fairness

-----------------------------------------------------------------------------
(* Properties                                                              *)

Channel ==
  INSTANCE CommandChannel WITH line <- wire \o mav_buf_send_, queue <- topic

\* Seen from the topic a run of the bridge is a channel that loses commands but
\* neither repeats, reorders nor invents them, whatever breaks.
Relays == Channel!Spec

\* As long as the way to the controller is clear no command is passed over:
\* what the controller heard is the beginning of what the process took up, so
\* no take-off is heard whose arming was lost.
NoGaps == link = "clear" => IsPrefix(heard, taken)

\* A landing that waits in a connected process is heard, unless the connection
\* or the process fails or more follows than the queue holds.
LandHeard ==
  "LAND" \in Range(topic) \cup Range(mav_buf_send_) ~>
    \/ "LAND" \in Range(heard)
    \/ socket # "open" \/ link # "clear"
    \/ given > Depth

\* Only a write shows the bridge that its connection is gone.
SomethingToWrite == chatter \/ mav_buf_send_ # <<>>

\* Provided that the controller accepts connections, that the process does not
\* crash over and over, and that a living bridge is given something to write
\* again and again, a lost connection is noticed: the process dies of writing to
\* it (not at the first write to one the peer has closed) and a new one connects.
\* Nothing in the repository ensures the last condition: the pose feed of
\* safe_launch.sh repeats positions that come through the same connection
\* (CRUISE_TEST_GUIDE.md:5), so that it may fall silent with it.
ComesBack ==
  <>[]reachable /\ <>[][~Crash]_bvars /\ []<>(Alive => SomethingToWrite)
    => []<>(socket = "open")

\* What the script promises, a dead bridge is started again, whether or not there
\* is something to write: not what it does of a bridge that only lost its
\* connection.
ComesBackAlone ==
  <>[]reachable /\ <>[][~Crash]_bvars => []<>(socket = "open")

\* The copies of a landing, sent against loss, do not leave together.
LandSentApart ==
  [][LET landings(s) == Len(SelectSeq(s, LAMBDA c : c = "LAND")) IN
       landings(wire') <= landings(wire) + 1]_bvars

=============================================================================
