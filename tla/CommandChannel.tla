--------------------------- MODULE CommandChannel ---------------------------
(***************************************************************************)
(* What one run of the flight controller's bridge promises to those who    *)
(* publish on the topic "command": the controller hears the commands in    *)
(* the order they were published, a landing three times at most and every  *)
(* other command once, and nothing that was not published since the bridge *)
(* started.  It does not promise that a command is heard.                  *)
(***************************************************************************)
EXTENDS Naturals, Sequences

CONSTANTS Topic,     \* what may be published
          Copies(_)  \* the messages that stand for a command

VARIABLES queue,  \* published and not taken up
          line,   \* messages on their way to the flight controller
          heard   \* messages the flight controller has heard

channelVars == <<queue, line, heard>>

Publish ==
  /\ \E c \in Topic : queue' = Append(queue, c)
  /\ UNCHANGED <<line, heard>>

\* The oldest waiting command makes room for another.
Displace ==
  /\ queue # <<>>
  /\ \E c \in Topic : queue' = Append(Tail(queue), c)
  /\ UNCHANGED <<line, heard>>

Take ==
  /\ queue # <<>>
  /\ queue' = Tail(queue)
  /\ line' = line \o Copies(Head(queue))
  /\ UNCHANGED heard

Hear ==
  /\ line # <<>>
  /\ line' = Tail(line)
  /\ heard' = Append(heard, Head(line))
  /\ UNCHANGED queue

\* Some consecutive messages get lost.
Lose ==
  /\ \E i, j \in 0 .. Len(line) :
       i <= j /\ line' = SubSeq(line, 1, i) \o SubSeq(line, j + 1, Len(line))
  /\ UNCHANGED <<queue, heard>>

\* The bridge ends; what it has written may still arrive.
Break ==
  /\ queue' = <<>>
  /\ \E i \in 0 .. Len(line) : line' = SubSeq(line, 1, i)
  /\ UNCHANGED heard

\* The next bridge starts.
Renew ==
  /\ queue = <<>> /\ line = <<>>
  /\ heard' = <<>>
  /\ UNCHANGED <<queue, line>>

Init == queue = <<>> /\ line = <<>> /\ heard = <<>>

Next == Publish \/ Displace \/ Take \/ Hear \/ Lose \/ Break \/ Renew

Spec == Init /\ [][Next]_channelVars

=============================================================================
