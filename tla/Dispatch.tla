------------------------------ MODULE Dispatch ------------------------------
(***************************************************************************)
(* What the ZRDDS scheduler promises, without topics, bids or agents'      *)
(* state: a task gets one owner, who is able to do it, only after its      *)
(* predecessor was executed, keeps that owner, and is executed by no one   *)
(* else.                                                                   *)
(***************************************************************************)
CONSTANTS Tasks, Vehicles, Predecessor, None,
          Able          \* pairs of a task and a vehicle that may own it

VARIABLES owner,        \* the vehicle a task is assigned to, or None
          executed      \* pairs of a task and the vehicle that executed it

dispatch == <<owner, executed>>

Init == owner = [t \in Tasks |-> None] /\ executed = {}

\* Tasks whose turn has come get owners that are able to do them.
Assign ==
  /\ owner' \in [Tasks -> Vehicles \cup {None}]
  /\ \A t \in Tasks : owner'[t] # owner[t] =>
       /\ owner[t] = None
       /\ <<t, owner'[t]>> \in Able
       /\ Predecessor[t] # None => \E v \in Vehicles : <<Predecessor[t], v>> \in executed
  /\ UNCHANGED executed

\* A vehicle executes tasks it owns.
Execute(v) ==
  /\ executed' \in {executed \cup (done \X {v}) : done \in SUBSET {t \in Tasks : owner[t] = v}}
  /\ UNCHANGED owner

Next == Assign \/ \E v \in Vehicles : Execute(v)

Spec == Init /\ [][Next]_dispatch

=============================================================================
