--------------------------- MODULE MCInspectTarget ---------------------------
(* Instances of InspectTarget for TLC.                                     *)
EXTENDS InspectTarget

Actions == {"plan", "takeoff", "goto", "hold", "capture", "upload", "return", "land"}

\* Adapters that never fail, fail when they act, or fail at any call.
Any == {{}, Actions, Actions \cup {"feedback"}, Actions \cup {"feedback", "read_state"}}

\* A movement or a message that raised may have been made all the same: an
\* adapter publishes its command before it waits for the vehicle.
Movements == {"takeoff", "goto", "return", "land", "feedback"}

=============================================================================
