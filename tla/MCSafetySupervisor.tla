------------------------- MODULE MCSafetySupervisor -------------------------
(* Instances of SafetySupervisor for TLC.                                  *)
EXTENDS SafetySupervisor, TLC

\* Only the distance of two positions matters, not which they are.
Symmetry == Permutations(Points)

=============================================================================
