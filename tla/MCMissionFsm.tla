---------------------------- MODULE MCMissionFsm ----------------------------
(* Instances of MissionFsm for TLC.                                        *)
EXTENDS MissionFsm, TLC

\* Devices of one kind are interchangeable.
Symmetry == Permutations(Uavs) \cup Permutations(Ugvs)

=============================================================================
