---------------------------- MODULE MCNasMonitor ----------------------------
(* Instances of NasMonitor for TLC. *)
EXTENDS NasMonitor

ThreeGroups == {1, 2, 3}
StartFirstTwo == {1, 2}
StopLastTwo == {2, 3}
=============================================================================
