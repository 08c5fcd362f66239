--------------------------- MODULE MCScheduleJobs ---------------------------
(* Instances of ScheduleJobs for TLC. *)
EXTENDS ScheduleJobs

TwoSchedules == {1, 2}
TwoTimes == {8, 9}
=============================================================================
