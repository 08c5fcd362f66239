-------------------------- MODULE MCGroupExecution --------------------------
(* Instances of GroupExecution for TLC. *)
EXTENDS GroupExecution

ThreeItems == <<"db", "app", "web">>
SomeDelays == {-1, 1}
=============================================================================
