-------------------------- MODULE MCConfiguration --------------------------
(* Instances of Configuration for TLC. *)
EXTENDS Configuration

CONSTANTS x, c, d

OneName == {x}
TwoIds == {c, d}

\* Nothing, or one container by its id and one by its name.
SomeSelections == {<< >>, <<d, x>>}
=============================================================================
