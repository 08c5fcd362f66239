----------------------------- MODULE MCCalendar -----------------------------
(* Instances of Calendar for TLC. *)
EXTENDS Calendar, TLC

Symmetric == Permutations(Schedules)

Row(on, t, days) == [enabled |-> on, trigger |-> [time |-> t, weekdays |-> days]]

\* Daily, on the second day of the week only, later on the first day, disabled.
FourRows == {Row(TRUE, 0, {}), Row(TRUE, 0, {1}), Row(TRUE, 2, {0}), Row(FALSE, 0, {})}
=============================================================================
