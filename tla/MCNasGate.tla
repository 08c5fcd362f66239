----------------------------- MODULE MCNasGate -----------------------------
(* Instances of NasGate for TLC. *)
EXTENDS NasGate

TwoProfiles == {1, 2}

Row(e, w, a, m) == [enabled |-> e, wol_enabled |-> w, auto_wake |-> a, mac |-> m]

\* On, disabled, woken by hand only, and with an invalid MAC address.
FourRows == {Row(TRUE, TRUE, TRUE, TRUE), Row(FALSE, TRUE, TRUE, TRUE),
             Row(TRUE, TRUE, FALSE, TRUE), Row(TRUE, TRUE, TRUE, FALSE)}

\* A group of the first profile, and one that names none after it.
TwoQueues == {<<1>>, <<1, None>>}
=============================================================================
