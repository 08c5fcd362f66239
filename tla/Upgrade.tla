------------------------------ MODULE Upgrade ------------------------------
(***************************************************************************)
(* What init_db of app/database.py promises: the schema goes up one        *)
(* version at a time, never down, and the single NAS configured in the     *)
(* settings of an older release becomes one profile, with the groups that  *)
(* need it, in the very step that reaches the last version - once; what    *)
(* the user makes of the profiles afterwards is left alone.                *)
(***************************************************************************)
EXTENDS Naturals

CONSTANT Last  \* SCHEMA_VERSION

VARIABLES
  version,    \* the schema version that is recorded
  configured, \* the settings name a NAS
  profiles,   \* how many rows nas_profiles has
  linked      \* the groups and schedules that need the NAS name a profile

vars == <<version, configured, profiles, linked>>

CarryOver ==
  IF configured /\ profiles = 0
    THEN profiles' = 1 /\ linked' = TRUE
    ELSE UNCHANGED <<profiles, linked>>

Init ==
  /\ version \in 0 .. Last /\ configured \in BOOLEAN
  /\ profiles \in Nat /\ linked \in BOOLEAN
  /\ version < Last => profiles = 0 /\ ~ linked

Migrate ==
  /\ version < Last
  /\ version' = version + 1
  /\ IF version' = Last THEN CarryOver ELSE UNCHANGED <<profiles, linked>>
  /\ UNCHANGED configured

\* The user edits, deletes and imports, once the application serves.
Use ==
  /\ version = Last
  /\ configured' \in BOOLEAN /\ profiles' \in Nat /\ linked' \in BOOLEAN
  /\ UNCHANGED version

Next == Migrate \/ Use

Spec == Init /\ [][Next]_vars
=============================================================================
