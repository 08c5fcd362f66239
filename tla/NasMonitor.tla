----------------------------- MODULE NasMonitor -----------------------------
(***************************************************************************)
(* run_nas_monitor of app/scheduler_service.py for one NAS profile: the    *)
(* job that checks the NAS at an interval, starts its groups when it has   *)
(* come online, stops them when it has gone offline, and records what it   *)
(* has reacted to in last_automation_ready.  APScheduler runs one instance *)
(* of a job at a time; the profile is edited and deleted meanwhile, and    *)
(* the process may restart between any two steps.  The webhooks are told   *)
(* of a transition first, attempt by attempt (Deliveries).                 *)
(***************************************************************************)
EXTENDS Deliveries

CONSTANTS
  Groups,        \* the groups of the profile with requires_nas, in list order
  AutoStart,     \* those with auto_start_on_nas_online
  AutoStop,      \* those with auto_stop_on_nas_offline
  MaxAttempts,   \* NAS_ACTION_MAX_ATTEMPTS
  MaxDisruptions \* bound: how often the process restarts or a backup is imported

ASSUME GroupAssumption ==
  /\ Groups \subseteq Nat /\ IsFiniteSet(Groups)
  /\ AutoStart \subseteq Groups /\ AutoStop \subseteq Groups
ASSUME BoundAssumption == MaxAttempts \in Nat \ {0} /\ MaxDisruptions \in Nat

VARIABLES
  exists, enabled,     \* the profile's row, and its enabled column
  recorded,            \* last_automation_ready
  shown,               \* last_ready, what the pages show
  nas,                 \* whether host and mounts answer just now
  raising,             \* whether a webhook raises what send_event does not catch
  pc,                  \* the tick in progress
  previous, ready,     \* previous_ready and status["ready"] of the tick
  todo, attempt,       \* groups still to act on, attempts on the first of them
  disruptions,
  served, failures,    \* history: groups the tick has served, and how often others failed
  restored             \* history: a backup was imported since the tick began

rowVars == <<exists, enabled, recorded, shown>>
tickVars == <<pc, previous, ready, todo, attempt>>
tallyVars == <<served, failures>>
historyVars == <<tallyVars, restored>>
outside == <<nas, raising>>
vars == <<rowVars, outside, tickVars, deliveryVars, disruptions, historyVars>>

Init ==
  /\ exists = TRUE /\ enabled \in BOOLEAN
  /\ recorded = FALSE /\ shown = FALSE
  /\ nas \in BOOLEAN /\ raising \in BOOLEAN
  /\ pc = "idle" /\ previous = FALSE /\ ready = FALSE
  /\ todo = {} /\ attempt = 1 /\ NothingToSend
  /\ disruptions = 0
  /\ served = {} /\ failures = [g \in Groups |-> 0] /\ restored = FALSE

-----------------------------------------------------------------------------
(* One tick *)

\* current_status: a profile that is gone reads as the legacy settings, which
\* are taken to be disabled here.
Monitored == exists /\ enabled

StartTick ==
  /\ pc = "idle" /\ Monitored
  /\ pc' = "previous"
  /\ restored' = FALSE
  /\ UNCHANGED <<rowVars, outside, previous, ready, todo, attempt, deliveryVars, disruptions, tallyVars>>

ReadPrevious ==
  /\ pc = "previous"
  /\ previous' = (exists /\ recorded)
  /\ pc' = "check"
  /\ UNCHANGED <<rowVars, outside, ready, todo, attempt, deliveryVars, disruptions, historyVars>>

CameOnline == ready /\ ~ previous

\* Seeded fault: the reaction is recorded before it has happened.
CheckStatusRecords ==
  /\ pc = "check"
  /\ ready' = (Monitored /\ nas)
  /\ shown' = IF exists THEN ready' ELSE shown
  /\ recorded' = IF exists THEN ready' ELSE recorded
  /\ pc' = IF ready' = previous THEN "record" ELSE "notify"
  /\ UNCHANGED <<exists, enabled, outside, previous, todo, attempt, deliveryVars, disruptions, historyVars>>

\* check_status reads the profile again, pings, and writes what it found.
CheckStatus ==
  /\ pc = "check"
  /\ ready' = (Monitored /\ nas)
  /\ shown' = IF exists THEN ready' ELSE shown
  /\ pc' = IF ready' = previous THEN "record" ELSE "notify"
  /\ UNCHANGED <<exists, enabled, recorded, outside, previous, todo, attempt, deliveryVars, disruptions, historyVars>>

\* send_event reads the webhooks ...
Notify ==
  /\ pc = "notify"
  /\ pc' = "send"
  /\ ListWebhooks
  /\ UNCHANGED <<rowVars, outside, previous, ready, todo, attempt, disruptions, historyVars>>

\* ... posts to one after the other ...
Send ==
  /\ pc = "send"
  /\ Attempt
  /\ UNCHANGED <<rowVars, outside, tickVars, disruptions, historyVars>>

\* ... and its errors are ignored.
Sent ==
  /\ pc = "send" /\ AllSent
  /\ pc' = "groups"
  /\ Forget
  /\ UNCHANGED <<rowVars, outside, previous, ready, todo, attempt, disruptions, historyVars>>

\* What send_event does not catch ends the tick.
NotifyRaises ==
  /\ raising
  /\ pc = "send"
  /\ Raises
  /\ pc' = "idle"
  /\ UNCHANGED <<rowVars, outside, previous, ready, todo, attempt, disruptions, historyVars>>

\* dependent_groups; deleting the profile has cleared requires_nas.
ListGroups ==
  /\ pc = "groups"
  /\ todo' = IF ~ exists THEN {} ELSE IF CameOnline THEN AutoStart ELSE AutoStop
  /\ attempt' = 1
  /\ pc' = "act"
  /\ UNCHANGED <<rowVars, outside, previous, ready, deliveryVars, disruptions, historyVars>>

First(g) == g \in todo /\ \A h \in todo : g <= h

\* start_group_run returned and the run is not 'failed': it succeeded, skipped, was
\* cancelled, or its row is gone.
GroupServed(g) ==
  /\ pc = "act" /\ First(g)
  /\ todo' = todo \ {g}
  /\ attempt' = 1
  /\ served' = served \cup {g}
  /\ failures' = [failures EXCEPT ![g] = 0]
  /\ UNCHANGED <<rowVars, outside, pc, previous, ready, deliveryVars, disruptions, restored>>

OneMoreFailure(g) ==
  /\ failures' = [failures EXCEPT ![g] = @ + 1]
  /\ UNCHANGED <<rowVars, outside, pc, previous, ready, deliveryVars, disruptions, served, restored>>

\* Seeded fault: one attempt too many.
GroupFailedOnceMore(g) ==
  /\ pc = "act" /\ First(g)
  /\ IF attempt <= MaxAttempts
       THEN attempt' = attempt + 1 /\ UNCHANGED todo
       ELSE attempt' = 1 /\ todo' = todo \ {g}
  /\ OneMoreFailure(g)

\* Seeded fault: the attempts start over.
GroupFailedForEver(g) ==
  /\ pc = "act" /\ First(g)
  /\ attempt' = IF attempt < MaxAttempts THEN attempt + 1 ELSE 1
  /\ failures' = [failures EXCEPT ![g] = IF attempt < MaxAttempts THEN @ + 1 ELSE 0]
  /\ UNCHANGED <<rowVars, outside, pc, previous, ready, todo, deliveryVars, disruptions, served, restored>>

\* The run failed or start_group_run raised: try again after 30 seconds, but no
\* more than MaxAttempts times in all; then the group is given up.
GroupFailed(g) ==
  /\ pc = "act" /\ First(g)
  /\ IF attempt < MaxAttempts
       THEN attempt' = attempt + 1 /\ UNCHANGED todo
       ELSE attempt' = 1 /\ todo' = todo \ {g}
  /\ OneMoreFailure(g)

\* Every group has been served or given up.
AllSettled ==
  /\ pc = "act" /\ todo = {}
  /\ pc' = "record"
  /\ UNCHANGED <<rowVars, outside, previous, ready, todo, attempt, deliveryVars, disruptions, historyVars>>

ForgetTally == served' = {} /\ failures' = [g \in Groups |-> 0]

\* update_nas_profile_status(last_automation_ready = ready)
Record ==
  /\ pc = "record"
  /\ recorded' = IF exists THEN ready ELSE recorded
  /\ pc' = "idle"
  /\ ForgetTally
  /\ UNCHANGED <<exists, enabled, shown, outside, previous, ready, todo, attempt, deliveryVars, disruptions, restored>>

Tick ==
  \/ StartTick \/ ReadPrevious \/ CheckStatus
  \/ Notify \/ Send \/ Sent \/ NotifyRaises \/ ListGroups \/ AllSettled \/ Record
  \/ \E g \in Groups : GroupServed(g) \/ GroupFailed(g)

-----------------------------------------------------------------------------
(* Everyone else *)

NasChanges ==
  /\ nas' = ~ nas
  /\ UNCHANGED <<rowVars, raising, tickVars, deliveryVars, disruptions, historyVars>>

\* A webhook that raises is saved or deleted, or a server begins or ceases to
\* answer that way.
WebhookChanges ==
  /\ raising' = ~ raising
  /\ UNCHANGED <<rowVars, nas, tickVars, deliveryVars, disruptions, historyVars>>

\* Seeded fault: saving a profile writes the whole row.
SetEnabledAfresh ==
  /\ exists
  /\ enabled' = ~ enabled
  /\ recorded' = FALSE
  /\ UNCHANGED <<exists, shown, outside, tickVars, deliveryVars, disruptions, historyVars>>

\* save_nas_profile leaves the last_* columns alone.
SetEnabled ==
  /\ exists
  /\ enabled' = ~ enabled
  /\ UNCHANGED <<exists, recorded, shown, outside, tickVars, deliveryVars, disruptions, historyVars>>

DeleteProfile ==
  /\ exists
  /\ exists' = FALSE
  /\ UNCHANGED <<enabled, recorded, shown, outside, tickVars, deliveryVars, disruptions, historyVars>>

\* A check by hand, or by a run that requires the NAS.
CheckByHand ==
  /\ exists
  /\ shown' = (enabled /\ nas)
  /\ UNCHANGED <<exists, enabled, recorded, outside, tickVars, deliveryVars, disruptions, historyVars>>

Restart ==
  /\ disruptions < MaxDisruptions /\ pc # "idle"
  /\ disruptions' = disruptions + 1
  /\ pc' = "idle"
  /\ Forget /\ ForgetTally
  /\ UNCHANGED <<rowVars, outside, previous, ready, todo, attempt, restored>>

\* import_configuration replaces the row, last_* columns included, by what the
\* backup has, and does not wait for the tick.
Import ==
  /\ disruptions < MaxDisruptions
  /\ disruptions' = disruptions + 1
  /\ exists' \in BOOLEAN /\ enabled' \in BOOLEAN
  /\ recorded' \in BOOLEAN /\ shown' \in BOOLEAN
  /\ restored' = TRUE
  /\ UNCHANGED <<outside, tickVars, tallyVars, deliveryVars>>

Next ==
  \/ Tick \/ NasChanges \/ WebhookChanges \/ SetEnabled \/ DeleteProfile \/ CheckByHand
  \/ Restart \/ Import

Spec == Init /\ [][Next]_vars

\* The interval job of an enabled profile fires again and again, and a tick goes
\* on: pings, webhooks and runs all end.
FairSpec == Spec /\ WF_vars(Tick)

-----------------------------------------------------------------------------
(* Properties *)

TypeOK ==
  /\ {exists, enabled, recorded, shown, nas, raising, previous, ready} \subseteq BOOLEAN
  /\ pc \in {"idle", "previous", "check", "notify", "send", "groups", "act", "record"}
  /\ todo \subseteq Groups /\ attempt \in 1 .. MaxAttempts
  /\ disruptions \in 0 .. MaxDisruptions
  /\ DeliveryTypeOK
  /\ served \subseteq Groups /\ failures \in [Groups -> 0 .. MaxAttempts]
  /\ restored \in BOOLEAN

\* The groups a transition concerns: those to start, or those to stop.
Concerned(online) == IF online THEN AutoStart ELSE AutoStop

\* A transition is recorded as reacted to only after the tick that records it has
\* served every group it concerns, or has seen it fail MaxAttempts times: a restart
\* before the record repeats actions, it never loses them, and no group is given up
\* for want of attempts.  Served means that its run did not fail.  A group that fails
\* each time is given up for good: the transition is recorded without it.  An import
\* during the tick is the exception.
RecordedIsSettled ==
  [][recorded' # recorded /\ ~ restored' =>
       \A g \in Concerned(recorded') : g \in served \/ failures[g] = MaxAttempts]_vars

\* While a tick acts, what it has read of last_automation_ready is still what is
\* there, unless a backup is imported: its groups are not started again while the
\* NAS stays online.
PreviousIsCurrent ==
  pc \in {"check", "notify", "send", "groups", "act", "record"} /\ exists /\ ~ restored
    => previous = recorded

\* README.md:18, "Optional NAS-triggered group auto-start/auto-stop": a NAS that
\* stays available, under an enabled profile, ends up reacted to for good, and so
\* does one that stays away - from when on no webhook raises what send_event does
\* not catch, which ends every tick before its groups are acted on.
ServedUnlessRaising ==
  /\ <>[](exists /\ enabled /\ nas /\ ~ raising) => <>[]recorded
  /\ <>[](exists /\ enabled /\ ~ nas /\ ~ raising) => <>[](~ recorded)
=============================================================================
