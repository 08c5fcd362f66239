---------------------------- MODULE ScheduleJobs ----------------------------
(***************************************************************************)
(* reload_schedules and reload_nas_monitor of app/scheduler_service.py and *)
(* the requests that call them: each writes its table and then rebuilds    *)
(* the jobs of its kind from it - get_jobs, a remove_job for each, one     *)
(* read of the table, an add_job for each.  APScheduler locks one call,    *)
(* not the rebuild, and the requests run in threads: the async handlers    *)
(* one after the other on the event loop, the others in the thread pool.   *)
(***************************************************************************)
EXTENDS Naturals, FiniteSets

CONSTANTS
  Schedules,   \* ids of the schedules table
  Profiles,    \* ids of the nas_profiles table
  LegacyId,    \* stands for the job of the single-NAS settings
  Times,       \* the triggers: hour, minute and weekdays, or an interval, in one number
  LegacyTime,  \* the trigger of the single-NAS settings
  Loop, Pool,  \* the event loop, and the threads of the pool
  None,        \* no row, or no job
  MaxRequests  \* bound: how many requests are made

ASSUME IdAssumption ==
  /\ Schedules \cup Profiles \cup {LegacyId} \cup Times \subseteq Nat
  /\ Schedules \cap Profiles = {} /\ LegacyId \notin Schedules \cup Profiles
  /\ LegacyTime \in Times
ASSUME WorkerAssumption == Loop \notin Pool /\ None \notin Times
ASSUME RequestAssumption == MaxRequests \in Nat

Kinds == {"schedule", "nas"}
Ids == Schedules \cup Profiles
JobIds == Ids \cup {LegacyId}
KindOf(i) == IF i \in Schedules THEN "schedule" ELSE "nas"

Workers == Pool \cup {Loop}
Rows == [enabled : BOOLEAN, time : Times]
Toggles == [id : Schedules, enabled : BOOLEAN]

VARIABLES
  table,     \* the schedules and the nas_profiles table
  legacy,    \* nas_enabled of the settings
  jobs,      \* the job store: the trigger of each job
  pc,        \* where each worker is in its request
  todo,      \* the reloads its request still has to do, the one in progress included
  toggling,  \* what a worker is about to write to the enabled column
  removing,  \* the jobs a worker still has to remove, with their triggers
  adding,    \* the rows a worker has read and still has to add
  requests,  \* how many requests have been made
  kinds,     \* history: all the reloads of a worker's request
  alone,     \* history: those whose kind no other request has overlapped
  trusted    \* history: the kinds whose last reload was alone, and none has since failed

tableVars == <<table, legacy>>
historyVars == <<kinds, alone, trusted>>
workerVars == <<pc, todo, toggling, removing, adding>>
vars == <<tableVars, jobs, workerVars, requests, historyVars>>

EnabledIn(t) == {i \in Ids : t[i] # None /\ t[i].enabled}

NoProfileIn(t) == \A p \in Profiles : t[p] = None

\* What the job store should hold: the single-NAS settings count when there is no
\* profile.
JobsFor(t, l) ==
  [i \in JobIds |->
     IF i \in Ids
       THEN IF i \in EnabledIn(t) THEN t[i].time ELSE None
       ELSE IF l /\ NoProfileIn(t) THEN LegacyTime ELSE None]

Scheduled(kind) == {i \in JobIds : KindOf(i) = kind /\ jobs[i] # None}

Busy == {w \in Workers : pc[w] # "idle"}
BusyWith(kind) == {w \in Busy : kind \in kinds[w]}

\* start_scheduler has loaded the jobs before the first request is served.
Init ==
  /\ table \in [Ids -> Rows \cup {None}] /\ legacy \in BOOLEAN
  /\ jobs = JobsFor(table, legacy)
  /\ pc = [w \in Workers |-> "idle"]
  /\ todo = [w \in Workers |-> {}]
  /\ toggling = [w \in Workers |-> None]
  /\ removing = [w \in Workers |-> {}]
  /\ adding = [w \in Workers |-> {}]
  /\ requests = 0
  /\ kinds = [w \in Workers |-> {}]
  /\ alone = [w \in Workers |-> {}]
  /\ trusted = Kinds

-----------------------------------------------------------------------------
(* The requests and what they write *)

Begin(w, place, reloads) ==
  /\ pc[w] = "idle" /\ requests < MaxRequests
  /\ requests' = requests + 1
  /\ pc' = [pc EXCEPT ![w] = place]
  /\ todo' = [todo EXCEPT ![w] = reloads]
  /\ kinds' = [kinds EXCEPT ![w] = reloads]
  /\ alone' = [v \in Workers |-> IF v = w THEN {k \in reloads : BusyWith(k) = {}}
                                ELSE alone[v] \ reloads]
  /\ trusted' = trusted \ {k \in reloads : BusyWith(k) # {}}
  /\ UNCHANGED <<jobs, removing, adding>>

\* create_schedule and update_schedule, or save_profile, on the event loop.
SaveRow(i, row) ==
  /\ Begin(Loop, "reload", {KindOf(i)})
  /\ table' = [table EXCEPT ![i] = row]
  /\ UNCHANGED <<legacy, toggling>>

\* import_configuration, on the event loop as well, reloads both kinds.
Import ==
  /\ Begin(Loop, "reload", Kinds)
  /\ table' \in [Ids -> Rows \cup {None}] /\ legacy' \in BOOLEAN
  /\ UNCHANGED toggling

\* toggle_schedule reads the row ...
ReadToggle(w, s) ==
  /\ table[s] # None
  /\ Begin(w, "toggle", {"schedule"})
  /\ toggling' = [toggling EXCEPT ![w] = [id |-> s, enabled |-> ~ table[s].enabled]]
  /\ UNCHANGED tableVars

\* ... and then writes the opposite of what it read, if the row is still there.
WriteToggle(w) ==
  /\ pc[w] = "toggle"
  /\ LET t == toggling[w]
     IN  table' = IF table[t.id] = None THEN table
                  ELSE [table EXCEPT ![t.id].enabled = t.enabled]
  /\ toggling' = [toggling EXCEPT ![w] = None]
  /\ pc' = [pc EXCEPT ![w] = "reload"]
  /\ UNCHANGED <<legacy, jobs, todo, removing, adding, requests, historyVars>>

\* delete_schedule, delete_group with the schedules that target the group, or
\* delete_profile.
DeleteRows(w, kind, gone) ==
  /\ gone # {}
  /\ Begin(w, "reload", {kind})
  /\ table' = [i \in Ids |-> IF i \in gone THEN None ELSE table[i]]
  /\ UNCHANGED <<legacy, toggling>>

\* update_settings, on the event loop, writes the settings ...
SaveSettings(enabled) ==
  /\ Begin(Loop, "first", {"nas"})
  /\ legacy' = enabled
  /\ UNCHANGED <<table, toggling>>

\* ... and then the first profile by name, or a new one.
SaveFirstProfile(w) ==
  /\ pc[w] = "first"
  /\ IF NoProfileIn(table)
       THEN \E p \in Profiles :
              table' = [table EXCEPT ![p] = [enabled |-> legacy, time |-> LegacyTime]]
       ELSE \E p \in Profiles :
              /\ table[p] # None /\ \A q \in Profiles : table[q] # None => p <= q
              /\ table' = [table EXCEPT ![p].enabled = legacy]
  /\ pc' = [pc EXCEPT ![w] = "reload"]
  /\ UNCHANGED <<legacy, jobs, todo, toggling, removing, adding, requests, historyVars>>

-----------------------------------------------------------------------------
(* reload_schedules, and reload_nas_monitor after it *)

Reloading(w) == IF "schedule" \in todo[w] THEN "schedule" ELSE "nas"

\* Seeded fault: every id is taken to have a job.
GetAllJobs(w) ==
  /\ pc[w] = "reload"
  /\ removing' = [removing EXCEPT ![w] =
       {[time |-> jobs[i], id |-> i] : i \in {j \in JobIds : KindOf(j) = Reloading(w)}}]
  /\ pc' = [pc EXCEPT ![w] = "remove"]
  /\ UNCHANGED <<tableVars, jobs, todo, toggling, adding, requests, historyVars>>

GetJobs(w) ==
  /\ pc[w] = "reload"
  /\ removing' = [removing EXCEPT ![w] = {[time |-> jobs[i], id |-> i] : i \in Scheduled(Reloading(w))}]
  /\ pc' = [pc EXCEPT ![w] = "remove"]
  /\ UNCHANGED <<tableVars, jobs, todo, toggling, adding, requests, historyVars>>

\* get_jobs sorts by next run time.
Earlier(j, k) == j.time < k.time \/ (j.time = k.time /\ j.id <= k.id)

RemoveJob(w, j) ==
  /\ pc[w] = "remove"
  /\ j \in removing[w] /\ \A k \in removing[w] : Earlier(j, k)
  /\ jobs[j.id] # None
  /\ jobs' = [jobs EXCEPT ![j.id] = None]
  /\ removing' = [removing EXCEPT ![w] = @ \ {j}]
  /\ UNCHANGED <<tableVars, pc, todo, toggling, adding, requests, historyVars>>

\* remove_job raises JobLookupError: the request fails where it is, with the reload
\* that was to follow.
RemoveFails(w, j) ==
  /\ pc[w] = "remove"
  /\ j \in removing[w] /\ \A k \in removing[w] : Earlier(j, k)
  /\ jobs[j.id] = None
  /\ removing' = [removing EXCEPT ![w] = {}]
  /\ todo' = [todo EXCEPT ![w] = {}]
  /\ pc' = [pc EXCEPT ![w] = "idle"]
  /\ trusted' = trusted \ kinds[w]
  /\ kinds' = [kinds EXCEPT ![w] = {}]
  /\ alone' = [alone EXCEPT ![w] = {}]
  /\ UNCHANGED <<tableVars, jobs, toggling, adding, requests>>

Listed(w, rows) ==
  {[id |-> i, time |-> table[i].time] : i \in {j \in rows : KindOf(j) = Reloading(w)}}

\* Seeded fault: the disabled rows are added as well.
ListAll(w) ==
  /\ pc[w] = "remove" /\ removing[w] = {}
  /\ adding' = [adding EXCEPT ![w] = Listed(w, {i \in Ids : table[i] # None})]
  /\ pc' = [pc EXCEPT ![w] = IF Reloading(w) = "nas" /\ NoProfileIn(table) THEN "legacy" ELSE "add"]
  /\ UNCHANGED <<tableVars, jobs, todo, toggling, removing, requests, historyVars>>

\* list_enabled_schedules, or list_profiles without the disabled ones.
ListEnabled(w) ==
  /\ pc[w] = "remove" /\ removing[w] = {}
  /\ adding' = [adding EXCEPT ![w] = Listed(w, EnabledIn(table))]
  /\ pc' = [pc EXCEPT ![w] = IF Reloading(w) = "nas" /\ NoProfileIn(table) THEN "legacy" ELSE "add"]
  /\ UNCHANGED <<tableVars, jobs, todo, toggling, removing, requests, historyVars>>

\* There was no profile: current_status looks again, and takes the settings if
\* there is still none.
ReadLegacy(w) ==
  /\ pc[w] = "legacy"
  /\ LET found == {[id |-> LegacyId, time |-> table[p].time] :
                     p \in {q \in Profiles \cap EnabledIn(table) : \A r \in Profiles : table[r] # None => q <= r}}
     IN  adding' = [adding EXCEPT ![w] =
           IF ~ NoProfileIn(table) THEN found
           ELSE IF legacy THEN {[id |-> LegacyId, time |-> LegacyTime]} ELSE {}]
  /\ pc' = [pc EXCEPT ![w] = "add"]
  /\ UNCHANGED <<tableVars, jobs, todo, toggling, removing, requests, historyVars>>

\* replace_existing: a job of that id is replaced.
AddJob(w, row) ==
  /\ pc[w] = "add"
  /\ row \in adding[w] /\ \A r \in adding[w] : row.id <= r.id
  /\ jobs' = [jobs EXCEPT ![row.id] = row.time]
  /\ adding' = [adding EXCEPT ![w] = @ \ {row}]
  /\ UNCHANGED <<tableVars, pc, todo, toggling, removing, requests, historyVars>>

\* The next reload of the request, or its answer.
EndReload(w) ==
  /\ pc[w] = "add" /\ adding[w] = {}
  /\ todo' = [todo EXCEPT ![w] = @ \ {Reloading(w)}]
  /\ IF todo'[w] = {}
       THEN /\ pc' = [pc EXCEPT ![w] = "idle"]
            /\ trusted' = (trusted \ kinds[w]) \cup alone[w]
            /\ kinds' = [kinds EXCEPT ![w] = {}]
            /\ alone' = [alone EXCEPT ![w] = {}]
       ELSE pc' = [pc EXCEPT ![w] = "reload"] /\ UNCHANGED historyVars
  /\ UNCHANGED <<tableVars, jobs, toggling, removing, adding, requests>>

Reload(w) ==
  \/ GetJobs(w) \/ ListEnabled(w) \/ ReadLegacy(w) \/ EndReload(w)
  \/ \E j \in removing[w] : RemoveJob(w, j) \/ RemoveFails(w, j)
  \/ \E row \in adding[w] : AddJob(w, row)

Serve(w) == WriteToggle(w) \/ SaveFirstProfile(w) \/ Reload(w)

\* The job store is in memory; start_scheduler builds it anew.
Restart ==
  /\ Busy # {}
  /\ jobs' = JobsFor(table, legacy)
  /\ pc' = [w \in Workers |-> "idle"]
  /\ todo' = [w \in Workers |-> {}]
  /\ toggling' = [w \in Workers |-> None]
  /\ removing' = [w \in Workers |-> {}]
  /\ adding' = [w \in Workers |-> {}]
  /\ kinds' = [w \in Workers |-> {}]
  /\ alone' = [w \in Workers |-> {}]
  /\ trusted' = Kinds
  /\ UNCHANGED <<tableVars, requests>>

NoMoreRequests == requests = MaxRequests /\ Busy = {} /\ UNCHANGED vars

Next ==
  \/ \E i \in Ids, row \in Rows : SaveRow(i, row)
  \/ Import
  \/ \E enabled \in BOOLEAN : SaveSettings(enabled)
  \/ \E w \in Pool, s \in Schedules : ReadToggle(w, s)
  \/ \E w \in Pool, gone \in SUBSET Schedules : DeleteRows(w, "schedule", gone)
  \/ \E w \in Pool, p \in Profiles : DeleteRows(w, "nas", {p})
  \/ \E w \in Workers : Serve(w)
  \/ Restart \/ NoMoreRequests

Spec == Init /\ [][Next]_vars

-----------------------------------------------------------------------------
(* Properties *)

TypeOK ==
  /\ table \in [Ids -> {None} \cup Rows] /\ legacy \in BOOLEAN
  /\ jobs \in [JobIds -> Times \cup {None}]
  /\ pc \in [Workers -> {"idle", "toggle", "first", "reload", "remove", "legacy", "add"}]
  /\ toggling \in [Workers -> Toggles \cup {None}]
  /\ \A w \in Workers :
       /\ removing[w] \cup adding[w] \subseteq [id : JobIds, time : Times]
       /\ todo[w] \subseteq kinds[w] /\ alone[w] \subseteq kinds[w] /\ kinds[w] \subseteq Kinds
       /\ pc[w] = "idle" <=> todo[w] = {}
       /\ pc[w] = "idle" => kinds[w] = {}
  /\ requests \in 0 .. MaxRequests /\ trusted \subseteq Kinds

\* README.md:15, "Schedules for containers or groups, daily or selected weekdays":
\* whenever no request is being served, every enabled schedule has a job.
EnabledSchedulesHaveJobs == Busy = {} => \A s \in Schedules \cap EnabledIn(table) : jobs[s] # None

\* What a reload does achieve: one that no other request of its kind overlaps
\* does not fail in the middle, and repairs whatever an earlier one has left, so
\* that the jobs of the kind match the table until two requests of that kind
\* overlap again.
LoneReloadHeals ==
  /\ \A w \in Workers : pc[w] = "remove" /\ Reloading(w) \in alone[w] =>
       \A j \in removing[w] : jobs[j.id] # None
  /\ \A k \in trusted : BusyWith(k) = {} =>
       \A i \in JobIds : KindOf(i) = k => jobs[i] = JobsFor(table, legacy)[i]
=============================================================================
