------------------------------ MODULE Calendar ------------------------------
(***************************************************************************)
(* The calendar of app/scheduler_service.py: the cron triggers of the      *)
(* schedules, the agenda that get_upcoming_occurrences draws from them,    *)
(* and run_schedule as APScheduler calls it.  Is what the agenda announces *)
(* what runs?  ScheduleJobs has the steps of reload_schedules, which is    *)
(* one step here.                                                          *)
(*                                                                         *)
(* Time is counted in half units: triggers fire at even instants, an odd   *)
(* one lies between two.  A job is processed after its instant, never at   *)
(* it: APScheduler wakes at the instant and looks at the clock again.      *)
(***************************************************************************)
EXTENDS Naturals

CONSTANTS
  Schedules,   \* ids of the schedules table
  Rows,        \* the rows a schedule may have
  DayLength,   \* instants of a day, even
  WeekLength,  \* days of a week
  Grace,       \* misfire_grace_time
  None,        \* no row, no job, no occurrence
  MaxTime,     \* bound: the last instant
  MaxChanges   \* bound: how often the table changes, the host sleeps or restarts

ASSUME TimeAssumption ==
  /\ {DayLength, WeekLength} \subseteq Nat \ {0} /\ DayLength % 2 = 0
  /\ Grace \in Nat /\ MaxTime \in Nat /\ MaxChanges \in Nat

\* weekdays = {} is the empty column: every day.
Triggers == [time : 0 .. DayLength - 1, weekdays : SUBSET (0 .. WeekLength - 1)]
ASSUME RowAssumption == Rows \subseteq [enabled : BOOLEAN, trigger : Triggers]
ASSUME NoneAssumption == None \notin Rows /\ None \notin Nat /\ None \notin [trigger : Triggers, next : Nat]

VARIABLES
  table,    \* the schedules table
  marked,   \* last_run_at: of the occurrence it tells about
  jobs,     \* the job store: trigger and next_run_time
  now,
  reloading, \* the table was written and the jobs not yet rebuilt
  pool,     \* what APScheduler's threads have in hand: schedule, occurrence, stage
  changes,
  ran,      \* history: the occurrences that have started a run
  viewed,   \* history: when the agenda was looked at, with nothing changed since
  excused   \* history: the occurrences since then that APScheduler gave up

vars == <<table, marked, jobs, now, reloading, pool, changes, ran, viewed, excused>>

Enabled == {s \in Schedules : table[s] # None /\ table[s].enabled}

-----------------------------------------------------------------------------
(* Triggers and the agenda *)

FiresAt(trigger, t) ==
  /\ t % DayLength = trigger.time
  /\ trigger.weekdays = {} \/ (t \div DayLength) % WeekLength \in trigger.weekdays

\* CronTrigger.get_next_fire_time: the first instant from a given one.
NextFire(trigger, from) ==
  LET Coming == {t \in from .. from + DayLength * WeekLength : FiresAt(trigger, t)}
  IN  CHOOSE t \in Coming : \A u \in Coming : t <= u

Horizon(days) == DayLength * (IF days < 1 THEN 1 ELSE days)

\* Seeded fault: the end of the window is left out.
OccurrencesBefore(s, start, days) ==
  LET Walk[t \in Nat] ==
        IF t >= start + Horizon(days) THEN {}
        ELSE {[at |-> t, id |-> s]} \cup Walk[NextFire(table[s].trigger, t + 1)]
  IN  Walk[NextFire(table[s].trigger, start)]

\* get_upcoming_occurrences for one schedule: from fire time to fire time.
OccurrencesOf(s, start, days) ==
  LET Walk[t \in Nat] ==
        IF t > start + Horizon(days) THEN {}
        ELSE {[at |-> t, id |-> s]} \cup Walk[NextFire(table[s].trigger, t + 1)]
  IN  Walk[NextFire(table[s].trigger, start)]

Agenda(start, days) == UNION {OccurrencesOf(s, start, days) : s \in Enabled}

-----------------------------------------------------------------------------
(* The job store and the clock *)

\* Seeded fault: the job fires daily, whatever its weekdays.
JobOfDaily(s) ==
  LET daily == [table[s].trigger EXCEPT !.weekdays = {}]
  IN  [trigger |-> daily, next |-> NextFire(daily, now)]

JobOf(s) == [trigger |-> table[s].trigger, next |-> NextFire(table[s].trigger, now)]

Rebuilt == [s \in Schedules |-> IF s \in Enabled THEN JobOf(s) ELSE None]

Init ==
  /\ table \in [Schedules -> Rows \cup {None}]
  /\ marked = [s \in Schedules |-> 0]
  /\ now = 1
  /\ jobs = Rebuilt
  /\ reloading = FALSE
  /\ pool = {}
  /\ changes = 0
  /\ ran = [s \in Schedules |-> {}]
  /\ viewed = None /\ excused = {}

IsDue(s) == jobs[s] # None /\ jobs[s].next < now

\* The scheduler's thread keeps up with the clock ...
Advance ==
  /\ now < MaxTime /\ \A s \in Schedules : ~ IsDue(s)
  /\ now' = now + 1
  /\ UNCHANGED <<table, marked, jobs, reloading, pool, changes, ran, viewed, excused>>

\* Something makes the agenda out of date.
Change ==
  /\ changes < MaxChanges
  /\ changes' = changes + 1
  /\ viewed' = None /\ excused' = {}

\* ... unless the host sleeps.
Sleep ==
  /\ Change
  /\ now' \in now + 2 .. MaxTime
  /\ UNCHANGED <<table, marked, jobs, reloading, pool, ran>>

LastDue(s) ==
  LET Passed == {t \in jobs[s].next .. now - 1 : FiresAt(jobs[s].trigger, t)}
  IN  CHOOSE t \in Passed : \A u \in Passed : u <= t

InHand(s) == {j \in pool : j.id = s}

GoOn(s) == jobs' = [jobs EXCEPT ![s].next = NextFire(jobs[s].trigger, LastDue(s) + 1)]

\* Seeded fault: each rebuild gives the job a new id, so that nothing is in hand
\* under it.
SubmitAnother(s) ==
  /\ IsDue(s)
  /\ pool' = pool \cup {[id |-> s, at |-> LastDue(s), stage |-> "submitted"]}
  /\ GoOn(s)
  /\ UNCHANGED <<table, marked, now, reloading, changes, ran, viewed, excused>>

\* coalesce: only the last of the occurrences that are due.  max_instances: none
\* while the pool has a job of that id in hand, rebuilt in between or not.
Submit(s) ==
  /\ IsDue(s)
  /\ IF InHand(s) = {}
       THEN /\ pool' = pool \cup {[id |-> s, at |-> LastDue(s), stage |-> "submitted"]}
            /\ UNCHANGED excused
       ELSE /\ excused' = excused \cup {[at |-> LastDue(s), id |-> s]}
            /\ UNCHANGED pool
  /\ GoOn(s)
  /\ UNCHANGED <<table, marked, now, reloading, changes, ran, viewed>>

-----------------------------------------------------------------------------
(* run_schedule, in the pool: whatever else runs there may delay it *)

Leave(j) == pool' = pool \ {j}
GoTo(j, stage) == pool' = (pool \ {j}) \cup {[j EXCEPT !.stage = stage]}

InTime(j) == now - j.at <= Grace

\* misfire_grace_time is looked at when the thread is there.
Misfire(j) ==
  /\ j.stage = "submitted" /\ ~ InTime(j)
  /\ Leave(j)
  /\ excused' = excused \cup {[at |-> j.at, id |-> j.id]}
  /\ UNCHANGED <<table, marked, jobs, now, reloading, changes, ran, viewed>>

\* The row is read again: gone or disabled, nothing happens.
StartNothing(j) ==
  /\ j.stage = "submitted" /\ InTime(j)
  /\ j.id \notin Enabled
  /\ Leave(j)
  /\ UNCHANGED <<table, marked, jobs, now, reloading, changes, ran, viewed, excused>>

StartRun(j) ==
  /\ j.stage = "submitted" /\ InTime(j)
  /\ j.id \in Enabled
  /\ GoTo(j, "running")
  /\ ran' = [ran EXCEPT ![j.id] = @ \cup {j.at}]
  /\ UNCHANGED <<table, marked, jobs, now, reloading, changes, viewed, excused>>

\* start_schedule_run returns or raises.
EndRun(j) ==
  /\ j.stage = "running"
  /\ GoTo(j, "ended")
  /\ UNCHANGED <<table, marked, jobs, now, reloading, changes, ran, viewed, excused>>

\* mark_schedule_run, with or without an error, of the row that has the id now.
MarkRun(j) ==
  /\ j.stage = "ended"
  /\ marked' = IF table[j.id] = None THEN marked ELSE [marked EXCEPT ![j.id] = j.at]
  /\ Leave(j)
  /\ UNCHANGED <<table, jobs, now, reloading, changes, ran, viewed, excused>>

-----------------------------------------------------------------------------
(* The pages *)

\* Seeded fault: an occurrence that has just passed counts as coming.
ReloadFromBefore ==
  /\ reloading
  /\ jobs' = [s \in Schedules |-> IF s \notin Enabled THEN None
       ELSE [trigger |-> table[s].trigger, next |-> NextFire(table[s].trigger, now - 1)]]
  /\ reloading' = FALSE
  /\ UNCHANGED <<table, marked, now, pool, changes, ran, viewed, excused>>

\* reload_schedules: every job's next run is counted from now, so that an
\* occurrence that is due and not yet submitted is lost.
Reload ==
  /\ reloading
  /\ jobs' = Rebuilt
  /\ reloading' = FALSE
  /\ UNCHANGED <<table, marked, now, pool, changes, ran, viewed, excused>>

Write(s, row) ==
  /\ ~ reloading
  /\ Change
  /\ table' = [table EXCEPT ![s] = row]
  /\ reloading' = TRUE
  /\ UNCHANGED <<jobs, now, pool, ran>>

\* update_schedule and set_schedule_enabled leave last_run_at alone; an id is
\* never used for another row.
SaveSchedule(s, row) == table[s] # None /\ Write(s, row) /\ UNCHANGED marked
DeleteSchedule(s) == table[s] # None /\ Write(s, None) /\ marked' = [marked EXCEPT ![s] = 0]

\* A backup brings rows back under their old ids, with what they say of last runs.
Import(s, row) == Write(s, row) /\ marked' = [marked EXCEPT ![s] = 0]

\* The page with the agenda.
View ==
  /\ ~ reloading /\ viewed = None /\ \A s \in Schedules : ~ IsDue(s)
  /\ viewed' = now /\ excused' = {}
  /\ UNCHANGED <<table, marked, jobs, now, reloading, pool, changes, ran>>

\* Threads end with the process; start_scheduler builds the jobs from now on.
Restart ==
  /\ Change
  /\ jobs' = Rebuilt
  /\ reloading' = FALSE
  /\ pool' = {}
  /\ UNCHANGED <<table, marked, now, ran>>

InPool(j) == Misfire(j) \/ StartNothing(j) \/ StartRun(j) \/ EndRun(j) \/ MarkRun(j)

TheEnd == now = MaxTime /\ UNCHANGED vars

Next ==
  \/ Advance \/ Sleep \/ Reload \/ View \/ Restart
  \/ \E s \in Schedules : Submit(s) \/ DeleteSchedule(s)
  \/ \E j \in pool : InPool(j)
  \/ \E s \in Schedules, row \in Rows : SaveSchedule(s, row) \/ Import(s, row)
  \/ TheEnd

Spec == Init /\ [][Next]_vars

-----------------------------------------------------------------------------
(* Properties *)

\* docs/BACKLOG.md:46, "true Today / next-seven-days Home agenda": the agenda is
\* what the triggers say of the window, both of its ends included, whatever the
\* moment it is asked for.
AgendaIsExact ==
  \A days \in 0 .. 2 :
    Agenda(now, days) = {o \in [at : now .. now + Horizon(days), id : Enabled] :
                           FiresAt(table[o.id].trigger, o.at)}

\* The agenda comes true: while the configuration stays as it was and the process
\* runs on, every occurrence it announced has started a run by the time its job
\* has moved on, unless APScheduler gave it up (the run before it was still in
\* progress, or the pool got to it too late), and nothing else has run.
AgendaComesTrue ==
  viewed # None =>
    LET Announced == {o \in Agenda(viewed, MaxTime) : o.at < jobs[o.id].next}
        Started == {o \in Agenda(viewed, MaxTime) : o.at \in ran[o.id]}
        InTheQueue == {o \in Agenda(viewed, MaxTime) : \E j \in InHand(o.id) : j.at = o.at /\ j.stage = "submitted"}
    IN  /\ Announced = Started \cup (excused \cap Announced) \cup InTheQueue
        /\ \A s \in Schedules : \A t \in ran[s] : t > viewed => [at |-> t, id |-> s] \in Started

\* No occurrence starts a second run, whatever is saved, imported or restarted.
OncePerOccurrence == [][\A j \in pool : StartRun(j) => j.at \notin ran[j.id]]_vars

\* What a schedule tells of its last run never falls back to an earlier one,
\* unless its row is deleted or replaced by an import.
MarksGoForward ==
  [][\A s \in Schedules : marked'[s] >= marked[s] \/ marked'[s] = 0]_vars
=============================================================================
