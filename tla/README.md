# Verification of docker-scheduler-ui

TLA+ models of docker-scheduler-ui: its runs, its scheduler, its NAS automation,
its database and its configuration, with the TLC runs that check them on small
instances and TLAPS proofs for instances of every size. Paths without a prefix
are relative to `src/app/`; `PROJECT.json` maps every definition to the lines it
models, lists the hazards of the code, the runs with the seeded faults that show
each property bites, and the disagreements found between code and documentation.

## Inventory

One process: FastAPI handlers (synchronous ones in a thread pool, `async` ones
one after the other on the event loop), APScheduler's thread pool, one daemon
thread for each background run, and one SQLite database that each call opens and
commits on its own. No lock spans two calls, so the unit of interleaving is the
database call, the Docker call or the APScheduler call.

| Component | State | Operations | What makes it correct |
|---|---|---|---|
| Action engine (`action_service.py`, rows in `database.py`) | `action_runs` (status, cancel_requested, source), the threads | request a run of a container, group or schedule; search for conflicts; skip, or cancel and wait; execute; cancel; finish | no two runs act on one container; runs that share nothing do not hinder each other; every run ends; a row tells what happened |
| Group execution (`_execute_group_steps`) | position, failures, `action_run_steps` | act, wait for health, delay, stop on failure or cancel | order; the next container only after the one before is settled; a container left alone for a cause only |
| Schedule and NAS jobs (`scheduler_service.py`, the routes) | `schedules`, `nas_profiles`, APScheduler's job store | save, toggle, delete, settings, import, each followed by a rebuild | the jobs are those of the enabled rows |
| Calendar and schedule runs (`get_upcoming_occurrences`, `run_schedule`) | the clock, the jobs' next run times, `last_run_at` | show the agenda; fire, run, mark | the agenda is exact and comes true; one run for an occurrence |
| NAS monitor (`run_nas_monitor`) | `last_automation_ready`, `last_ready` | a tick: check, notify, start or stop groups with retries, record | a transition is reacted to, and recorded after the reaction |
| Webhooks (`notification_service.py`) | `webhooks` | deliver with two retries | each webhook is told or reported; a failing one hinders nothing else |
| NAS gate, Wake-on-LAN (`nas_service.py`) | the profile, the deadline | `require_ready`, `check_status`, `wake` | ready only on the word of the last check; ends by its deadline; a cancelled run does not act after it |
| Schema and migrations (`init_db`) | `schema_migrations`, the tables, `backups/` | back up, migrate, record the version | a stop anywhere leaves something the next start completes |
| Export and import (`config_service.py`) | all configuration tables | read table by table; replace everything in one transaction | what refers to what survives |
| Groups, forms and pages (`web.py`, `routes/groups_schedules.py`) | `groups`, `group_containers`, `schedules` | create, edit, delete, show (which writes missing names) | references hold; a page changes no target; a form offers what the group has |
| Docker adapter (`docker_ops.py`) | none | list, look up, act, wait for health | errors become `DockerOperationError` |
| Retention (`compact_old_action_runs`) | `action_runs`, `action_history` | move old rows daily | rows of live runs stay |
| Authentication, version | none shared | answer one request | |

How they interact: handlers and scheduler jobs call `start_*_run`; a run's
thread reads groups and schedules, which handlers edit meanwhile; runs meet only
through `action_runs`. The NAS monitor starts group runs and waits for each; a
run waits behind the gate. Handlers write a table and then rebuild the jobs from
it. An import replaces the rows under all of them; a restart ends every thread
and keeps the database, which the next start migrates.

What is hard, and therefore modelled: two runs that search at the same time,
cancellations that cross, configuration edited under a live run, a deadline that
races the answer, rows lost by import, retention or restart, lookups, actions,
deliveries and removals that fail one by one, a job store rebuilt by two requests
at once or just when a job is due, a tick that crashes between acting and
recording, a start stopped between two statements, an export torn by a form, and
ids that are given again.

## Modules

### ActionEngine

All runs, up to `MaxRuns`. A run `r` is the id of its row; `status`, `cancel` and
`src` are the columns of the row, the other functions of `r` are local variables
of its thread. `pc` walks through the calls in the order of the code:

    idle -> requested -> [load] -> list -> examine* -> gate/step
                                   |-> skipped
                                   `-> cancel* -> await -> list ... (15 s)
    gate -> step -> acting -> step ... -> finish -> done

- `Request`, `CreateRow`, `LoadGroup`: `start_container_run`, `start_group_run`,
  `start_schedule_run`. The group is read before the row is inserted, except that
  a schedule run reads its group in the thread.
- `List`, `Follow`, `Examine` and `ExamineGroup` are `_find_conflicting_runs` with
  `_run_target_refs`: one read of the rows, then one row after the other. The row of
  a schedule of a group takes two reads: `Follow` reads the schedule and keeps the
  group it names in `via`, `ExamineGroup` reads that group, and anybody may edit
  either in between; `Examine` is a row that takes one read at most. `Compare` looks
  the refs up in Docker. `Aliases` is `_target_aliases`: refs are names or ids, and
  those of one container meet only when Docker resolves them.
- `Refuse`, `StartCancelling`, `RequestCancel`, `KeepWaiting`, `DeadlinePasses`,
  `GiveUp`, `Admit` are `_apply_conflict_policy`.
- `BeginStep` to `FinishRun` are the execution. The steps are taken in any order
  here; `GroupExecution` has the order.
- `Disturbances` says which of the rest may happen: cancellation by a user,
  edits, restart, compaction, import, Docker lookups that fail, a search that
  raises.

`get_group` is one step: its two statements (the group, then its containers) read
what one read at either moment does, but for a group deleted between them, which
reads as empty. To a search that is the same; a run started that way would fail for
want of containers instead of being refused, and acts on nothing either way.

Kept apart by choice: a step of a group is one Docker call, and the NAS gate
answers either way. `GroupExecution` and `NasGate` are those two in detail, and each
is shown to implement what this module makes of it (`ImplementsRun`,
`ImplementsGate`).

`astray` is a history variable: the runs that, while searching or executing, had
a row that did not describe them (`Described`): gone, not running, no longer among
the rows a search lists, of a schedule with another target by now, or with a target
that no longer has all their containers. It changes nothing; it states the
condition under which the protocol keeps its promise.

### ExclusiveControl

The abstract specification: an agent acquires a set of items in one step while
nobody holds one of them, leaves for good, and any number may leave at once.
`ActionEngine` implements it under `Holds` and `Gone`: a run holds its containers
from its admission until it finishes, dies or goes astray.

### GroupExecution

One admitted group run, call by call, with Docker, the health checks and the user
as an environment. Histories `acted`, `late` and `seen` record the containers
acted on, the actions begun after the cancel request, and what each wait met.
`Engine` is one admitted run of `ActionEngine` read off this state: `Place`, `Begun`,
`Failed` and `Result` are its `pc`, `did`, `fault` and `result`. What no run of the
engine knows of (positions, health waits, delays, rows of steps) is a stutter there.

### ScheduleJobs

`reload_schedules` and `reload_nas_monitor` in each of several concurrent
requests, with the write that precedes them; an import does both, a restart
builds the jobs anew. `Loop` is the event loop, which serves the `async` handlers
one at a time; `Pool` are the threads of the others. `alone` and `trusted` record
whether another request over the same jobs has overlapped. The toggle reads and
writes in two steps, and so do `update_settings` and the look at the legacy
settings, as the code does. `remove_job` of a job that is gone ends the request,
before the second rebuild of an import.

### Calendar

The triggers, `get_upcoming_occurrences` and `run_schedule` on a clock of small
days and weeks. `Submit`, `Misfire` and `InTime` are APScheduler as it is
configured here: `coalesce`, `max_instances=1` and the grace time; the clock does
not pass an instant that is due unless the host sleeps, but the pool may be late
by any time. `ran`, `viewed` and `excused` record what has run, when the agenda
was looked at, and what APScheduler has given up since.

### NasMonitor and Deliveries

One profile's tick against a NAS that comes and goes, a user who edits, disables
and deletes the profile, imports and restarts. A group's run fails or not;
`_run_nas_group_actions` retries it. `served` and `failures` are histories of the
tick: the groups whose run did not fail, and how often the others have. The flags of
the groups are constants, and the legacy single-NAS settings are taken as disabled. `Deliveries` is
`send_event` with `_post`, and `NasMonitor` extends it: the tick lists the
webhooks, then each attempt is a step that is received or not and answered or
not; `raising` says whether a webhook raises what `_post` does not catch, which
`WebhookChanges` may begin and end at any time.

### NasGate

`require_ready` with `check_status` and `wake`, one step for each read of the
profile, ping, packet, sleep and look at the clock, under its two callers: a run,
which looks at `cancel_requested` only after it, and the page that starts all
groups one after the other. Profiles and settings are edited in between; a
profile that is gone falls back to the legacy settings. `Engine` is the run behind
the gate as `ActionEngine` has it; all calls up to the answer stutter there, and the
answer is `NasReady` or `NasNotReady`.

### Upgrade and Database

`Upgrade` is what `init_db` promises: one version at a time, never down, and the
NAS of an older release becomes a profile in the very step that reaches the last
version. `Database` is the code: the two-part copy of the file, the scripts whose
statements commit one by one, the profile, its links and the version in one
transaction, the write-ahead log (`main` is what the file holds, `db` what is
committed), the import with its copy and rollback - and a stop anywhere.

### Configuration

Groups with their rows, and one schedule, as forms, pages, export and import
treat them. Groups and rows have the ids SQLite gives (`AUTOINCREMENT`, moved on
by restored rows), a container has a name and an id that may change. `Selected`,
`Missing` and `Checked` are the form of a group as `web.py` fills it; the page
reads Docker, then the rows, then writes one name at a time; the export reads
three tables one after the other. Histories tell each group ever created
(`groups` holds that number), what the open forms offer (`shown`; `old` marks the
forms that an import or a new installation has overtaken, which may still be sent),
and what tore the backups that were restored (`tornIn`).

## Runs

| Run | Question | Bounds |
|---|---|---|
| `exclusion` | do two runs keep apart while users edit and cancel, searches raise and the process restarts? | 2 runs, 2 containers, one of them with two refs, 1 group, 1 schedule of the group or of a container, which users edit, retarget and delete at any step |
| `rows_tell` | does every row end and tell the truth, and is a run hindered only by a common container, while rows are compacted or imported away and lookups fail? | 2 runs, two containers and a group |
| `group_steps` | order, settling, cancellation, cause of leaving and end of one group run; is it a run of `ActionEngine`? | 3 containers, delays NULL or 1, every policy |
| `jobs_heal` | what does a reload achieve under concurrency? | 3 requests, event loop and one thread, 2 schedules, 1 profile and the legacy job |
| `calendar` | is the agenda exact, does it come true, does an occurrence run once? | 2 schedules, days of 4 instants, weeks of 2 days, 10 instants, 2 changes |
| `nas_monitor` | is a transition recorded only after each group was served or failed all its attempts, a lasting one reacted to, each webhook told? | 3 groups, 5 attempts, 2 webhooks with 3 tries, 2 restarts or imports |
| `nas_gate` | what does "ready" rest on, does the gate end, is it the gate of `ActionEngine`? | 2 profiles and the legacy settings, 1 or 2 groups, 2 edits |
| `database` | can a start be stopped anywhere? | 2 versions of 3 statements, 2 stops, 3 writes or imports |
| `configuration` | what refers to what after edits, exports, restores and a new installation? | 3 writes or changes, 1 name, 2 ids, 4 group ids |

Two runs are enough for the exclusion: it is a statement about pairs, and the
proof below is for any number. They have no more rows than a search lists
(`ListLimit`), so the instance says nothing of rows beyond the limit; the proof
does. Three containers give a first, a middle and a last; two schedules give a job removed while another one stays. A day of four
instants and a week of two days have a time before and after each other's and a
weekday that is and one that is not. Two profiles give one that is deleted while
the other must not be asked in its place. Three changes after any initial state
give the shortest ways to an id that is given again (delete, save late, create)
and to a torn backup; a mixture of two backups takes four, and the proofs are for
any number.

Runs that are expected to find a violation check what the documentation says of
the program and what the code does not do:

| Run | What happens |
|---|---|
| `nobody_proceeds` | two conflicting runs that start together both skip (under cancel_and_start they cancel each other, with the same end) |
| `compete_after_edit` | after an edit or deletion of a running group a second run acts on its containers |
| `jobs_lost` | two requests rebuild the jobs at once; the second removes the job that the first has just added, then fails with `JobLookupError` before it adds any, and an enabled schedule is left without a job |

Each property of a passing run has a seeded fault: a definition placed before
the one it distorts, commented "Seeded fault", which the run then refutes.

### What the properties except

Stating what holds meant naming what does not. These are behaviours of the code
that the models have and the properties leave room for:

- A run whose row describes it no longer is seen by no search for certain: its group
  was edited, its schedule retargeted or deleted, its row taken away or pushed
  out of the listed ones. Because a schedule's row takes two reads
  (`action_service.py:97` and `:105`), this holds even if schedule and group have the
  run's containers at every moment: the schedule of a running group is read, it is
  retargeted to the container itself, its group is emptied and then read - and a
  second run acts on the container (`GuardedExclusion` excepts any change of the
  schedule's target).
- A row left 'running' by a restart stays so; a cancellation of it is recorded
  and never looked at (`action_service.py:23`).
- Under the error policy 'continue' a health wait that raises still ends the
  group (`action_service.py:204`, `LeftForCause`).
- A webhook that raises what `_post` does not catch (a connection closed without
  an answer, a URL without a scheme) ends the tick before the groups are acted on,
  at every tick again (`notification_service.py:65`, `ServedUnlessRaising`).
- A group whose run fails five times in a tick is given up: the transition is
  recorded without it and not retried (`scheduler_service.py:115-133`,
  `RecordedIsSettled`).
- The OSError of a magic packet that cannot be sent ends the page's request, and
  with it the groups that follow (`routes/nas_logs_settings.py:122`).
- `Path.exists` on a hung mount bounds nothing (`nas_service.py:165`); the gate's
  end assumes that it returns.
- The copy before a migration or import is of the file alone, without the
  write-ahead log a killed process has left (`database.py:62`).
- An export amid a form's write may not fit together, and an import restores it
  unchecked (`database.py:753`): a row without its group, or, when the write was
  another import, a schedule of another group (`SchedulesKeepTheirGroup`).
- A schedule saved for a group that was deleted
  meanwhile is kept without a target (`routes/groups_schedules.py:220`), and the
  form of a group that is gone is answered with "A group with this name already
  exists." (`routes/groups_schedules.py:116`).
- Such a schedule, restored on a new installation that has not given its group's id
  yet, comes to control the group that gets it (`SchedulesKeepTheirGroup`).
- A schedule form opened before an import or a new installation is accepted after
  it, with the id of the group it offered then
  (`routes/groups_schedules.py:205-225`): on a new installation group B gets id 1, a
  schedule form is opened for it, a backup in which A has id 1 is imported, the form
  is sent - and the schedule controls A (`SchedulesKeepTheirGroup`).
- A container that was saved into a group while it was missing, under its id, is
  not offered by the group's form once it is back: saving the form drops it
  (`web.py:161`, `UntouchedFormKeepsGroup`).

### Fairness

`ActionEngine`: weak fairness of each run's thread and of its clock. Threads are
scheduled, SQLite and Docker calls return or raise (the client has a timeout),
the 15 second deadline comes. Nothing is assumed of users. `GroupExecution`: weak
fairness of the thread only; delays and the health wait have timeouts, and a
container need not become healthy. `NasMonitor`: the interval job of an enabled
profile fires again and its tick goes on; the NAS may come and go as it likes.
`NasGate`: the gate's thread goes on and its deadline comes. `Database`: a start
goes on, and stops are finitely many. `ScheduleJobs`, `Calendar` and
`Configuration` state safety only.

## Proofs

`ActionEngineProofs` proves, for all values of the constants that satisfy the
assumptions of `ActionEngine`:

- `TypeCorrect`: `Spec => []TypeOK`.
- `AlwaysAware`: `Spec => []ConflictInv`.
- `Exclusion`: `Spec => []GuardedExclusion`.
- `Implements`: `Spec => ImplementsExclusiveControl`.

The last three assume `Complete`: Docker resolves every ref it is asked for.
Without it, a run by name and a run by id of one container do not meet. They hold
for any number of rows: one beyond the 1000 of `list_action_runs` describes its run
no longer (`Described`), and the theorems are about the others.

The argument. Exclusion alone is not inductive: nothing in it says why a run that
is about to be admitted has seen the one that executes. `OneIsAware` does. Of two
overlapping runs that search or execute, neither astray, one is aware of the
other: it still has the other's row to examine, has found it in conflict, waits
for it, or has yet to list. A run enters its search with its row inserted, so a
run that lists later meets it (a row that describes its run is listed), and whoever
examines the row finds a common alias, because the row describes the run
(`RowsDescribe`) and the searcher looks for all aliases of its own containers
(`SearchState`). Between the two reads of a schedule's row, being aware includes
that the group in `via` is the one the other run was started for: an edit of the
schedule after the first read, or before it, takes that run astray, and an edit of
the group before the second read does unless its containers are still there.
`Admit` requires that no conflict remains, which being aware contradicts; and two
executing runs cannot be aware of anything, so they do not overlap. `ConflictInv`
is the conjunction, checked by `exclusion` before it was proved.

The refinement follows: `Admit` is `Acquire`, everything that ends a run or takes
it astray is `Leave`, and the other steps stutter.

### The other components

The first paragraph below adds to the proofs of the action engine; each of the
other modules proves every invariant and action property that the run of its
component checks, from inductive invariants.

`ActionEngineProofs`, second part: what the rows record.
`Told` says of each place of a run what its row and deeds are up to the outcome
being chosen, and needs no more than the types: `RowsTellTheTruth` holds for every
disturbance there is. `Caused` follows the hits, the ids to cancel, the cancels
and the skips back to a run that `Meets` this one. That chain is broken by a user
who cancels and by an edit that changes what a row is over, so
`IndependentAreLeftAlone` assumes `Steady`: neither of these. An import may put any
configuration in the place of the old one, since it takes away every row it could
falsify; `Meets` says nothing of two rows that are gone.
`NobodyCompetes` is the promise of the documentation that `compete_after_edit`
refutes: under `Complete` and `Untouched` (no edit, no import, no compaction), and
with no more runs than a search lists, `NoCompetingRuns` holds, for any number of
runs, users who cancel, restarts and searches that raise. `Faithful` shows why: a row that stands resolves to the
containers its run was requested for, so nobody goes astray and `ConflictInv`
applies to every two runs.

`GroupExecutionProofs` (`ItemsAssumption`, `DelayAssumption`: a finite group with
an order, delays of the form's range). None of the six invariants is inductive:
that a step row explains the outcome needs the position the loop is at.
`RowsFollow` ties the rows, the failures and `acted` to `index` and `pc`;
`OutcomeFollows` says what a run that goes on has not met (no failure under
`stop`) and what ended one that is over; `SettledSoFar` keeps, for each position
left behind, what its wait met. Order, promptness and cause follow.
`LoopIsTheRun` (with `GroupAssumption`) is the refinement: the loop, from its
admission on, is an admitted run of `ActionEngine` with nothing else going on. The
cancel check and the delay are its place "step"; what lies between the check and
the end of the health wait is "acting", where the container counts as acted on
when Docker has answered; the outcome is chosen at "finish".

`ScheduleJobsProofs` (`IdAssumption`, `WorkerAssumption`, `RequestAssumption`).
`LoneReloadHeals` speaks of the end of a reload, so `Halfway` says how far a lone
one has come: what it has to remove are the jobs there are; what it has to add,
with the jobs there are, are those wanted. `LoneSoFar` has it for the reload in
progress and the finished result for the one before it in the request.
`AloneIsAlone` - nobody else is busy with a kind that counts as alone - keeps the
other workers out of it, since a request touches only rows and jobs of its own
kinds (`Frame`, `ServeIsLocal`). `TrustedMatch` carries the result on until two
requests of the kind overlap.

`NasMonitorProofs` (`GroupAssumption`, `WebhookAssumption`, the bounds).
`Tallied`: while a tick acts, each group its transition concerns is served, has
failed `MaxAttempts` times or is still to come, the first of them with the failures
its attempts tell; with nothing to come, all are settled, and the tally does not
change before the record.
`EachIsTold` is proved of `send_event` alone and lifted to the tick by
`SendsInSend`: outside `send_event` there is nothing to send.

`NasGateProofs` (`ProfileAssumption`, `RowAssumption`, `NoneAssumption`,
`QueueAssumption`). `Checked` remembers whom the last check asked, `UpSince` that
a NAS up and enabled at the deadline is still so until the last check is answered,
`ActsLast` that a run acts at the end only, `AnsweredSoFar` that the page has an
answer for exactly the groups before the present one.
`GateIsTheGate` maps the calls of one run's gate to the step `gate` of
`ActionEngine`: `Silent` - a gate that has not returned has not answered - makes
every call but the last a stutter, and the return is the engine's ready or not
ready. The page's gates have no run and stutter throughout.

`DatabaseProofs` (`VersionAssumption`, `BoundAssumption`, `NoneAssumption`).
`Ordered`: the recorded versions are `1 .. Current`, with their schema.
`Located` and `Pending` say what each place of `init_db` knows of the version and
what its transaction would commit; without them a commit could record a version
whose script was cut off. `CopiedFirst` has two cases: the copy of the original is
there, or nothing is changed yet. `UpgradesAsPromised` maps a commit to the
`Upgrade` step of its version and every other step to a write or a stutter.

`CalendarProofs` (`TimeAssumption`, `RowAssumption`, `NoneAssumption`). A trigger
fires once in any `DayLength * WeekLength` instants at least (`FiresWithin`, by
division), so the next fire time exists and nothing fires before it
(`NextFireIs`). `OccurrencesAre` then shows that the walk of
`get_upcoming_occurrences` is the set of the firings in the window: that set solves
the equation of the walk, and where two solutions differ in the window there would
be a last instant at which they do. `WellSetJobs` and `AllBehind` - a job is set to
the first firing from now on, all that was submitted or ran is behind it - survive
a rebuild between a submission and its run, which is what `OncePerOccurrence` is
about; `InHandInv` says that a schedule has one occurrence in hand at most and that
nothing later of it ran. `ViewInv` accounts for each firing since the agenda was
looked at.

`ConfigurationProofs` (`RefAssumption`, `SelectionAssumption`, `BoundAssumption`).
`Types` adds to `TypeOK` what makes rows rows: finite, with ids of their own, and
an id where there is no name; `GreatestExists` gives the finite sets of ids their
highest, which the restored sequences need. `RefInv` and `KeepInv` carry each
promise through the three reads of an export: what is read and not torn agrees
with what there is, and a group that is gone was given an id that is not given
again; of the forms, `KeepInv` speaks of those that are not `old`. `PageInv` says
that a row still to be named is as the page read it, or gone.

### Rankings

Liveness itself is out of the prover's reach. What its arguments rest on beside
fairness is proved: in each component something in the naturals goes down with
every step of the thread, has a bound made of the constants, and is not given back
by anybody else.

| Theorem | Goes down with | But for | Raised by |
|---|---|---|---|
| `RunsAreBounded` (`ActionEngineProofs`; finitely many refs) | each step of a run, and its deadline | polls before the deadline | the request of a run |
| `CallsAreBounded` (`GroupExecutionProofs`) | each call of the loop | | nothing |
| `GatesAreBounded` (`NasGateProofs`) | each step of a gate and its caller, and the deadline | polls before the deadline | nothing |
| `TicksAreBounded` (`NasMonitorProofs`) | each step of a tick | | the next tick |
| `StartsAreBounded` (`DatabaseProofs`) | each step of `init_db` | | a stop |

That the waits have deadlines is therefore all that keeps them from going on for
ever, and two runs that wait for each other are no exception. That a thread which
is not at its end can take a step is ENABLED, and left to the liveness properties
that the runs check.

### Only model-checked

- Liveness (`EveryRunEnds`, `RunEnds`, `ServedUnlessRaising`, `GateAnswers`,
  `StartCompletes`): fairness and ENABLED are out of the prover's reach, the
  rankings above are not.

## Plan

Done: all the modules above. What is left:

1. The composition of NasMonitor with the runs it starts, in ActionEngine's terms.
2. Several NAS profiles in NasMonitor, and its legacy settings.

## Not modelled

Authentication is a signed cookie and the checks of one request; the version
reads a variable. Labels, filters, colours and layout of the pages, the payload
of a webhook and its test button, logs and container statistics change nothing.
`run_group_action` of `docker_ops.py` is called by nothing. Of the validation of
a backup, what refuses it changes nothing and is left out.
