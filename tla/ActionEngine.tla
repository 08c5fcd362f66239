---------------------------- MODULE ActionEngine ----------------------------
(***************************************************************************)
(* app/action_service.py: every start, stop and restart - of a container,  *)
(* of a group, of a schedule, by hand or by a trigger - is a run with a    *)
(* row in action_runs and a thread that executes it.  The row is inserted  *)
(* first; the thread then looks for running rows that control one of its   *)
(* containers and proceeds, skips, or cancels them and waits.  No lock is  *)
(* held from one database call to the next, so the calls are the steps.    *)
(*                                                                         *)
(* Not detailed here: the order, the delays and the health waits of a      *)
(* group (GroupExecution).                                                 *)
(***************************************************************************)
EXTENDS Naturals, FiniteSets

CONSTANTS
  MaxRuns,          \* bound: how many runs are ever requested
  Containers,
  Refs,             \* what a row calls a container: its name or an id
  ContainerOf,      \* the container each ref denotes
  Groups, Schedules,
  GroupChoices,     \* bound: what a group may contain (NoGroup: no such row)
  ScheduleChoices,  \* bound: what a schedule may target (NoTarget: no such row)
  NoGroup, NoTarget,
  Requestable,      \* bound: the sources runs are requested for
  ListLimit,        \* the limit of list_action_runs (1000 in the code)
  Disturbances      \* what may go wrong, of DisturbanceKinds

DisturbanceKinds ==
  {"cancel", "edit", "restart", "compact", "restore", "lookup", "raise"}

ASSUME CountAssumption == MaxRuns \in Nat /\ ListLimit \in Nat
ASSUME RefAssumption == ContainerOf \in [Refs -> Containers]
\* A row's source_type column tells the three kinds of source apart.
ASSUME SourceAssumption ==
  /\ Refs \cap Groups = {} /\ Refs \cap Schedules = {} /\ Groups \cap Schedules = {}
  /\ NoTarget \notin Refs \cup Groups
  /\ \A S \in SUBSET Refs : S # NoGroup
ASSUME ChoiceAssumption ==
  /\ GroupChoices \subseteq {NoGroup} \cup SUBSET Refs
  /\ ScheduleChoices \subseteq Refs \cup Groups \cup {NoTarget}
  /\ Requestable \subseteq Refs \cup Groups \cup Schedules
ASSUME DisturbanceAssumption == Disturbances \subseteq DisturbanceKinds

Runs == 1 .. MaxRuns     \* a run is named by the id its row gets

VARIABLES
  groups, schedules,   \* the configuration tables
  status, cancel,      \* the rows of action_runs: status, cancel_requested
  src,                 \* source_id of each row
  pc,                  \* where each run's thread is
  policy, aim, plan,   \* what the thread read: conflict policy, target, refs
  wanted, todo, hits,  \* one search: own aliases, rows to examine, conflicts
  via,                 \* the group a schedule under examination was read to target
  cids, expired,       \* conflict_ids, and whether the 15 s deadline is over
  did, fault, result,  \* refs acted on; a step failed; the outcome to record
  astray               \* history: runs whose row once did not describe them

configVars == <<groups, schedules>>
rowVars == <<status, cancel, src>>
goalVars == <<policy, aim, plan>>
searchVars == <<wanted, todo, hits, via>>
waitVars == <<cids, expired>>
workVars == <<did, fault, result>>
core == <<configVars, rowVars, pc, goalVars, searchVars, waitVars, workVars>>
vars == <<core, astray>>

Sources == Refs \cup Groups \cup Schedules
Policies == {"skip", "cancel_and_start"}
Statuses == {"none", "running", "success", "failed", "skipped", "cancelled", "deleted"}
Searching == {"list", "examine", "follow", "cancel", "await"}
Control == {"gate", "step", "acting"}
Engaged == Searching \cup Control
Places == Engaged \cup {"idle", "requested", "load", "finish", "done", "dead"}

-----------------------------------------------------------------------------
(* Targets and conflicts *)

ContainersOf(S) == {ContainerOf[x] : x \in S}

TargetRefs(t) ==
  IF t \in Refs THEN {t}
  ELSE IF t \in Groups /\ groups[t] # NoGroup THEN groups[t] ELSE {}

Target(s) == IF s \in Schedules THEN schedules[s] ELSE s

\* What the row of a source stands for in today's configuration.
RunTargetRefs(s) == TargetRefs(Target(s))

\* Seeded fault: refs are compared as written, a name never meets an id.
AliasesAsWritten(S, resolved) == S

\* A container that Docker resolves adds its id, short id and name; one that
\* it does not resolve stands for itself only.
Aliases(S, resolved) ==
  S \cup {x \in Refs : ContainerOf[x] \in ContainersOf(S \cap resolved)}

Lookups(S) == IF "lookup" \in Disturbances THEN SUBSET S ELSE {S}

Rows == {q \in Runs : status[q] \notin {"none", "deleted"}}

Newer(q) == {p \in Rows : p > q}
Listed(q) == Cardinality(Newer(q)) < ListLimit

\* Seeded fault: one row too few is listed.
ListedRunsShort(r) ==
  {q \in Rows \ {r} : status[q] = "running" /\ Cardinality(Newer(q)) + 1 < ListLimit}

\* The newest ListLimit rows; those that are running, the searcher's excluded.
ListedRuns(r) == {q \in Rows \ {r} : status[q] = "running" /\ Listed(q)}

CancelSeen(r) == status[r] # "deleted" /\ cancel[r]

Overlap(r, s) == ContainersOf(plan[r]) \cap ContainersOf(plan[s]) # {}

\* The containers a run has to do with: those it acts on and those its row
\* stands for.
Footprint(r) == ContainersOf(plan[r] \cup RunTargetRefs(src[r]))

\* The row describes the run: it is there, running, among those that a search
\* lists; its schedule still has the target the run was started for, and that
\* still has every container the run is about to act on.
Described(r) ==
  /\ status[r] = "running" /\ Listed(r)
  /\ Target(src[r]) = aim[r]
  /\ ContainersOf(plan[r]) \subseteq ContainersOf(TargetRefs(aim[r]))

Goto(r, place) == pc' = [pc EXCEPT ![r] = place]

EndWith(r, outcome) ==
  /\ Goto(r, "finish")
  /\ result' = [result EXCEPT ![r] = outcome]
  /\ UNCHANGED <<did, fault>>

-----------------------------------------------------------------------------
(* One run: request, row, search for conflicts *)

\* start_*_run reads the group or the schedule ...
Request(r, s, p) ==
  /\ pc[r] = "idle"
  /\ s \in Refs => p = "skip"
  /\ s \in Groups => groups[s] # NoGroup
  /\ s \in Schedules => schedules[s] # NoTarget
  /\ Goto(r, "requested")
  /\ src' = [src EXCEPT ![r] = s]
  /\ policy' = [policy EXCEPT ![r] = p]
  /\ aim' = [aim EXCEPT ![r] = Target(s)]
  /\ plan' = [plan EXCEPT ![r] = IF s \in Schedules THEN {} ELSE TargetRefs(s)]
  /\ UNCHANGED <<configVars, status, cancel, searchVars, waitVars, workVars>>

\* ... and inserts the row; ids follow the order of insertion.
CreateRow(r) ==
  /\ pc[r] = "requested"
  /\ \A q \in Runs : q < r => status[q] # "none"
  /\ status' = [status EXCEPT ![r] = "running"]
  /\ Goto(r, IF src[r] \in Schedules THEN "load" ELSE "list")
  /\ UNCHANGED <<configVars, cancel, src, goalVars, searchVars, waitVars, workVars>>

\* A schedule run reads the group it targets in its thread.
LoadGroup(r) ==
  /\ pc[r] = "load"
  /\ ~ (aim[r] \in Groups /\ groups[aim[r]] = NoGroup)
  /\ plan' = [plan EXCEPT ![r] = TargetRefs(aim[r])]
  /\ Goto(r, "list")
  /\ UNCHANGED <<configVars, rowVars, policy, aim, searchVars, waitVars, workVars>>

GroupMissing(r) ==
  /\ pc[r] = "load"
  /\ aim[r] \in Groups /\ groups[aim[r]] = NoGroup
  /\ EndWith(r, "failed")
  /\ UNCHANGED <<configVars, rowVars, goalVars, searchVars, waitVars>>

\* Seeded fault: the polls do not look at the clock.
ListForEver(r) ==
  /\ pc[r] \in {"list", "await"}
  /\ \E resolved \in Lookups(plan[r]) :
       wanted' = [wanted EXCEPT ![r] = Aliases(plan[r], resolved)]
  /\ todo' = [todo EXCEPT ![r] = IF plan[r] = {} THEN {} ELSE ListedRuns(r)]
  /\ hits' = [hits EXCEPT ![r] = {}]
  /\ Goto(r, "examine")
  /\ UNCHANGED <<configVars, rowVars, goalVars, via, waitVars, workVars>>

\* _find_conflicting_runs, the first time or as the next poll.
List(r) ==
  /\ pc[r] = "list" \/ (pc[r] = "await" /\ ~ expired[r])
  /\ \E resolved \in Lookups(plan[r]) :
       wanted' = [wanted EXCEPT ![r] = Aliases(plan[r], resolved)]
  /\ todo' = [todo EXCEPT ![r] = IF plan[r] = {} THEN {} ELSE ListedRuns(r)]
  /\ hits' = [hits EXCEPT ![r] = {}]
  /\ Goto(r, "examine")
  /\ UNCHANGED <<configVars, rowVars, goalVars, via, waitVars, workVars>>

\* _find_conflicting_runs goes through the rows from the newest on.
Examines(r, q) == q \in todo[r] /\ \A p \in todo[r] : p <= q

\* The row is a schedule's, and its schedule is one of a group: the group is read
\* in a call of its own.
Follow(r, q) ==
  /\ pc[r] = "examine" /\ Examines(r, q)
  /\ src[q] \in Schedules /\ schedules[src[q]] \in Groups
  /\ via' = [via EXCEPT ![r] = schedules[src[q]]]
  /\ Goto(r, "follow")
  /\ UNCHANGED <<configVars, rowVars, goalVars, wanted, todo, hits, waitVars, workVars>>

\* Seeded fault: a container that Docker does not resolve matches everything.
CompareLoosely(r, q, refs) ==
  /\ \E resolved \in Lookups(refs) :
       hits' = [hits EXCEPT ![r] =
                  IF resolved = {} \/ wanted[r] \cap Aliases(refs, resolved) # {} THEN @ \cup {q} ELSE @]
  /\ todo' = [todo EXCEPT ![r] = @ \ {q}]
  /\ via' = [via EXCEPT ![r] = NoTarget]
  /\ Goto(r, "examine")
  /\ UNCHANGED <<configVars, rowVars, goalVars, wanted, waitVars, workVars>>

\* The row is done with: refs are what it was found to control.
Compare(r, q, refs) ==
  /\ \E resolved \in Lookups(refs) :
       hits' = [hits EXCEPT ![r] =
                  IF wanted[r] \cap Aliases(refs, resolved) # {} THEN @ \cup {q} ELSE @]
  /\ todo' = [todo EXCEPT ![r] = @ \ {q}]
  /\ via' = [via EXCEPT ![r] = NoTarget]
  /\ Goto(r, "examine")
  /\ UNCHANGED <<configVars, rowVars, goalVars, wanted, waitVars, workVars>>

\* The row of a container, a group, or a schedule of a container or of nothing: one
\* read at most.
Examine(r, q) ==
  /\ pc[r] = "examine" /\ Examines(r, q)
  /\ ~ (src[q] \in Schedules /\ schedules[src[q]] \in Groups)
  /\ Compare(r, q, RunTargetRefs(src[q]))

\* The second read of a schedule's row.
ExamineGroup(r, q) ==
  /\ pc[r] = "follow" /\ Examines(r, q)
  /\ Compare(r, q, TargetRefs(via[r]))

Searched(r) == pc[r] = "examine" /\ todo[r] = {}

\* The conflicts that count: all of them in the first search, then only those
\* that were asked to cancel.
Remaining(r) == IF cids[r] = {} THEN hits[r] ELSE hits[r] \cap cids[r]

Admit(r) ==
  /\ Searched(r) /\ Remaining(r) = {}
  /\ Goto(r, IF src[r] \in Refs THEN "step" ELSE "gate")
  /\ UNCHANGED <<configVars, rowVars, goalVars, searchVars, waitVars, workVars>>

Refuse(r) ==
  /\ Searched(r) /\ cids[r] = {} /\ hits[r] # {}
  /\ policy[r] = "skip"
  /\ EndWith(r, "skipped")
  /\ UNCHANGED <<configVars, rowVars, goalVars, searchVars, waitVars>>

StartCancelling(r) ==
  /\ Searched(r) /\ cids[r] = {} /\ hits[r] # {}
  /\ policy[r] = "cancel_and_start"
  /\ cids' = [cids EXCEPT ![r] = hits[r]]
  /\ todo' = [todo EXCEPT ![r] = hits[r]]
  /\ Goto(r, "cancel")
  /\ UNCHANGED <<configVars, rowVars, goalVars, wanted, hits, via, expired, workVars>>

\* UPDATE ... SET cancel_requested = 1 WHERE id = ? AND status = 'running'
RequestCancel(r, q) ==
  /\ pc[r] = "cancel"
  /\ Examines(r, q)
  /\ cancel' = [cancel EXCEPT ![q] = @ \/ status[q] = "running"]
  /\ todo' = [todo EXCEPT ![r] = @ \ {q}]
  /\ Goto(r, IF todo[r] = {q} THEN "await" ELSE "cancel")
  /\ UNCHANGED <<configVars, status, src, goalVars, wanted, hits, via, waitVars, workVars>>

KeepWaiting(r) ==
  /\ Searched(r) /\ cids[r] # {} /\ Remaining(r) # {}
  /\ Goto(r, "await")
  /\ UNCHANGED <<configVars, rowVars, goalVars, searchVars, waitVars, workVars>>

\* The clock: 15 seconds after the cancellations were requested.
DeadlinePasses(r) ==
  /\ cids[r] # {} /\ pc[r] \in {"await", "examine", "follow"} /\ ~ expired[r]
  /\ expired' = [expired EXCEPT ![r] = TRUE]
  /\ UNCHANGED <<configVars, rowVars, pc, goalVars, searchVars, cids, workVars>>

GiveUp(r) ==
  /\ pc[r] = "await" /\ expired[r]
  /\ EndWith(r, "skipped")
  /\ UNCHANGED <<configVars, rowVars, goalVars, searchVars, waitVars>>

\* The search runs outside _finish_execution: what it raises ends the thread
\* and leaves the row as it is.
SearchRaises(r) ==
  /\ "raise" \in Disturbances
  /\ pc[r] \in Searching
  /\ Goto(r, "dead")
  /\ UNCHANGED <<configVars, rowVars, goalVars, searchVars, waitVars, workVars>>

-----------------------------------------------------------------------------
(* One run: execution *)

NasReady(r) ==
  /\ pc[r] = "gate"
  /\ Goto(r, "step")
  /\ UNCHANGED <<configVars, rowVars, goalVars, searchVars, waitVars, workVars>>

NasNotReady(r) ==
  /\ pc[r] = "gate"
  /\ EndWith(r, "failed")
  /\ UNCHANGED <<configVars, rowVars, goalVars, searchVars, waitVars>>

\* The cancel check and the insertion of the step's row before each action;
\* a group with no container fails before the first check.
BeginStep(r, x) ==
  /\ pc[r] = "step" /\ x \in plan[r] \ did[r]
  /\ ~ CancelSeen(r) /\ status[r] # "deleted"
  /\ did' = [did EXCEPT ![r] = @ \cup {x}]
  /\ Goto(r, "acting")
  /\ UNCHANGED <<configVars, rowVars, goalVars, searchVars, waitVars, fault, result>>

StopForCancel(r) ==
  /\ pc[r] = "step" /\ plan[r] # {} /\ CancelSeen(r)
  /\ EndWith(r, "cancelled")
  /\ UNCHANGED <<configVars, rowVars, goalVars, searchVars, waitVars>>

\* No containers, or no row any more for the step's row to refer to.
StepImpossible(r) ==
  /\ pc[r] = "step"
  /\ plan[r] = {} \/ status[r] = "deleted"
  /\ EndWith(r, "failed")
  /\ UNCHANGED <<configVars, rowVars, goalVars, searchVars, waitVars>>

\* Seeded fault: the last step decides on its own.
EndStepForgetful(r, failed) ==
  /\ pc[r] = "acting"
  /\ fault' = [fault EXCEPT ![r] = @ \/ failed]
  /\ IF did[r] # plan[r]
       THEN Goto(r, "step") /\ UNCHANGED result
       ELSE /\ Goto(r, "finish")
            /\ result' = [result EXCEPT ![r] = IF failed THEN "failed" ELSE "success"]
  /\ UNCHANGED <<configVars, rowVars, goalVars, searchVars, waitVars, did>>

\* Docker has answered; under the error policy 'continue' the run goes on.
EndStep(r, failed) ==
  /\ pc[r] = "acting"
  /\ fault' = [fault EXCEPT ![r] = @ \/ failed]
  /\ IF did[r] # plan[r]
       THEN Goto(r, "step") /\ UNCHANGED result
       ELSE /\ Goto(r, "finish")
            /\ result' = [result EXCEPT ![r] = IF fault'[r] THEN "failed" ELSE "success"]
  /\ UNCHANGED <<configVars, rowVars, goalVars, searchVars, waitVars, did>>

\* The action failed under the policy 'stop', or the health wait after it did.
StepFails(r) ==
  /\ pc[r] = "acting"
  /\ EndWith(r, "failed")
  /\ UNCHANGED <<configVars, rowVars, goalVars, searchVars, waitVars>>

\* UPDATE action_runs SET status = ... WHERE id = ?
FinishRun(r) ==
  /\ pc[r] = "finish"
  /\ status' = [status EXCEPT ![r] = IF @ = "deleted" THEN @ ELSE result[r]]
  /\ Goto(r, "done")
  /\ UNCHANGED <<configVars, cancel, src, goalVars, searchVars, waitVars, workVars>>

RunStep(r) ==
  \/ CreateRow(r) \/ LoadGroup(r) \/ GroupMissing(r)
  \/ List(r) \/ Admit(r) \/ Refuse(r)
  \/ StartCancelling(r) \/ KeepWaiting(r) \/ GiveUp(r)
  \/ \E q \in Runs : Follow(r, q) \/ Examine(r, q) \/ ExamineGroup(r, q) \/ RequestCancel(r, q)
  \/ NasReady(r) \/ NasNotReady(r)
  \/ \E x \in Refs : BeginStep(r, x)
  \/ StopForCancel(r) \/ StepImpossible(r)
  \/ \E failed \in BOOLEAN : EndStep(r, failed)
  \/ StepFails(r) \/ FinishRun(r)

-----------------------------------------------------------------------------
(* The users, the retention job and the process *)

threadVars == <<pc, goalVars, searchVars, waitVars, workVars>>

CancelRun(r) ==
  /\ "cancel" \in Disturbances
  /\ status[r] = "running" /\ ~ cancel[r]
  /\ cancel' = [cancel EXCEPT ![r] = TRUE]
  /\ UNCHANGED <<configVars, status, src, threadVars>>

UpdateGroup(g, S) ==
  /\ "edit" \in Disturbances
  /\ groups[g] # NoGroup /\ S # NoGroup
  /\ groups' = [groups EXCEPT ![g] = S]
  /\ UNCHANGED <<schedules, rowVars, threadVars>>

\* delete_group deletes the schedules that target it as well.
DeleteGroup(g) ==
  /\ "edit" \in Disturbances
  /\ groups[g] # NoGroup
  /\ groups' = [groups EXCEPT ![g] = NoGroup]
  /\ schedules' = [s \in Schedules |-> IF schedules[s] = g THEN NoTarget ELSE schedules[s]]
  /\ UNCHANGED <<rowVars, threadVars>>

\* update_schedule, or delete_schedule when t is NoTarget.
UpdateSchedule(s, t) ==
  /\ "edit" \in Disturbances
  /\ schedules[s] # NoTarget
  /\ schedules' = [schedules EXCEPT ![s] = t]
  /\ UNCHANGED <<groups, rowVars, threadVars>>

\* import_configuration: one transaction deletes every row and replaces the
\* configuration; the threads go on.
Restore ==
  /\ "restore" \in Disturbances
  /\ groups' \in [Groups -> GroupChoices]
  /\ schedules' \in [Schedules -> ScheduleChoices]
  /\ status' = [r \in Runs |-> IF r \in Rows THEN "deleted" ELSE status[r]]
  /\ UNCHANGED <<cancel, src, threadVars>>

\* compact_old_action_runs moves the rows older than a cutoff, whatever their
\* status.
Compact(k) ==
  /\ "compact" \in Disturbances
  /\ status' = [r \in Runs |-> IF r \in Rows /\ r <= k THEN "deleted" ELSE status[r]]
  /\ UNCHANGED <<configVars, cancel, src, threadVars>>

\* Seeded fault: the next start resumes what was running, without a search.
RestartResumes ==
  /\ "restart" \in Disturbances
  /\ pc' = [r \in Runs |-> IF pc[r] \in Engaged THEN "step"
                           ELSE IF pc[r] = "done" THEN "done" ELSE "dead"]
  /\ UNCHANGED <<configVars, rowVars, goalVars, searchVars, waitVars, workVars>>

\* The threads are daemons: they end with the process, whose next start
\* changes no row.
Restart ==
  /\ "restart" \in Disturbances
  /\ pc' = [r \in Runs |-> IF pc[r] \in {"idle", "requested"} THEN "idle"
                           ELSE IF pc[r] = "done" THEN "done" ELSE "dead"]
  /\ UNCHANGED <<configVars, rowVars, goalVars, searchVars, waitVars, workVars>>

\* Every run of the bound is over; without it the end would be a deadlock.
Quiet ==
  /\ \A r \in Runs : pc[r] \in {"done", "dead"}
  /\ UNCHANGED core

Init ==
  /\ groups \in [Groups -> GroupChoices]
  /\ schedules \in [Schedules -> ScheduleChoices]
  /\ status = [r \in Runs |-> "none"]
  /\ cancel = [r \in Runs |-> FALSE]
  /\ src = [r \in Runs |-> NoTarget]
  /\ pc = [r \in Runs |-> "idle"]
  /\ policy = [r \in Runs |-> "skip"]
  /\ aim = [r \in Runs |-> NoTarget]
  /\ plan = [r \in Runs |-> {}]
  /\ wanted = [r \in Runs |-> {}]
  /\ todo = [r \in Runs |-> {}]
  /\ hits = [r \in Runs |-> {}]
  /\ via = [r \in Runs |-> NoTarget]
  /\ cids = [r \in Runs |-> {}]
  /\ expired = [r \in Runs |-> FALSE]
  /\ did = [r \in Runs |-> {}]
  /\ fault = [r \in Runs |-> FALSE]
  /\ result = [r \in Runs |-> "none"]
  /\ astray = {}

Step ==
  \/ \E r \in Runs :
       \/ \E s \in Requestable, p \in Policies : Request(r, s, p)
       \/ RunStep(r) \/ DeadlinePasses(r) \/ SearchRaises(r) \/ CancelRun(r)
  \/ \E g \in Groups : DeleteGroup(g) \/ \E S \in GroupChoices : UpdateGroup(g, S)
  \/ \E s \in Schedules, t \in ScheduleChoices : UpdateSchedule(s, t)
  \/ \E k \in Runs : Compact(k)
  \/ Restore \/ Restart \/ Quiet

\* The history variable follows every step.
Next ==
  /\ Step
  /\ astray' = astray \cup {r \in Runs : (pc[r] \in Engaged /\ ~ Described(r))'}

Spec == Init /\ [][Next]_vars

\* Threads are scheduled, database calls and Docker calls return (the Docker
\* client times out), the clock advances.  Nobody has to request anything.
Fairness == \A r \in Runs : WF_core(RunStep(r)) /\ WF_core(DeadlinePasses(r))

FairSpec == Spec /\ Fairness

-----------------------------------------------------------------------------
(* Properties *)

ConfigTypeOK ==
  /\ groups \in [Groups -> {NoGroup} \cup SUBSET Refs]
  /\ schedules \in [Schedules -> Refs \cup Groups \cup {NoTarget}]

RowTypeOK ==
  /\ status \in [Runs -> Statuses]
  /\ cancel \in [Runs -> BOOLEAN]
  /\ src \in [Runs -> Sources \cup {NoTarget}]

ThreadTypeOK ==
  /\ pc \in [Runs -> Places]
  /\ policy \in [Runs -> Policies]
  /\ aim \in [Runs -> Refs \cup Groups \cup {NoTarget}]
  /\ plan \in [Runs -> SUBSET Refs]
  /\ wanted \in [Runs -> SUBSET Refs]
  /\ todo \in [Runs -> SUBSET Runs]
  /\ hits \in [Runs -> SUBSET Runs]
  /\ via \in [Runs -> Groups \cup {NoTarget}]
  /\ cids \in [Runs -> SUBSET Runs]
  /\ expired \in [Runs -> BOOLEAN]
  /\ did \in [Runs -> SUBSET Refs]
  /\ fault \in [Runs -> BOOLEAN]
  /\ result \in [Runs -> Statuses]

TypeOK == ConfigTypeOK /\ RowTypeOK /\ ThreadTypeOK /\ astray \in SUBSET Runs

InControl(r) == pc[r] \in Control

\* docs/ARCHITECTURE.md:29: "prevent competing actions against the same
\* container": two runs never execute at once over a common container.
NoCompetingRuns ==
  \A r, s \in Runs : r # s /\ InControl(r) /\ InControl(s) => ~ Overlap(r, s)

\* What the protocol of _apply_conflict_policy does guarantee: the same, of two
\* runs whose rows have described them ever since they began to search.  A run
\* whose schedule is given another target is excepted, since a search that has read
\* the new target may read it as empty.
GuardedExclusion ==
  \A r, s \in Runs \ astray :
    r # s /\ InControl(r) /\ InControl(s) => ~ Overlap(r, s)

\* r has seen s, or is sure to see it, before r can be admitted.
Aware(r, s) ==
  /\ pc[r] \in Searching
  /\ s \in cids[r] \/ (cids[r] = {} /\ pc[r] \in {"list", "examine", "follow"})
  /\ pc[r] \in {"examine", "follow"} => s \in todo[r] \cup hits[r]
  /\ pc[r] = "follow" /\ Examines(r, s) => via[r] = aim[s]

\* Of two overlapping runs that search or execute, one is aware of the other:
\* the row is inserted before the search, so whoever searches last sees both.
OneIsAware ==
  \A r, s \in Runs \ astray :
    r # s /\ pc[r] \in Engaged /\ pc[s] \in Engaged /\ Overlap(r, s)
      => Aware(r, s) \/ Aware(s, r)

\* What keeps the two honest: a search starts from nothing, it looks for every
\* alias of its own containers, and a row describes its run or the run is astray.
SearchState ==
  \A r \in Runs :
    /\ pc[r] \in {"idle", "requested", "load", "list"} => cids[r] = {}
    /\ pc[r] \in {"examine", "follow"} => wanted[r] = Aliases(plan[r], plan[r])

RowsDescribe == \A r \in Runs \ astray : pc[r] \in Engaged => Described(r)

ConflictInv == TypeOK /\ SearchState /\ RowsDescribe /\ OneIsAware

\* The outcome a row records is what its run did (the status shown for a run):
\* a skipped run touched nothing, a success acted on every container without a
\* failure, a cancelled run was asked to stop and left something undone.
OutcomeTellsTruth ==
  \A r \in Runs :
    /\ status[r] = "skipped" => did[r] = {}
    /\ status[r] = "success" => plan[r] # {} /\ did[r] = plan[r] /\ ~ fault[r]
    /\ status[r] = "cancelled" => cancel[r] /\ did[r] # plan[r]

\* docs/ARCHITECTURE.md:30: "independent groups may run concurrently": with
\* nobody cancelling or editing by hand, only another run over a common container
\* can make a run skip or end as cancelled.
IndependentRunsProceed ==
  \A r \in Runs : status[r] \in {"skipped", "cancelled"} =>
    \E s \in Runs \ {r} : status[s] # "none" /\ Footprint(r) \cap Footprint(s) # {}

\* Every run that has a row ends: no step, search or wait goes on for ever.
EveryRunEnds == \A r \in Runs : status[r] = "running" ~> status[r] # "running"

\* README.md:13, "skip a new run or cancel the conflicting run and start the new
\* one": when runs conflict and nobody else intervenes, one of them at least is
\* carried out, be it to a failure.
SomebodyProceeds ==
  /\ \A r \in Runs : pc[r] = "done"
  /\ \E r \in Runs : status[r] \in {"skipped", "cancelled"}
  => \E s \in Runs : status[s] \in {"success", "failed"}

\* What the containers see is exclusive control: a run acquires all of them in
\* one step and leaves them for good when it ends or its row fails to describe it.
Holds ==
  [r \in Runs |-> IF InControl(r) /\ r \notin astray THEN ContainersOf(plan[r]) ELSE {}]

Gone == astray \cup {r \in Runs : pc[r] \in {"finish", "done", "dead"}}

Exclusive == INSTANCE ExclusiveControl WITH
  Agents <- Runs, Items <- Containers, holds <- Holds, gone <- Gone

ImplementsExclusiveControl == Exclusive!Spec
=============================================================================
