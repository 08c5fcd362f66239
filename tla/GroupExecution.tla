--------------------------- MODULE GroupExecution ---------------------------
(***************************************************************************)
(* _execute_group_steps of app/action_service.py for one group run that    *)
(* has been admitted: the order of its containers, the cancel checks, the  *)
(* step rows, the error policy, the health wait and the delays, while      *)
(* Docker, the users and the containers do what they like.  ActionEngine   *)
(* has many runs and abstracts from all this.                              *)
(***************************************************************************)
EXTENDS Integers, Sequences, FiniteSets

CONSTANTS
  Items,    \* the group's containers by position, as get_group returns them
  Delays,   \* bound: the delays of the group and its items; -1 is NULL
  Group, NoGroup, NoTarget   \* as in ActionEngine: the group's id, none, no target

ASSUME ItemsAssumption ==
  /\ Items \in Seq(STRING) /\ Len(Items) > 0
  /\ \A i, j \in 1 .. Len(Items) : i # j => Items[i] # Items[j]
ASSUME DelayAssumption == Delays \subseteq {-1} \cup Nat

N == Len(Items)
Positions == 1 .. N
Containers == {Items[i] : i \in Positions}

ASSUME GroupAssumption == Group \notin Containers /\ \A S \in SUBSET Containers : S # NoGroup

VARIABLES
  action, errorPolicy, waitForHealthy, groupDelay, itemDelay,   \* the snapshot
  pc, index,        \* the loop of the thread
  failures,         \* positions whose action failed
  steps,            \* status of the step row of each position
  outcome,          \* status of the run's row
  cancelRequested,  \* cancel_requested of the run's row
  health,           \* what Docker says of each container
  acted,            \* history: the containers acted on, in order
  late,             \* history: actions begun after the cancel request
  seen              \* history: what settling each position has come upon

groupVars == <<action, errorPolicy, waitForHealthy, groupDelay, itemDelay>>
runVars == <<pc, index, failures, steps, outcome>>
historyVars == <<acted, late, seen>>
vars == <<groupVars, runVars, cancelRequested, health, historyVars>>

Healths == {"none", "starting", "healthy", "unhealthy", "gone"}

\* Seeded fault: a restart goes backwards, too.
OrderButStart == IF action = "start" THEN Items ELSE [i \in Positions |-> Items[N + 1 - i]]

\* _ordered_group_items: a group stops in reverse.
Order == IF action = "stop" THEN [i \in Positions |-> Items[N + 1 - i]] ELSE Items

\* delay_seconds of the item, or the group's when it is NULL; never negative.
DelayAfter(i) ==
  LET own == itemDelay[Order[i]]
      seconds == IF own = -1 THEN groupDelay ELSE own
  IN  IF seconds < 0 THEN 0 ELSE seconds

WaitsForHealth == waitForHealthy /\ action \in {"start", "restart"}

Init ==
  /\ action \in {"start", "stop", "restart"}
  /\ errorPolicy \in {"stop", "continue"}
  /\ waitForHealthy \in BOOLEAN
  /\ groupDelay \in Delays
  /\ itemDelay \in [Containers -> Delays]
  /\ pc = "check" /\ index = 1
  /\ failures = {}
  /\ steps = [i \in Positions |-> "none"]
  /\ outcome = "running"
  /\ cancelRequested \in BOOLEAN
  /\ health \in [Containers -> {"none", "healthy"}]
  /\ acted = << >> /\ late = 0
  /\ seen = [i \in Positions |-> {}]

-----------------------------------------------------------------------------
(* The thread *)

End(status) ==
  /\ outcome' = status
  /\ pc' = "done"

\* Seeded fault: the flag is looked at before the first container only.
CheckCancelledOnce ==
  /\ pc = "check"
  /\ IF index = 1 /\ cancelRequested THEN End("cancelled")
                                     ELSE pc' = "insert" /\ UNCHANGED outcome
  /\ UNCHANGED <<groupVars, index, failures, steps, cancelRequested, health, historyVars>>

\* _check_cancelled at the top of the loop and again before the step.
CheckCancelled ==
  /\ pc = "check"
  /\ IF cancelRequested THEN End("cancelled") ELSE pc' = "insert" /\ UNCHANGED outcome
  /\ UNCHANGED <<groupVars, index, failures, steps, cancelRequested, health, historyVars>>

\* create_action_step; the Docker call follows whatever is requested now.
CreateStep ==
  /\ pc = "insert"
  /\ pc' = "acting"
  /\ steps' = [steps EXCEPT ![index] = "running"]
  /\ acted' = Append(acted, Order[index])
  /\ late' = IF cancelRequested THEN late + 1 ELSE late
  /\ UNCHANGED <<groupVars, index, failures, outcome, cancelRequested, health, seen>>

\* run_container_action returns; a start or a restart restarts the healthcheck.
ActionSucceeds ==
  /\ pc = "acting"
  /\ health[Order[index]] # "gone"
  /\ health' = IF action # "stop" /\ health[Order[index]] # "none"
                 THEN [health EXCEPT ![Order[index]] = "starting"] ELSE health
  /\ steps' = [steps EXCEPT ![index] = "success"]
  /\ pc' = "settle"
  /\ UNCHANGED <<groupVars, index, failures, outcome, cancelRequested, historyVars>>

ActionFails ==
  /\ pc = "acting"
  /\ steps' = [steps EXCEPT ![index] = "failed"]
  /\ failures' = failures \cup {index}
  /\ IF errorPolicy = "continue" THEN pc' = "settle" /\ UNCHANGED outcome ELSE End("failed")
  /\ UNCHANGED <<groupVars, index, cancelRequested, health, historyVars>>

Advance ==
  /\ pc' = "check"
  /\ index' = index + 1
  /\ UNCHANGED outcome

Note(what) == seen' = [seen EXCEPT ![index] = @ \cup {what}]

\* Seeded fault: the last container is settled like the others.
SettleLast ==
  /\ pc = "settle" /\ index <= N
  /\ IF WaitsForHealth /\ failures = {}
       THEN pc' = "health" /\ UNCHANGED <<index, outcome>>
       ELSE IF DelayAfter(index) > 0
         THEN pc' = "delay" /\ UNCHANGED <<index, outcome>>
         ELSE Advance
  /\ UNCHANGED <<groupVars, failures, steps, cancelRequested, health, historyVars>>

\* Seeded fault: health is waited for after a failure, too.
SettleWaitsAnyway ==
  /\ pc = "settle" /\ index < N
  /\ IF WaitsForHealth
       THEN pc' = "health" /\ UNCHANGED <<index, outcome>>
       ELSE IF DelayAfter(index) > 0
         THEN pc' = "delay" /\ UNCHANGED <<index, outcome>>
         ELSE Advance
  /\ UNCHANGED <<groupVars, failures, steps, cancelRequested, health, historyVars>>

\* What to wait for before the next container.
Settle ==
  /\ pc = "settle" /\ index < N
  /\ IF WaitsForHealth /\ failures = {}
       THEN pc' = "health" /\ UNCHANGED <<index, outcome>>
       ELSE IF DelayAfter(index) > 0
         THEN pc' = "delay" /\ UNCHANGED <<index, outcome>>
         ELSE Advance
  /\ UNCHANGED <<groupVars, failures, steps, cancelRequested, health, historyVars>>

\* Seeded fault: only the last failure counts.
LastDoneAlone ==
  /\ pc = "settle" /\ index = N
  /\ End(IF index \in failures THEN "failed" ELSE "success")
  /\ UNCHANGED <<groupVars, index, failures, steps, cancelRequested, health, historyVars>>

LastDone ==
  /\ pc = "settle" /\ index = N
  /\ End(IF failures = {} THEN "success" ELSE "failed")
  /\ UNCHANGED <<groupVars, index, failures, steps, cancelRequested, health, historyVars>>

\* Seeded fault: without a healthcheck the run goes straight on.
HealthAnswersNoDelay ==
  /\ pc = "health" /\ health[Order[index]] \in {"healthy", "none"}
  /\ Advance
  /\ Note(health[Order[index]])
  /\ UNCHANGED <<groupVars, failures, steps, cancelRequested, health, acted, late>>

\* wait_for_container_healthy answers: healthy, or no-healthcheck, which falls
\* back to the delay.
HealthAnswers ==
  /\ pc = "health" /\ health[Order[index]] \in {"healthy", "none"}
  /\ IF health[Order[index]] = "none" /\ DelayAfter(index) > 0
       THEN pc' = "delay" /\ UNCHANGED <<index, outcome>>
       ELSE Advance
  /\ Note(health[Order[index]])
  /\ UNCHANGED <<groupVars, failures, steps, cancelRequested, health, acted, late>>

\* Seeded fault: the health wait has no timeout.
HealthRaisesNoTimeout ==
  /\ pc = "health" /\ health[Order[index]] \in {"unhealthy", "gone"}
  /\ End("failed")
  /\ UNCHANGED <<groupVars, index, failures, steps, cancelRequested, health, historyVars>>

\* It raises: unhealthy, gone, still starting at the timeout, or Docker does not
\* answer.  The call is outside the try that applies the error policy.
HealthRaises ==
  /\ pc = "health"
  /\ End("failed")
  /\ UNCHANGED <<groupVars, index, failures, steps, cancelRequested, health, historyVars>>

\* _interruptible_sleep looks at the flag every half second ...
DelayCancelled ==
  /\ pc = "delay" /\ cancelRequested
  /\ End("cancelled")
  /\ UNCHANGED <<groupVars, index, failures, steps, cancelRequested, health, historyVars>>

\* ... and may miss what comes after its last look.
DelayEnds ==
  /\ pc = "delay"
  /\ Advance
  /\ Note("slept")
  /\ UNCHANGED <<groupVars, failures, steps, cancelRequested, health, acted, late>>

Thread ==
  \/ CheckCancelled \/ CreateStep \/ ActionSucceeds \/ ActionFails
  \/ Settle \/ LastDone \/ HealthAnswers \/ HealthRaises
  \/ DelayCancelled \/ DelayEnds

-----------------------------------------------------------------------------
(* Everyone else *)

RequestCancel ==
  /\ outcome = "running" /\ ~ cancelRequested
  /\ cancelRequested' = TRUE
  /\ UNCHANGED <<groupVars, runVars, health, historyVars>>

\* A healthcheck reports, or the container is removed.
HealthChanges(c) ==
  /\ health[c] # "gone" /\ outcome = "running"
  /\ health' \in {[health EXCEPT ![c] = h] :
                    h \in {"gone"} \cup (IF health[c] = "none" THEN {} ELSE {"healthy", "unhealthy"})}
  /\ UNCHANGED <<groupVars, runVars, cancelRequested, historyVars>>

Over == pc = "done" /\ UNCHANGED vars

Next == Thread \/ RequestCancel \/ (\E c \in Containers : HealthChanges(c)) \/ Over

Spec == Init /\ [][Next]_vars

\* The thread is scheduled, and Docker calls, health waits and delays all have
\* a timeout.  No one has to cancel, no container has to become healthy.
FairSpec == Spec /\ WF_vars(Thread)

-----------------------------------------------------------------------------
(* Properties *)

TypeOK ==
  /\ pc \in {"check", "insert", "acting", "settle", "health", "delay", "done"}
  /\ index \in Positions
  /\ failures \subseteq Positions
  /\ steps \in [Positions -> {"none", "running", "success", "failed"}]
  /\ outcome \in {"running", "success", "failed", "cancelled"}
  /\ cancelRequested \in BOOLEAN
  /\ health \in [Containers -> Healths]
  /\ Len(acted) <= N /\ late \in Nat
  /\ seen \in [Positions -> SUBSET {"healthy", "none", "slept"}]

\* docs/ARCHITECTURE.md:23-24, "ordered group start", "reverse-order group stop":
\* whatever fails, waits or is cancelled, the containers acted on are the first
\* of the group, or for a stop the last of it backwards, each once.
InGroupOrder ==
  \A k \in 1 .. Len(acted) :
    acted[k] = IF action = "stop" THEN Items[N + 1 - k] ELSE Items[k]

\* README.md:11, "Docker health waiting before the next group step", with the
\* delay when there is no healthcheck (docs/ARCHITECTURE.md:25-26): the container
\* before the last one acted on was settled as the group asks - with no failure
\* so far, found healthy or without a healthcheck - and its delay was slept.
SettledBeforeNext ==
  \A i \in 1 .. Len(acted) - 1 :
    LET gated == WaitsForHealth /\ failures \cap (1 .. i) = {}
    IN  /\ gated => seen[i] \cap {"healthy", "none"} # {}
        /\ DelayAfter(i) > 0 /\ (gated => "none" \in seen[i]) => "slept" \in seen[i]

\* Once the cancel request is recorded at most one more container is acted on,
\* the one whose check came before the request.
CancelStopsWithinOne == late <= 1

\* The steps and the run tell the same story once the run is over: no step is
\* left running, success has every step succeed, a failure under the error
\* policy 'stop' is the end, and a cancelled run has left containers alone.
StepsExplainOutcome ==
  outcome # "running" =>
    /\ \A i \in Positions : steps[i] # "running"
    /\ outcome = "success" <=> \A i \in Positions : steps[i] = "success"
    /\ errorPolicy = "stop" /\ failures # {} => failures = {Len(acted)}
    /\ outcome = "cancelled" => cancelRequested /\ Len(acted) < N

\* Every admitted group run ends.
RunEnds == <>(outcome # "running")

\* README.md:12, "Group error policy: stop or continue": a run that leaves
\* containers alone was cancelled, or met its first failure under 'stop', or a
\* health wait failed while no action had: wait_for_container_healthy is outside
\* the try that applies the policy.  After a failed action 'continue' goes on to
\* the last container.
LeftForCause ==
  outcome # "running" /\ Len(acted) < N =>
    \/ outcome = "cancelled"
    \/ /\ outcome = "failed"
       /\ \/ errorPolicy = "stop" /\ failures = {Len(acted)}
          \/ WaitsForHealth /\ failures = {} /\ acted # << >> /\ seen[Len(acted)] = {}

-----------------------------------------------------------------------------
(* The run as ActionEngine has it *)

\* A container is being acted on until what follows its action is under way, and
\* what is left of a run that is over is to record its outcome.
Place == CASE pc \in {"check", "delay"} -> "step"
           [] pc = "done" -> "finish"
           [] OTHER -> "acting"

Begun == {acted[k] : k \in 1 .. Len(acted)} \cup (IF pc = "insert" THEN {Order[index]} ELSE {})

Failed ==
  errorPolicy = "continue" /\ failures \ (IF Place = "acting" THEN {index} ELSE {}) # {}

Result == IF outcome = "running" THEN "none" ELSE outcome

TheRun(x) == [r \in {1} |-> x]

Engine == INSTANCE ActionEngine WITH
  MaxRuns <- 1, ListLimit <- 1, Disturbances <- {"cancel"},
  Refs <- Containers, ContainerOf <- [c \in Containers |-> c],
  Groups <- {Group}, Schedules <- {}, GroupChoices <- {Containers}, ScheduleChoices <- {},
  Requestable <- {Group},
  groups <- [g \in {Group} |-> Containers], schedules <- [s \in {} |-> NoTarget],
  status <- TheRun("running"), cancel <- TheRun(cancelRequested), src <- TheRun(Group),
  pc <- TheRun(Place), policy <- TheRun("skip"), aim <- TheRun(Group), plan <- TheRun(Containers),
  wanted <- TheRun(Containers), todo <- TheRun({}), hits <- TheRun({}), via <- TheRun(NoTarget),
  cids <- TheRun({}), expired <- TheRun(FALSE),
  did <- TheRun(Begun), fault <- TheRun(Failed), result <- TheRun(Result), astray <- {}

\* The loop does what ActionEngine has an admitted run of the group do: it starts
\* with nothing done, each of its steps is one of that run, or one of which that
\* run knows nothing, and it ends with the outcome that run records.
ImplementsRun ==
  /\ Place = "step" /\ Begun = {} /\ ~ Failed /\ Result = "none"
  /\ [][Engine!Next]_(Engine!vars)
=============================================================================
