------------------------------ MODULE NasGate ------------------------------
(***************************************************************************)
(* require_ready, wake, check_status and current_status of                 *)
(* app/nas_service.py, as a run of the action engine and the page's        *)
(* start_nas_dependent_groups use them: is the NAS ready, and if its host  *)
(* is not, wake it once and poll until a deadline.  Each of these calls    *)
(* reads the profile anew, while it is edited or deleted.  What            *)
(* check_status writes for the pages is left out: nothing here reads it.   *)
(***************************************************************************)
EXTENDS Naturals, Sequences

CONSTANTS
  Profiles,     \* ids of nas_profiles, in the order of their names
  ProfileRows,  \* the rows a profile may have
  Queues,       \* for each caller, the profiles its groups name, one after the other
  Legacy,       \* the single-NAS settings, used when there is no profile
  None,         \* no row, or no profile named
  MaxEdits      \* bound: how often the configuration is changed

ASSUME ProfileAssumption == Profiles \subseteq Nat /\ Legacy \notin Profiles
ASSUME RowAssumption ==
  ProfileRows \subseteq [enabled : BOOLEAN, wol_enabled : BOOLEAN, auto_wake : BOOLEAN, mac : BOOLEAN]
ASSUME NoneAssumption == None \notin Profiles /\ None \notin ProfileRows /\ None # Legacy
ASSUME QueueAssumption == Queues \subseteq Seq(Profiles \cup {None}) \ {<<>>}
ASSUME BoundAssumption == MaxEdits \in Nat

Hosts == Profiles \cup {Legacy}

VARIABLES
  table,       \* nas_profiles
  legacy,      \* nas_enabled of app_settings
  up,          \* the hosts that answer with all their mounts just now
  edits,
  caller,      \* "run", or "page" for start_nas_dependent_groups
  queue,       \* the profile each of the caller's groups names
  index,       \* the group whose gate it is
  pc, status,  \* the place in require_ready, and its status
  polling,     \* a packet was sent: require_ready is in its loop
  late,        \* the deadline of the loop has passed
  answer,      \* what require_ready has returned
  cancelled,   \* cancel_requested of the run
  acting,      \* the run goes on to its containers
  started, reported,  \* of the page's groups
  inTime       \* history: the host polled has been up since the deadline passed in a sleep

configVars == <<table, legacy, edits>>
gateVars == <<pc, status, polling, late, answer>>
callerVars == <<caller, queue, index, cancelled, acting, started, reported>>
vars == <<configVars, up, gateVars, callerVars, inTime>>

LegacyRow == [enabled |-> legacy, wol_enabled |-> FALSE, auto_wake |-> FALSE, mac |-> FALSE]

Saved == {p \in Profiles : table[p] # None}

\* current_status: the profile named, or the first one when none is named; the
\* legacy settings when it is not there.
Named(asked) ==
  IF asked # None
    THEN IF asked \in Saved THEN asked ELSE Legacy
    ELSE IF Saved = {} THEN Legacy ELSE CHOOSE p \in Saved : \A q \in Saved : p <= q

RowOf(h) == IF h = Legacy THEN LegacyRow ELSE table[h]

Asked == queue[index]
Host == Named(Asked)

Unchecked == [host |-> None, row |-> LegacyRow, online |-> FALSE, mounts |-> FALSE]
Ready(s) == s.row.enabled /\ s.online /\ s.mounts

Init ==
  /\ table \in [Profiles -> ProfileRows \cup {None}]
  /\ legacy \in BOOLEAN /\ up \in SUBSET Hosts /\ edits = 0
  /\ caller \in {"run", "page"}
  /\ queue \in {q \in Queues : caller = "run" => Len(q) = 1}
  /\ index = 1
  /\ pc = "status" /\ status = Unchecked
  /\ polling = FALSE /\ late = FALSE /\ answer = FALSE
  /\ cancelled = FALSE /\ acting = FALSE
  /\ started = {} /\ reported = {}
  /\ inTime = FALSE

-----------------------------------------------------------------------------
(* require_ready *)

Return(result) == pc' = "answered" /\ answer' = result

CurrentStatus ==
  /\ pc = "status"
  /\ IF RowOf(Host).enabled THEN pc' = "check" /\ UNCHANGED answer ELSE Return(FALSE)
  /\ UNCHANGED <<configVars, up, status, polling, late, callerVars, inTime>>

\* check_status reads the profile ...
CheckReads ==
  /\ pc = "check"
  /\ status' = [host |-> Host, row |-> RowOf(Host), online |-> FALSE, mounts |-> ~ RowOf(Host).enabled]
  /\ pc' = "ping"
  /\ UNCHANGED <<configVars, up, polling, late, answer, callerVars, inTime>>

\* ... and pings and looks for the mounts, unless it is disabled.
Answers(s) ==
  IF ~ s.row.enabled THEN {s}
  ELSE {t \in [host : {s.host}, row : {s.row}, online : BOOLEAN, mounts : BOOLEAN] :
         (t.online /\ t.mounts) <=> s.host \in up}

MayWake(s) == s.row.wol_enabled /\ s.row.auto_wake /\ ~ s.online

\* Seeded fault: a host that answers is taken to be ready.
PingHostOnly ==
  /\ pc = "ping"
  /\ status' \in Answers(status)
  /\ CASE status'.online -> Return(TRUE)
       [] ~ status'.online /\ polling -> pc' = "loop" /\ UNCHANGED answer
       [] ~ status'.online /\ ~ polling /\ MayWake(status') -> pc' = "wake" /\ UNCHANGED answer
       [] OTHER -> Return(FALSE)
  /\ UNCHANGED <<configVars, up, polling, late, callerVars, inTime>>

Ping ==
  /\ pc = "ping"
  /\ status' \in Answers(status)
  /\ CASE Ready(status') -> Return(TRUE)
       [] ~ Ready(status') /\ polling -> pc' = "loop" /\ UNCHANGED answer
       [] ~ Ready(status') /\ ~ polling /\ MayWake(status') -> pc' = "wake" /\ UNCHANGED answer
       [] OTHER -> Return(FALSE)
  /\ UNCHANGED <<configVars, up, polling, late, callerVars, inTime>>

\* wake reads the profile again: its ValueError is the gate's answer.
Wake ==
  /\ pc = "wake"
  /\ IF RowOf(Host).wol_enabled /\ RowOf(Host).mac
       THEN pc' = "packet" /\ UNCHANGED answer
       ELSE Return(FALSE)
  /\ UNCHANGED <<configVars, up, status, polling, late, callerVars, inTime>>

SendPacket ==
  /\ pc = "packet"
  /\ polling' = TRUE /\ late' = FALSE
  /\ pc' = "loop"
  /\ UNCHANGED <<configVars, up, status, answer, callerVars, inTime>>

\* The OSError of a socket is not caught in require_ready.
PacketRaises ==
  /\ pc = "packet"
  /\ pc' = "raised"
  /\ UNCHANGED <<configVars, up, status, polling, late, answer, callerVars, inTime>>

\* Seeded fault: the loop waits until the NAS is ready.
WhileNotReady ==
  /\ pc = "loop"
  /\ pc' = "sleep" /\ UNCHANGED answer
  /\ UNCHANGED <<configVars, up, status, polling, late, callerVars, inTime>>

While ==
  /\ pc = "loop"
  /\ IF late THEN Return(FALSE) ELSE pc' = "sleep" /\ UNCHANGED answer
  /\ UNCHANGED <<configVars, up, status, polling, late, callerVars, inTime>>

\* Seeded fault: no check once the deadline has passed.
SleepNoLongerChecks ==
  /\ pc = "sleep"
  /\ IF late THEN Return(FALSE) ELSE pc' = "check" /\ UNCHANGED answer
  /\ UNCHANGED <<configVars, up, status, polling, late, callerVars, inTime>>

SleepEnds ==
  /\ pc = "sleep"
  /\ pc' = "check"
  /\ UNCHANGED <<configVars, up, status, polling, late, answer, callerVars, inTime>>

DeadlinePasses ==
  /\ polling /\ ~ late /\ pc \in {"loop", "sleep", "check", "ping"}
  /\ late' = TRUE
  /\ inTime' = (pc = "sleep" /\ Host \in up /\ RowOf(Host).enabled)
  /\ UNCHANGED <<configVars, up, pc, status, polling, answer, callerVars>>

Gate ==
  \/ CurrentStatus \/ CheckReads \/ Ping \/ Wake \/ SendPacket \/ PacketRaises
  \/ While \/ SleepEnds

-----------------------------------------------------------------------------
(* The callers *)

\* Seeded fault: the run does not look at cancel_requested after its gate.
RunActsAtOnce ==
  /\ caller = "run" /\ pc = "answered" /\ answer
  /\ acting' = TRUE
  /\ pc' = "done"
  /\ UNCHANGED <<configVars, up, status, polling, late, answer, caller, queue, index, cancelled, started, reported, inTime>>

\* perform goes on to the first container, and looks at cancel_requested there.
RunActs ==
  /\ caller = "run" /\ pc = "answered" /\ answer
  /\ acting' = ~ cancelled
  /\ pc' = "done"
  /\ UNCHANGED <<configVars, up, status, polling, late, answer, caller, queue, index, cancelled, started, reported, inTime>>

\* Seeded fault: a gate that raises lets its run go on.
RunFailsOnAnswer ==
  /\ caller = "run"
  /\ pc = "raised" \/ (pc = "answered" /\ ~ answer)
  /\ acting' = (pc = "raised")
  /\ pc' = "done"
  /\ UNCHANGED <<configVars, up, status, polling, late, answer, caller, queue, index, cancelled, started, reported, inTime>>

\* A run whose NAS is not ready fails, and so does one whose gate raises.
RunFails ==
  /\ caller = "run"
  /\ pc = "raised" \/ (pc = "answered" /\ ~ answer)
  /\ pc' = "done"
  /\ UNCHANGED <<configVars, up, status, polling, late, answer, callerVars, inTime>>

NextGroup ==
  /\ IF index < Len(queue)
       THEN pc' = "status" /\ index' = index + 1
       ELSE pc' = "done" /\ UNCHANGED index
  /\ status' = Unchecked
  /\ polling' = FALSE /\ late' = FALSE /\ answer' = FALSE
  /\ inTime' = FALSE

\* start_group_run, which raises when the group is gone.
PageStarts ==
  /\ caller = "page" /\ pc = "answered" /\ answer
  /\ \/ started' = started \cup {index} /\ UNCHANGED reported
     \/ reported' = reported \cup {index} /\ UNCHANGED started
  /\ NextGroup
  /\ UNCHANGED <<configVars, up, caller, queue, cancelled, acting>>

\* Seeded fault: the first NAS that is not ready ends the loop.
PageGivesUp ==
  /\ caller = "page" /\ pc = "answered" /\ ~ answer
  /\ reported' = reported \cup {index}
  /\ pc' = "done"
  /\ UNCHANGED <<configVars, up, status, polling, late, answer, caller, queue, index, cancelled, acting, started, inTime>>

PageReports ==
  /\ caller = "page" /\ pc = "answered" /\ ~ answer
  /\ reported' = reported \cup {index}
  /\ NextGroup
  /\ UNCHANGED <<configVars, up, caller, queue, cancelled, acting, started>>

\* The page fails, whatever groups are left.
PageRaises ==
  /\ caller = "page" /\ pc = "raised"
  /\ pc' = "failed"
  /\ UNCHANGED <<configVars, up, status, polling, late, answer, callerVars, inTime>>

Caller == RunActs \/ RunFails \/ PageStarts \/ PageReports \/ PageRaises

-----------------------------------------------------------------------------
(* Everyone else *)

Edit ==
  /\ edits < MaxEdits /\ pc \notin {"done", "failed"}
  /\ edits' = edits + 1
  /\ inTime' = FALSE
  /\ UNCHANGED <<up, gateVars, callerVars>>

\* save_nas_profile or an import, and delete_nas_profile.
SaveProfile(p, row) == Edit /\ table' = [table EXCEPT ![p] = row] /\ UNCHANGED legacy
DeleteProfile(p) == p \in Saved /\ Edit /\ table' = [table EXCEPT ![p] = None] /\ UNCHANGED legacy

\* update_settings: the settings, and with them the first profile.
UpdateSettings(enabled) ==
  /\ Edit
  /\ legacy' = enabled
  /\ IF Saved = {}
       THEN \E p \in Profiles : table' = [table EXCEPT ![p] =
              [enabled |-> enabled, wol_enabled |-> FALSE, auto_wake |-> FALSE, mac |-> FALSE]]
       ELSE table' = [table EXCEPT ![Named(None)].enabled = enabled]

NasChanges(h) ==
  /\ up' = IF h \in up THEN up \ {h} ELSE up \cup {h}
  /\ inTime' = (inTime /\ h # Host)
  /\ UNCHANGED <<configVars, gateVars, callerVars>>

RequestCancel ==
  /\ caller = "run" /\ pc # "done" /\ ~ cancelled
  /\ cancelled' = TRUE
  /\ UNCHANGED <<configVars, up, gateVars, caller, queue, index, acting, started, reported, inTime>>

Next ==
  \/ Gate \/ DeadlinePasses \/ Caller
  \/ \E p \in Profiles : DeleteProfile(p) \/ \E row \in ProfileRows : SaveProfile(p, row)
  \/ \E enabled \in BOOLEAN : UpdateSettings(enabled)
  \/ \E h \in Hosts : NasChanges(h)
  \/ RequestCancel

Spec == Init /\ [][Next]_vars

\* ping has a timeout, a look at a mount and a sleep end, the deadline comes.
FairSpec == Spec /\ WF_vars(Gate \/ Caller) /\ WF_vars(DeadlinePasses)

-----------------------------------------------------------------------------
(* Properties *)

\* A gate says ready only on the word of its last check, of host and mounts of an
\* enabled profile: of the profile the group names, or of the legacy settings
\* when that one has been deleted; never of another profile.
ReadyWasChecked ==
  pc = "answered" /\ answer =>
    /\ Ready(status)
    /\ Asked # None => status.host \in {Asked, Legacy}

\* A NAS that is up when the deadline passes in the loop's sleep, and stays up, is
\* still found: the gate does not give up on it.
FoundWhenUpInTime == pc = "answered" /\ ~ answer /\ late => ~ inTime

\* README.md:14, "Manual run cancellation": a run cancelled before its gate has
\* answered acts on nothing after it, however long the gate takes.
CancelledActsOnNothing == acting => ~ cancelled

\* One NAS that is not ready does not keep the page from the other groups: unless
\* sending a packet raises, each group is started or reported, not both.
EveryGroupIsAnswered ==
  caller = "page" /\ pc = "done" =>
    started \cup reported = 1 .. Len(queue) /\ started \cap reported = {}

\* The gate answers, whatever the NAS and its profile do meanwhile.
GateAnswers == <>(pc \in {"done", "failed"})

-----------------------------------------------------------------------------
(* The gate as ActionEngine has it *)

\* A run is at its gate until it has been told to go on, or has failed.  The page
\* has no run yet.
Place ==
  IF caller = "page" THEN "gate"
  ELSE CASE pc = "done" -> IF acting THEN "acting" ELSE "finish"
         [] pc = "answered" /\ answer -> "step"
         [] OTHER -> "gate"

Begun == IF acting THEN {"container"} ELSE {}

Result == IF Place # "finish" THEN "none" ELSE IF answer THEN "cancelled" ELSE "failed"

TheRun(x) == [r \in {1} |-> x]

\* One run, of one group of one container.
Engine == INSTANCE ActionEngine WITH
  MaxRuns <- 1, ListLimit <- 1, Disturbances <- {"cancel"},
  Containers <- {"container"}, Refs <- {"container"},
  ContainerOf <- [c \in {"container"} |-> c],
  Groups <- {"group"}, Schedules <- {}, GroupChoices <- {{"container"}}, ScheduleChoices <- {},
  NoGroup <- {"nothing"}, NoTarget <- "nothing", Requestable <- {"group"},
  groups <- [g \in {"group"} |-> {"container"}], schedules <- [s \in {} |-> "nothing"],
  status <- TheRun("running"), cancel <- TheRun(cancelled), src <- TheRun("group"),
  pc <- TheRun(Place), policy <- TheRun("skip"), aim <- TheRun("group"),
  plan <- TheRun({"container"}), wanted <- TheRun({"container"}),
  todo <- TheRun({}), hits <- TheRun({}), via <- TheRun("nothing"), cids <- TheRun({}), expired <- TheRun(FALSE),
  did <- TheRun(Begun), fault <- TheRun(FALSE), result <- TheRun(Result), astray <- {}

\* All that ActionEngine needs to know of the gate: it lets the run go on or fails
\* it, whenever the run is cancelled, and a cancelled run begins nothing after it.
ImplementsGate ==
  /\ Place = "gate" /\ Begun = {} /\ Result = "none"
  /\ [][Engine!Next]_(Engine!vars)
=============================================================================
