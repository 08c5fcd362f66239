---------------------------- MODULE NasGateProofs ----------------------------
(***************************************************************************)
(* Proofs of the safety of NasGate, for any profiles, groups and number of *)
(* edits.                                                                  *)
(***************************************************************************)
EXTENDS NasGate, FiniteSetTheorems, TLAPS

Places ==
  {"status", "check", "ping", "wake", "packet", "loop", "sleep", "answered", "raised", "done", "failed"}

\* Whom the last check asked, and what it was told before a gate says ready.
Checked ==
  /\ (pc = "ping" \/ (pc = "answered" /\ answer = TRUE)) /\ Asked # None =>
       status.host \in {Asked, Legacy}
  /\ pc = "answered" /\ answer = TRUE => Ready(status)

\* A host that was up and enabled when the deadline passed in the loop's sleep is
\* so still, and the check that follows has seen it if it has begun.
UpSince ==
  inTime = TRUE =>
    /\ Host \in up /\ RowOf(Host).enabled = TRUE
    /\ pc \in {"sleep", "check", "ping", "answered", "done"}
    /\ pc = "ping" => status.host = Host /\ status.row.enabled = TRUE
    /\ pc = "answered" => answer = TRUE

\* A run acts at the end only, and has looked at cancel_requested there.
ActsLast ==
  /\ cancelled \in BOOLEAN
  /\ acting = TRUE => pc = "done" /\ caller = "run" /\ cancelled = FALSE

\* The page has answered for each group before the present one, and for all of
\* them when it is done.
AnsweredSoFar ==
  /\ pc \in Places
  /\ index \in 1 .. Len(queue) /\ Len(queue) \in Nat
  /\ started \cap reported = {}
  /\ started \cup reported = IF caller = "page" /\ pc = "done" THEN 1 .. Len(queue)
                             ELSE 1 .. index - 1

IInv ==
  /\ answer \in BOOLEAN /\ inTime \in BOOLEAN
  /\ Checked /\ UpSince /\ ActsLast /\ AnsweredSoFar

-----------------------------------------------------------------------------
(* One profile is asked, or the legacy settings *)

LEMMA HostIs == Asked # None => Host \in {Asked, Legacy}
BY DEF Host, Named

\* Host and row depend on the configuration and the group alone.
LEMMA SameHost ==
  ASSUME UNCHANGED <<table, legacy, queue, index>>
  PROVE  Asked' = Asked /\ Host' = Host /\ RowOf(Host)' = RowOf(Host)
BY DEF Asked, Host, Named, Saved, RowOf, LegacyRow

LEMMA AnswersAre ==
  ASSUME NEW s, NEW t \in Answers(s)
  PROVE  /\ t.host = s.host /\ t.row = s.row
         /\ s.row.enabled = TRUE /\ s.host \in up => Ready(t)
<1>1. CASE s.row.enabled = TRUE
  BY <1>1 DEF Answers, Ready
<1>2. CASE ~ (s.row.enabled = TRUE)
  BY <1>2 DEF Answers, Ready
<1> QED
  BY <1>1, <1>2

-----------------------------------------------------------------------------
(* The gate *)

LEMMA StepChecked ==
  ASSUME answer \in BOOLEAN, Checked, [Next]_vars
  PROVE  Checked' /\ answer' \in BOOLEAN
<1> USE DEF Checked, Return, configVars, gateVars, callerVars
<1>1. ASSUME pc' \notin {"ping", "answered"}, answer' \in BOOLEAN
      PROVE  Checked' /\ answer' \in BOOLEAN
  BY <1>1
<1>2. ASSUME answer' = FALSE, pc' # "ping" PROVE Checked' /\ answer' \in BOOLEAN
  BY <1>2
<1>3. ASSUME UNCHANGED <<pc, status, answer, queue, index>> PROVE Checked' /\ answer' \in BOOLEAN
  BY <1>3 DEF Asked, Ready
<1>4. CASE CheckReads
  BY <1>4, HostIs DEF CheckReads, Asked
<1>5. CASE Ping
  <2>1. status'.host = status.host
    BY <1>5, AnswersAre DEF Ping
  <2>2. pc' = "answered" => (answer' = TRUE /\ Ready(status')) \/ answer' = FALSE
    BY <1>5 DEF Ping
  <2>3. pc' # "ping" /\ answer' \in BOOLEAN /\ queue' = queue /\ index' = index
    BY <1>5 DEF Ping
  <2> QED
    BY <1>5, <2>1, <2>2, <2>3 DEF Ping, Asked, Ready
<1> QED
  BY <1>1, <1>2, <1>3, <1>4, <1>5
     DEF Next, Gate, CurrentStatus, Wake, SendPacket, PacketRaises, While, SleepEnds,
         DeadlinePasses, Caller, RunActs, RunFails, NextGroup, PageStarts, PageReports,
         PageRaises, DeleteProfile, SaveProfile, UpdateSettings, Edit, NasChanges, RequestCancel, vars

LEMMA StepUpSince ==
  ASSUME answer \in BOOLEAN, inTime \in BOOLEAN, UpSince, [Next]_vars
  PROVE  UpSince' /\ inTime' \in BOOLEAN
<1> USE DEF UpSince, Return, configVars, gateVars, callerVars
<1>1. ASSUME inTime' = FALSE PROVE UpSince' /\ inTime' \in BOOLEAN
  BY <1>1
<1>2. ASSUME UNCHANGED <<table, legacy, queue, index, up, inTime>>,
             inTime = TRUE =>
               /\ pc' \in {"sleep", "check", "ping", "answered", "done"}
               /\ pc' = "ping" => status'.host = Host /\ status'.row.enabled = TRUE
               /\ pc' = "answered" => answer' = TRUE
      PROVE  UpSince' /\ inTime' \in BOOLEAN
  BY <1>2, SameHost
<1>3. CASE CurrentStatus \/ Wake \/ SendPacket \/ PacketRaises \/ While \/ SleepEnds
  BY <1>2, <1>3 DEF CurrentStatus, Wake, SendPacket, PacketRaises, While, SleepEnds
<1>4. CASE CheckReads
  BY <1>2, <1>4 DEF CheckReads
<1>5. CASE Ping
  <2>1. inTime = TRUE => Ready(status')
    BY <1>5, AnswersAre DEF Ping
  <2>2. Ready(status') => pc' = "answered" /\ answer' = TRUE
    BY <1>5 DEF Ping
  <2> QED
    BY <1>2, <1>5, <2>1, <2>2 DEF Ping
<1>6. CASE DeadlinePasses
  <2>1. UNCHANGED <<table, legacy, queue, index, up, pc, status, answer>>
    BY <1>6 DEF DeadlinePasses
  <2>2. inTime' = (pc = "sleep" /\ Host \in up /\ RowOf(Host).enabled)
    BY <1>6 DEF DeadlinePasses
  <2>3. inTime' \in BOOLEAN
    BY <2>2
  <2>4. ASSUME inTime' = TRUE PROVE UpSince'
    BY <2>1, <2>2, <2>4, SameHost
  <2> QED
    BY <2>3, <2>4
<1>7. CASE RunActs \/ RunFails \/ PageRaises
  BY <1>2, <1>7 DEF RunActs, RunFails, PageRaises
<1>8. CASE PageStarts \/ PageReports
  BY <1>1, <1>8 DEF PageStarts, PageReports, NextGroup
<1>9. ASSUME Edit PROVE UpSince' /\ inTime' \in BOOLEAN
  BY <1>1, <1>9 DEF Edit
<1>10. ASSUME NEW h \in Hosts, NasChanges(h) PROVE UpSince' /\ inTime' \in BOOLEAN
  <2>1. inTime' = (inTime /\ h # Host)
    BY <1>10 DEF NasChanges
  <2>2. UNCHANGED <<table, legacy, queue, index, pc, status, answer>>
    BY <1>10 DEF NasChanges
  <2>3. inTime' = TRUE => inTime = TRUE /\ (Host \in up => Host \in up')
    BY <1>10, <2>1 DEF NasChanges
  <2>4. inTime' \in BOOLEAN
    BY <2>1
  <2> QED
    BY <2>2, <2>3, <2>4, SameHost
<1>11. CASE RequestCancel \/ UNCHANGED vars
  BY <1>2, <1>11 DEF RequestCancel, vars
<1> QED
  BY <1>3, <1>4, <1>5, <1>6, <1>7, <1>8, <1>9, <1>10, <1>11
     DEF Next, Gate, Caller, DeleteProfile, SaveProfile, UpdateSettings

-----------------------------------------------------------------------------
(* The callers *)

LEMMA StepActsLast ==
  ASSUME ActsLast, [Next]_vars
  PROVE  ActsLast'
<1> USE DEF ActsLast, Return, configVars, gateVars, callerVars
<1>1. ASSUME UNCHANGED <<acting, cancelled, caller>>, pc' = pc \/ pc # "done" PROVE ActsLast'
  BY <1>1
<1>2. CASE Gate \/ DeadlinePasses
  BY <1>1, <1>2 DEF Gate, CurrentStatus, CheckReads, Ping, Wake, SendPacket, PacketRaises, While,
                    SleepEnds, DeadlinePasses
<1>3. CASE RunActs
  <2>1. acting' = ~ cancelled /\ pc' = "done" /\ caller' = "run" /\ cancelled' = cancelled
    BY <1>3 DEF RunActs
  <2>2. cancelled = TRUE \/ cancelled = FALSE
    OBVIOUS
  <2> QED
    BY <2>1, <2>2
<1>4. CASE RunFails \/ PageStarts \/ PageReports \/ PageRaises
  BY <1>1, <1>4 DEF RunFails, PageStarts, PageReports, PageRaises, NextGroup
<1>5. CASE RequestCancel
  BY <1>5 DEF RequestCancel
<1> QED
  BY <1>1, <1>2, <1>3, <1>4, <1>5
     DEF Next, Caller, DeleteProfile, SaveProfile, UpdateSettings, Edit, NasChanges, vars

LEMMA StepAnswered ==
  ASSUME AnsweredSoFar, [Next]_vars
  PROVE  AnsweredSoFar'
<1> USE DEF AnsweredSoFar, Places, Return, configVars, gateVars, callerVars
<1>1. ASSUME UNCHANGED <<caller, queue, index, started, reported>>,
             pc' \in Places, pc' = pc \/ (pc # "done" /\ ~ (caller = "page" /\ pc' = "done"))
      PROVE  AnsweredSoFar'
  BY <1>1
<1>2. CASE Gate \/ DeadlinePasses
  BY <1>1, <1>2 DEF Gate, CurrentStatus, CheckReads, Ping, Wake, SendPacket, PacketRaises, While,
                    SleepEnds, DeadlinePasses
<1>3. CASE RunActs \/ RunFails \/ PageRaises
  BY <1>1, <1>3 DEF RunActs, RunFails, PageRaises
<1>4. CASE PageStarts \/ PageReports
  <2>1. /\ caller = "page" /\ caller' = caller /\ queue' = queue /\ pc = "answered"
        /\ \/ started' = started \cup {index} /\ reported' = reported
           \/ reported' = reported \cup {index} /\ started' = started
        /\ IF index < Len(queue) THEN pc' = "status" /\ index' = index + 1
                                 ELSE pc' = "done" /\ index' = index
    BY <1>4 DEF PageStarts, PageReports, NextGroup
  <2>2. started \cup reported = 1 .. index - 1
    BY <2>1
  <2>3. started' \cup reported' = 1 .. index
    <3>1. started' \cup reported' = (started \cup reported) \cup {index}
      BY <2>1
    <3> QED
      BY <2>2, <3>1
  <2>4. started' \cap reported' = {}
    BY <2>1, <2>2
  <2> QED
    BY <2>1, <2>3, <2>4
<1>5. CASE RequestCancel \/ UNCHANGED vars
  BY <1>1, <1>5 DEF RequestCancel, vars
<1>6. ASSUME Edit \/ \E h \in Hosts : NasChanges(h) PROVE AnsweredSoFar'
  BY <1>1, <1>6 DEF Edit, NasChanges
<1> QED
  BY <1>2, <1>3, <1>4, <1>5, <1>6 DEF Next, Caller, DeleteProfile, SaveProfile, UpdateSettings

LEMMA Inductive == Spec => []IInv
<1>1. Init => IInv
  <2> SUFFICES ASSUME Init PROVE IInv
    OBVIOUS
  <2>1. queue \in Seq(Profiles \cup {None}) /\ queue # << >>
    BY QueueAssumption DEF Init
  <2>2. AnsweredSoFar
    BY <2>1 DEF Init, AnsweredSoFar, Places
  <2> QED
    BY <2>2 DEF Init, IInv, Checked, UpSince, ActsLast
<1>2. IInv /\ [Next]_vars => IInv'
  BY StepChecked, StepUpSince, StepActsLast, StepAnswered DEF IInv
<1> QED
  BY <1>1, <1>2, PTL DEF Spec

-----------------------------------------------------------------------------
(* The theorems *)

\* However the profiles are edited and deleted between its calls, a gate says
\* ready only on the word of its last check of the profile that the group names,
\* or of the legacy settings in its place.
THEOREM ReadyOnItsWord == Spec => []ReadyWasChecked
<1>1. IInv => ReadyWasChecked
  BY DEF IInv, Checked, ReadyWasChecked
<1> QED
  BY <1>1, Inductive, PTL

\* A NAS that comes up while the loop sleeps past its deadline is still found.
THEOREM UpInTimeIsFound == Spec => []FoundWhenUpInTime
<1>1. IInv => FoundWhenUpInTime
  BY DEF IInv, UpSince, FoundWhenUpInTime
<1> QED
  BY <1>1, Inductive, PTL

\* However long its gate takes, a run that is cancelled before the gate has
\* answered acts on nothing.
THEOREM CancelledRunsDoNotAct == Spec => []CancelledActsOnNothing
<1>1. IInv => CancelledActsOnNothing
  BY DEF IInv, ActsLast, CancelledActsOnNothing
<1> QED
  BY <1>1, Inductive, PTL

\* For any number of groups, the page starts or reports each of them, unless
\* sending a packet raises.
THEOREM PageAnswersEachGroup == Spec => []EveryGroupIsAnswered
<1>1. IInv => EveryGroupIsAnswered
  BY DEF IInv, AnsweredSoFar, EveryGroupIsAnswered
<1> QED
  BY <1>1, Inductive, PTL

-----------------------------------------------------------------------------
(* The gate as ActionEngine has it *)

LEMMA OneRun == Engine!Runs = {1} /\ 1 \in Engine!Runs
BY DEF Engine!Runs

\* What ActionEngine takes from FiniteSets is what this module takes.
LEMMA SameCardinality == \A S : Engine!Cardinality(S) = Cardinality(S)
BY DEF Engine!Cardinality, Cardinality

LEMMA RowStands == Engine!Step => Engine!Next
<1> SUFFICES ASSUME Engine!Step PROVE Engine!Next
  OBVIOUS
<1>1. Engine!TargetRefs("group")' = {"container"} /\ Engine!Target("group")' = "group"
  BY DEF Engine!TargetRefs, Engine!Target
<1>2. Engine!Newer(1)' = {}
  BY OneRun DEF Engine!Newer, Engine!Rows
<1>3. Engine!Listed(1)'
  <2>1. Engine!Cardinality(Engine!Newer(1)') = 0
    BY <1>2, FS_EmptySet, SameCardinality
  <2> QED
    BY <2>1 DEF Engine!Listed
<1>4. \A r \in Engine!Runs : Engine!Described(r)'
  BY <1>1, <1>3, OneRun DEF Engine!Described, Engine!ContainersOf, TheRun
<1> QED
  BY <1>4 DEF Engine!Next

LEMMA TakesStep == Engine!RunStep(1) \/ Engine!CancelRun(1) => Engine!Next
BY RowStands, OneRun DEF Engine!Step

\* What the gate does while the run waits for it.
LEMMA Unnoticed ==
  ASSUME UNCHANGED <<Place, Begun, Result, cancelled>>
  PROVE  UNCHANGED Engine!vars
BY DEF Engine!vars, Engine!core, Engine!configVars, Engine!rowVars, Engine!goalVars,
  Engine!searchVars, Engine!waitVars, Engine!workVars, TheRun

LEMMA Opens ==
  ASSUME Place = "gate", Place' = "step", UNCHANGED <<Begun, Result, cancelled>>
  PROVE  Engine!Next
<1>1. Engine!NasReady(1)
  BY DEF Engine!NasReady, Engine!Goto, Engine!configVars, Engine!rowVars, Engine!goalVars,
    Engine!searchVars, Engine!waitVars, Engine!workVars, TheRun
<1> QED
  BY <1>1, TakesStep DEF Engine!RunStep

LEMMA Refuses ==
  ASSUME Place = "gate", Place' = "finish", Result' = "failed", UNCHANGED <<Begun, cancelled>>
  PROVE  Engine!Next
<1>1. Engine!NasNotReady(1)
  BY DEF Engine!NasNotReady, Engine!EndWith, Engine!Goto, Engine!configVars, Engine!rowVars,
    Engine!goalVars, Engine!searchVars, Engine!waitVars, TheRun
<1> QED
  BY <1>1, TakesStep DEF Engine!RunStep

LEMMA Begins ==
  ASSUME Place = "step", Place' = "acting", ~ cancelled, Begun = {}, Begun' = {"container"},
         UNCHANGED <<Result, cancelled>>
  PROVE  Engine!Next
<1>1. Engine!BeginStep(1, "container")
  BY DEF Engine!BeginStep, Engine!CancelSeen, Engine!Goto, Engine!configVars, Engine!rowVars,
    Engine!goalVars, Engine!searchVars, Engine!waitVars, TheRun
<1> QED
  BY <1>1, TakesStep DEF Engine!RunStep

LEMMA Stops ==
  ASSUME Place = "step", Place' = "finish", cancelled, Result' = "cancelled",
         UNCHANGED <<Begun, cancelled>>
  PROVE  Engine!Next
<1>1. Engine!StopForCancel(1)
  BY DEF Engine!StopForCancel, Engine!CancelSeen, Engine!EndWith, Engine!Goto, Engine!configVars,
    Engine!rowVars, Engine!goalVars, Engine!searchVars, Engine!waitVars, TheRun
<1> QED
  BY <1>1, TakesStep DEF Engine!RunStep

LEMMA IsCancelled ==
  ASSUME ~ cancelled, cancelled', UNCHANGED <<Place, Begun, Result>>
  PROVE  Engine!Next
<1>1. Engine!CancelRun(1)
  BY DEF Engine!CancelRun, Engine!configVars, Engine!threadVars,
    Engine!goalVars, Engine!searchVars, Engine!waitVars, Engine!workVars, TheRun
<1> QED
  BY <1>1, TakesStep

\* No gate has answered before it has returned.
Silent ==
  /\ caller \in {"run", "page"}
  /\ caller = "run" /\ pc \notin {"answered", "done"} => ~ answer

LEMMA StepSilent ==
  ASSUME IInv, Silent, [Next]_vars
  PROVE  Silent'
<1> USE DEF Silent, Return, configVars, gateVars, callerVars
<1>1. CASE Gate
  BY <1>1 DEF Gate, CurrentStatus, CheckReads, Ping, Wake, SendPacket, PacketRaises, While, SleepEnds
<1>2. CASE Caller
  BY <1>2 DEF Caller, RunActs, RunFails, PageStarts, PageReports, PageRaises
<1>3. CASE DeadlinePasses \/ RequestCancel
  BY <1>3 DEF DeadlinePasses, RequestCancel
<1>4. CASE \/ \E p \in Profiles : DeleteProfile(p) \/ \E row \in ProfileRows : SaveProfile(p, row)
           \/ \E enabled \in BOOLEAN : UpdateSettings(enabled)
           \/ \E h \in Hosts : NasChanges(h)
  BY <1>4 DEF DeleteProfile, SaveProfile, UpdateSettings, Edit, NasChanges
<1>5. CASE UNCHANGED vars
  BY <1>5 DEF vars
<1> QED
  BY <1>1, <1>2, <1>3, <1>4, <1>5 DEF Next

LEMMA GateImplements ==
  ASSUME IInv, Silent, [Next]_vars
  PROVE  [Engine!Next]_(Engine!vars)
<1> USE DEF Return, configVars, gateVars, callerVars
<1>0. /\ answer \in BOOLEAN /\ cancelled \in BOOLEAN /\ caller \in {"run", "page"}
      /\ acting = TRUE => pc = "done" /\ caller = "run"
      /\ caller = "run" /\ pc \notin {"answered", "done"} => ~ answer
  BY DEF IInv, ActsLast, Silent
\* Of the page's gates the engine sees nothing.
<1>1. ASSUME caller = "page", UNCHANGED <<caller, cancelled, acting>>
      PROVE  [Engine!Next]_(Engine!vars)
  BY <1>0, <1>1, Unnoticed DEF Place, Begun, Result
<1>2. CASE Gate
  <2>1. /\ pc \notin {"answered", "done"} /\ pc' # "done"
        /\ UNCHANGED <<caller, cancelled, acting>>
    BY <1>2 DEF Gate, CurrentStatus, CheckReads, Ping, Wake, SendPacket, PacketRaises, While, SleepEnds
  <2>2. CASE caller = "run"
    <3>1. Place = "gate" /\ Begun' = Begun /\ Result = "none"
      BY <1>0, <2>1, <2>2 DEF Place, Begun, Result
    <3>2. CASE pc' = "answered" /\ answer'
      BY <2>1, <2>2, <3>1, <3>2, Opens DEF Place, Result
    <3>3. CASE ~ (pc' = "answered" /\ answer')
      BY <2>1, <2>2, <3>1, <3>3, Unnoticed DEF Place, Result
    <3> QED
      BY <3>2, <3>3
  <2> QED
    BY <1>0, <1>1, <2>1, <2>2
<1>3. CASE Caller
  <2>1. CASE RunActs
    <3>1. /\ Place = "step" /\ Begun = {} /\ Result = "none"
          /\ answer = TRUE /\ answer' = TRUE /\ pc' = "done" /\ caller' = "run" /\ cancelled' = cancelled
      BY <1>0, <2>1 DEF RunActs, Place, Begun, Result
    <3>2. CASE cancelled
      <4>1. acting' = FALSE
        BY <2>1, <3>2 DEF RunActs
      <4> QED
        BY <3>1, <3>2, <4>1, Stops DEF Place, Begun, Result
    <3>3. CASE ~ cancelled
      <4>1. acting' = TRUE
        BY <2>1, <3>3 DEF RunActs
      <4> QED
        BY <3>1, <3>3, <4>1, Begins DEF Place, Begun, Result
    <3> QED
      BY <3>2, <3>3
  <2>2. CASE RunFails
    <3>1. /\ ~ acting /\ ~ answer /\ caller = "run" /\ pc' = "done"
          /\ UNCHANGED <<acting, answer, caller, cancelled>>
      BY <1>0, <2>2 DEF RunFails
    <3> QED
      BY <2>2, <3>1, Refuses DEF RunFails, Place, Begun, Result
  <2>3. CASE PageStarts \/ PageReports \/ PageRaises
    BY <1>1, <2>3 DEF PageStarts, PageReports, PageRaises
  <2> QED
    BY <1>3, <2>1, <2>2, <2>3 DEF Caller
<1>4. CASE DeadlinePasses
  BY <1>4, Unnoticed DEF DeadlinePasses, Place, Begun, Result
<1>5. CASE RequestCancel
  BY <1>5, IsCancelled DEF RequestCancel, Place, Begun, Result
<1>6. CASE \/ \E p \in Profiles : DeleteProfile(p) \/ \E row \in ProfileRows : SaveProfile(p, row)
           \/ \E enabled \in BOOLEAN : UpdateSettings(enabled)
           \/ \E h \in Hosts : NasChanges(h)
  <2>1. UNCHANGED <<pc, answer, caller, cancelled, acting>>
    BY <1>6 DEF DeleteProfile, SaveProfile, UpdateSettings, Edit, NasChanges
  <2> QED
    BY <2>1, Unnoticed DEF Place, Begun, Result
<1>7. CASE UNCHANGED vars
  BY <1>7, Unnoticed DEF vars, Place, Begun, Result
<1> QED
  BY <1>2, <1>3, <1>4, <1>5, <1>6, <1>7 DEF Next

\* require_ready and what its caller does with the answer are what ActionEngine
\* takes a gate to be, for any profiles, edits and answers of the NAS.
THEOREM GateIsTheGate == Spec => ImplementsGate
<1>1. Init => Place = "gate" /\ Begun = {} /\ Result = "none" /\ Silent
  BY DEF Init, Place, Begun, Result, Silent
<1>2. IInv /\ Silent /\ [Next]_vars => Silent'
  BY StepSilent
<1>3. IInv /\ Silent /\ [Next]_vars => [Engine!Next]_(Engine!vars)
  BY GateImplements
<1> QED
  BY <1>1, <1>2, <1>3, Inductive, PTL DEF Spec, ImplementsGate

-----------------------------------------------------------------------------
(* Towards GateAnswers *)

Polls == pc \in {"loop", "sleep"} => polling

InLoop == polling /\ pc \in {"loop", "sleep", "check", "ping"}

\* How many steps the caller has before it at most, the polls until the deadline
\* counted as one.
StepsLeft ==
  11 * (Len(queue) - index) +
    CASE InLoop /\ ~ late -> 6
      [] InLoop /\ late -> (CASE pc = "sleep" -> 5 [] pc = "check" -> 4 [] pc = "ping" -> 3 [] OTHER -> 2)
      [] ~ InLoop -> (CASE pc = "status" -> 11 [] pc = "check" -> 10 [] pc = "ping" -> 9
                        [] pc = "wake" -> 8 [] pc = "packet" -> 7 [] pc \in {"answered", "raised"} -> 1
                        [] OTHER -> 0)

LEMMA StepPolls ==
  ASSUME Polls, [Next]_vars
  PROVE  Polls'
<1> USE DEF Polls, Return, configVars, gateVars, callerVars
<1>1. CASE Gate
  BY <1>1 DEF Gate, CurrentStatus, CheckReads, Ping, Wake, SendPacket, PacketRaises, While, SleepEnds
<1>2. CASE Caller
  BY <1>2 DEF Caller, RunActs, RunFails, PageStarts, PageReports, PageRaises, NextGroup
<1>3. CASE DeadlinePasses \/ RequestCancel
  BY <1>3 DEF DeadlinePasses, RequestCancel
<1>4. CASE \/ \E p \in Profiles : DeleteProfile(p) \/ \E row \in ProfileRows : SaveProfile(p, row)
           \/ \E enabled \in BOOLEAN : UpdateSettings(enabled)
           \/ \E h \in Hosts : NasChanges(h)
  BY <1>4 DEF DeleteProfile, SaveProfile, UpdateSettings, Edit, NasChanges
<1>5. CASE UNCHANGED vars
  BY <1>5 DEF vars
<1> QED
  BY <1>1, <1>2, <1>3, <1>4, <1>5 DEF Next

LEMMA StepsCount ==
  ASSUME AnsweredSoFar, Polls, Gate \/ Caller
  PROVE  StepsLeft' < StepsLeft \/ (InLoop /\ ~ late /\ StepsLeft' = StepsLeft)
<1> USE DEF AnsweredSoFar, Places, Polls, InLoop, StepsLeft, Return, callerVars
<1>1. CASE CurrentStatus \/ CheckReads
  BY <1>1 DEF CurrentStatus, CheckReads
<1>2. CASE Ping
  BY <1>2 DEF Ping
<1>3. CASE Wake \/ SendPacket \/ PacketRaises
  BY <1>3 DEF Wake, SendPacket, PacketRaises
<1>4. CASE While \/ SleepEnds
  BY <1>4 DEF While, SleepEnds
<1>5. CASE RunActs \/ RunFails \/ PageRaises
  BY <1>5 DEF RunActs, RunFails, PageRaises
<1>6. CASE PageStarts \/ PageReports
  BY <1>6 DEF PageStarts, PageReports, NextGroup
<1> QED
  BY <1>1, <1>2, <1>3, <1>4, <1>5, <1>6 DEF Gate, Caller

\* What the caller does brings it closer to its end, but for the polls before the
\* deadline; the deadline does, too, and no edit, cancellation or change of a NAS
\* takes it back.  With a deadline that comes, each gate ends: no profile that is
\* edited meanwhile and no NAS that comes and goes keeps require_ready in its loop.
THEOREM GatesAreBounded ==
  Spec => /\ [](StepsLeft \in 0 .. 11 * Len(queue))
          /\ [][ IF Gate \/ Caller
                   THEN StepsLeft' < StepsLeft \/ (InLoop /\ ~ late /\ StepsLeft' = StepsLeft)
                   ELSE IF DeadlinePasses THEN StepsLeft' < StepsLeft
                                          ELSE StepsLeft' = StepsLeft ]_vars
<1>1. Init => Polls
  BY DEF Init, Polls
<1>2. IInv => StepsLeft \in 0 .. 11 * Len(queue)
  BY DEF IInv, AnsweredSoFar, Places, StepsLeft, InLoop
<1>3. IInv /\ Polls /\ [Next]_vars
        => [IF Gate \/ Caller
              THEN StepsLeft' < StepsLeft \/ (InLoop /\ ~ late /\ StepsLeft' = StepsLeft)
              ELSE IF DeadlinePasses THEN StepsLeft' < StepsLeft
                                     ELSE StepsLeft' = StepsLeft]_vars
  <2>1. ASSUME IInv, Polls, Gate \/ Caller
        PROVE  StepsLeft' < StepsLeft \/ (InLoop /\ ~ late /\ StepsLeft' = StepsLeft)
    BY <2>1, StepsCount DEF IInv
  <2>2. ASSUME IInv, DeadlinePasses PROVE StepsLeft' < StepsLeft
    BY <2>2 DEF IInv, AnsweredSoFar, DeadlinePasses, StepsLeft, InLoop, callerVars
  <2>3. ASSUME \/ RequestCancel
               \/ \E p \in Profiles : DeleteProfile(p) \/ \E row \in ProfileRows : SaveProfile(p, row)
               \/ \E enabled \in BOOLEAN : UpdateSettings(enabled)
               \/ \E h \in Hosts : NasChanges(h)
        PROVE  UNCHANGED <<gateVars, queue, index>>
    BY <2>3 DEF RequestCancel, DeleteProfile, SaveProfile, UpdateSettings, Edit, NasChanges, callerVars
  <2>4. ASSUME UNCHANGED <<gateVars, queue, index>> PROVE StepsLeft' = StepsLeft
    BY <2>4 DEF StepsLeft, InLoop, gateVars
  <2> QED
    BY <2>1, <2>2, <2>3, <2>4 DEF Next
<1> QED
  BY <1>1, <1>2, <1>3, StepPolls, Inductive, PTL DEF Spec
=============================================================================
