------------------------- MODULE ActionEngineProofs -------------------------
(***************************************************************************)
(* Proofs about ActionEngine, for every number of runs, every set of       *)
(* containers, groups and schedules: its types, the exclusion that the     *)
(* conflict check achieves, and that it implements ExclusiveControl.       *)
(***************************************************************************)
EXTENDS ActionEngine, FiniteSetTheorems, TLAPS

LEMMA TargetRefsType ==
  ASSUME groups \in [Groups -> {NoGroup} \cup SUBSET Refs], NEW t
  PROVE  TargetRefs(t) \subseteq Refs
BY DEF TargetRefs

LEMMA RunTargetRefsType ==
  ASSUME groups \in [Groups -> {NoGroup} \cup SUBSET Refs], NEW s
  PROVE  RunTargetRefs(s) \subseteq Refs
BY TargetRefsType DEF RunTargetRefs

LEMMA AliasesType ==
  ASSUME NEW S \in SUBSET Refs, NEW resolved
  PROVE  Aliases(S, resolved) \in SUBSET Refs /\ S \subseteq Aliases(S, resolved)
BY DEF Aliases

-----------------------------------------------------------------------------
(* Types *)

LEMMA InitTypeOK == Init => TypeOK
<1> USE ChoiceAssumption, SourceAssumption
<1> SUFFICES ASSUME Init PROVE TypeOK
  OBVIOUS
<1>1. ConfigTypeOK
  BY DEF Init, ConfigTypeOK
<1>2. RowTypeOK
  BY DEF Init, RowTypeOK, Statuses, Sources
<1>3. ThreadTypeOK
  BY DEF Init, ThreadTypeOK, Statuses, Places, Policies
<1>4. astray \in SUBSET Runs
  BY DEF Init
<1> QED
  BY <1>1, <1>2, <1>3, <1>4 DEF TypeOK

\* What the frame conditions of the actions expand to.
LEMMA RunStepTypeOK ==
  ASSUME TypeOK, NEW r \in Runs, RunStep(r)
  PROVE  ConfigTypeOK' /\ RowTypeOK' /\ ThreadTypeOK'
<1> USE DEF TypeOK, ConfigTypeOK, RowTypeOK, ThreadTypeOK, configVars, rowVars,
          goalVars, searchVars, waitVars, workVars, Goto, EndWith
<1> USE DEF Statuses, Places, Engaged, Searching, Control
<1>1. ASSUME CreateRow(r) PROVE ConfigTypeOK' /\ RowTypeOK' /\ ThreadTypeOK'
  BY <1>1 DEF CreateRow
<1>2. ASSUME LoadGroup(r) PROVE ConfigTypeOK' /\ RowTypeOK' /\ ThreadTypeOK'
  BY TargetRefsType, <1>2 DEF LoadGroup
<1>3. ASSUME GroupMissing(r) PROVE ConfigTypeOK' /\ RowTypeOK' /\ ThreadTypeOK'
  BY <1>3 DEF GroupMissing
<1>4. ASSUME List(r) PROVE ConfigTypeOK' /\ RowTypeOK' /\ ThreadTypeOK'
  BY AliasesType, <1>4 DEF List, ListedRuns, Rows
<1>5. ASSUME Admit(r) PROVE ConfigTypeOK' /\ RowTypeOK' /\ ThreadTypeOK'
  BY <1>5 DEF Admit
<1>6. ASSUME Refuse(r) PROVE ConfigTypeOK' /\ RowTypeOK' /\ ThreadTypeOK'
  BY <1>6 DEF Refuse
<1>7. ASSUME StartCancelling(r) PROVE ConfigTypeOK' /\ RowTypeOK' /\ ThreadTypeOK'
  BY <1>7 DEF StartCancelling
<1>8. ASSUME KeepWaiting(r) PROVE ConfigTypeOK' /\ RowTypeOK' /\ ThreadTypeOK'
  BY <1>8 DEF KeepWaiting
<1>9. ASSUME GiveUp(r) PROVE ConfigTypeOK' /\ RowTypeOK' /\ ThreadTypeOK'
  BY <1>9 DEF GiveUp
<1>10. ASSUME NEW q \in Runs, Examine(r, q) \/ ExamineGroup(r, q) PROVE ConfigTypeOK' /\ RowTypeOK' /\ ThreadTypeOK'
  BY <1>10 DEF Examine, ExamineGroup, Compare
<1>11. ASSUME NEW q \in Runs, RequestCancel(r, q) PROVE ConfigTypeOK' /\ RowTypeOK' /\ ThreadTypeOK'
  BY <1>11 DEF RequestCancel
<1>12. ASSUME NasReady(r) PROVE ConfigTypeOK' /\ RowTypeOK' /\ ThreadTypeOK'
  BY <1>12 DEF NasReady
<1>13. ASSUME NasNotReady(r) PROVE ConfigTypeOK' /\ RowTypeOK' /\ ThreadTypeOK'
  BY <1>13 DEF NasNotReady
<1>14. ASSUME NEW x \in Refs, BeginStep(r, x) PROVE ConfigTypeOK' /\ RowTypeOK' /\ ThreadTypeOK'
  BY <1>14 DEF BeginStep
<1>15. ASSUME StopForCancel(r) PROVE ConfigTypeOK' /\ RowTypeOK' /\ ThreadTypeOK'
  BY <1>15 DEF StopForCancel
<1>16. ASSUME StepImpossible(r) PROVE ConfigTypeOK' /\ RowTypeOK' /\ ThreadTypeOK'
  BY <1>16 DEF StepImpossible
<1>17. ASSUME NEW failed \in BOOLEAN, EndStep(r, failed) PROVE ConfigTypeOK' /\ RowTypeOK' /\ ThreadTypeOK'
  BY <1>17 DEF EndStep
<1>18. ASSUME StepFails(r) PROVE ConfigTypeOK' /\ RowTypeOK' /\ ThreadTypeOK'
  BY <1>18 DEF StepFails
<1>19. ASSUME FinishRun(r) PROVE ConfigTypeOK' /\ RowTypeOK' /\ ThreadTypeOK'
  BY <1>19 DEF FinishRun
<1>20. ASSUME NEW q \in Runs, Follow(r, q) PROVE ConfigTypeOK' /\ RowTypeOK' /\ ThreadTypeOK'
  BY <1>20 DEF Follow
<1> QED
  BY <1>1, <1>2, <1>3, <1>4, <1>5, <1>6, <1>7, <1>8, <1>9, <1>10, <1>11, <1>12, <1>13, <1>14, <1>15, <1>16, <1>17, <1>18, <1>19, <1>20 DEF RunStep

LEMMA StepTypeOK ==
  ASSUME TypeOK, Step
  PROVE  ConfigTypeOK' /\ RowTypeOK' /\ ThreadTypeOK'
<1> USE DEF TypeOK, ConfigTypeOK, RowTypeOK, ThreadTypeOK, configVars, rowVars,
          goalVars, searchVars, waitVars, workVars, threadVars, core, Goto
<1> USE DEF Statuses, Places, Engaged, Searching, Control, Sources
<1>1. ASSUME NEW r \in Runs, NEW s \in Requestable, NEW p \in Policies, Request(r, s, p)
      PROVE ConfigTypeOK' /\ RowTypeOK' /\ ThreadTypeOK'
  <2>1. s \in Sources
    BY ChoiceAssumption
  <2>2. TargetRefs(s) \subseteq Refs
    BY TargetRefsType
  <2>3. Target(s) \in Refs \cup Groups \cup {NoTarget}
    BY <2>1 DEF Target
  <2> QED
    BY <1>1, <2>1, <2>2, <2>3 DEF Request
<1>2. ASSUME NEW r \in Runs, RunStep(r)
      PROVE ConfigTypeOK' /\ RowTypeOK' /\ ThreadTypeOK'
  BY <1>2, RunStepTypeOK
<1>3. ASSUME NEW r \in Runs, DeadlinePasses(r)
      PROVE ConfigTypeOK' /\ RowTypeOK' /\ ThreadTypeOK'
  BY <1>3 DEF DeadlinePasses
<1>4. ASSUME NEW r \in Runs, SearchRaises(r)
      PROVE ConfigTypeOK' /\ RowTypeOK' /\ ThreadTypeOK'
  BY <1>4 DEF SearchRaises
<1>5. ASSUME NEW r \in Runs, CancelRun(r)
      PROVE ConfigTypeOK' /\ RowTypeOK' /\ ThreadTypeOK'
  BY <1>5 DEF CancelRun
<1>6. ASSUME NEW g \in Groups, DeleteGroup(g)
      PROVE ConfigTypeOK' /\ RowTypeOK' /\ ThreadTypeOK'
  BY <1>6 DEF DeleteGroup
<1>7. ASSUME NEW g \in Groups, NEW S \in GroupChoices, UpdateGroup(g, S)
      PROVE ConfigTypeOK' /\ RowTypeOK' /\ ThreadTypeOK'
  BY <1>7, ChoiceAssumption DEF UpdateGroup
<1>8. ASSUME NEW s \in Schedules, NEW t \in ScheduleChoices, UpdateSchedule(s, t)
      PROVE ConfigTypeOK' /\ RowTypeOK' /\ ThreadTypeOK'
  BY <1>8, ChoiceAssumption DEF UpdateSchedule
<1>9. ASSUME NEW k \in Runs, Compact(k)
      PROVE ConfigTypeOK' /\ RowTypeOK' /\ ThreadTypeOK'
  BY <1>9 DEF Compact
<1>10. ASSUME Restore
       PROVE ConfigTypeOK' /\ RowTypeOK' /\ ThreadTypeOK'
  BY <1>10, ChoiceAssumption DEF Restore
<1>11. ASSUME Restart
       PROVE ConfigTypeOK' /\ RowTypeOK' /\ ThreadTypeOK'
  BY <1>11 DEF Restart
<1>12. ASSUME Quiet
       PROVE ConfigTypeOK' /\ RowTypeOK' /\ ThreadTypeOK'
  BY <1>12 DEF Quiet
<1> QED
  BY <1>1, <1>2, <1>3, <1>4, <1>5, <1>6, <1>7, <1>8, <1>9, <1>10, <1>11, <1>12 DEF Step

LEMMA NextTypeOK == TypeOK /\ [Next]_vars => TypeOK'
<1> SUFFICES ASSUME TypeOK, [Next]_vars PROVE TypeOK'
  OBVIOUS
<1>1. CASE Next
  <2>1. ConfigTypeOK' /\ RowTypeOK' /\ ThreadTypeOK'
    BY <1>1, StepTypeOK DEF Next
  <2>2. (astray \in SUBSET Runs)'
    BY <1>1 DEF Next, TypeOK
  <2> QED
    BY <2>1, <2>2 DEF TypeOK
<1>2. CASE UNCHANGED vars
  BY <1>2 DEF vars, core, configVars, rowVars, goalVars, searchVars, waitVars,
     workVars, TypeOK, ConfigTypeOK, RowTypeOK, ThreadTypeOK
<1> QED
  BY <1>1, <1>2

\* The tables and every thread's variables keep their types, whatever happens.
THEOREM TypeCorrect == Spec => []TypeOK
BY InitTypeOK, NextTypeOK, PTL DEF Spec

-----------------------------------------------------------------------------
(* Exclusion *)

\* Docker resolves every name.
Complete == "lookup" \notin Disturbances

\* While the table has no more rows than a search lists, it lists each of them.
LEMMA AllListed ==
  ASSUME MaxRuns <= ListLimit, NEW s \in Runs
  PROVE  Listed(s)
<1>1. IsFiniteSet(Runs) /\ Cardinality(Runs) = MaxRuns
  BY CountAssumption, FS_Interval DEF Runs
<1>2. IsFiniteSet(Runs \ {s}) /\ Cardinality(Runs \ {s}) = MaxRuns - 1
  BY <1>1, FS_RemoveElement
<1>3. Newer(s) \in SUBSET (Runs \ {s})
  BY DEF Newer, Rows, Runs
<1>4. IsFiniteSet(Newer(s)) /\ Cardinality(Newer(s)) <= MaxRuns - 1
  BY <1>2, <1>3, FS_Subset
<1>5. Cardinality(Newer(s)) \in Nat
  BY <1>4, FS_CardinalityType
<1> QED
  BY <1>4, <1>5, CountAssumption DEF Listed

\* An overlapping run whose row describes it is found when what its target now has
\* is compared.
LEMMA OverlapIsFound ==
  ASSUME TypeOK, NEW r \in Runs, NEW s \in Runs, Overlap(r, s), Described(s)
  PROVE  Aliases(plan[r], plan[r])
           \cap Aliases(TargetRefs(aim[s]), TargetRefs(aim[s])) # {}
<1> DEFINE cur == TargetRefs(aim[s])
<1>1. plan[r] \subseteq Refs /\ cur \subseteq Refs
  BY TargetRefsType DEF TypeOK, ConfigTypeOK, ThreadTypeOK
<1>2. PICK x \in plan[r], y \in cur : ContainerOf[x] = ContainerOf[y]
  BY DEF Overlap, Described, ContainersOf
<1>3. y \in Aliases(plan[r], plan[r]) /\ y \in Aliases(cur, cur)
  BY <1>1, <1>2 DEF Aliases, ContainersOf
<1> QED
  BY <1>3

\* A step of r alone preserves OneIsAware if r, where it is now, is aware of the
\* others or known to them.
LEMMA OwnStep ==
  ASSUME NEW r \in Runs, OneIsAware, astray \subseteq astray',
         \A q \in Runs \ {r} :
           /\ pc'[q] = pc[q] /\ plan'[q] = plan[q] /\ aim'[q] = aim[q] /\ cids'[q] = cids[q]
           /\ todo'[q] = todo[q] /\ hits'[q] = hits[q] /\ via'[q] = via[q],
         pc'[r] \in Engaged => aim'[r] = aim[r],
         \A s \in Runs \ (astray' \cup {r}) :
           r \notin astray' /\ pc'[r] \in Engaged /\ pc[s] \in Engaged /\ Overlap(r, s)'
             => Aware(r, s)' \/ Aware(s, r)
  PROVE  OneIsAware'
<1> SUFFICES ASSUME NEW a \in Runs \ astray', NEW b \in Runs \ astray', a # b,
                    pc'[a] \in Engaged, pc'[b] \in Engaged, Overlap(a, b)'
             PROVE  Aware(a, b)' \/ Aware(b, a)'
  BY DEF OneIsAware
<1>1. CASE a = r
  <2>1. Aware(b, a)' <=> Aware(b, a)
    BY <1>1 DEF Aware, Examines
  <2> QED
    BY <1>1, <2>1
<1>2. CASE b = r
  <2>1. Aware(a, b)' <=> Aware(a, b)
    BY <1>2 DEF Aware, Examines
  <2>2. Overlap(b, a)'
    BY DEF Overlap
  <2> QED
    BY <1>2, <2>1, <2>2
<1>3. CASE a # r /\ b # r
  <2>1. Overlap(a, b)
    BY <1>3 DEF Overlap
  <2>2. Aware(a, b) \/ Aware(b, a)
    BY <1>3, <2>1 DEF OneIsAware
  <2>3. aim'[a] = aim[a] /\ aim'[b] = aim[b]
    BY <1>3
  <2> QED
    BY <1>3, <2>2, <2>3 DEF Aware, Examines
<1> QED
  BY <1>1, <1>2, <1>3

\* Where r is now it cannot have lost sight of anyone: the cases of RunStep.
LEMMA RunStepAware ==
  ASSUME Complete, ConflictInv, NEW r \in Runs, RunStep(r), astray \subseteq astray'
  PROVE  OneIsAware'
<1> USE DEF configVars, rowVars, goalVars, searchVars, waitVars, workVars, Goto, EndWith
<1> USE DEF Engaged, Searching, Control
<1>0. TypeOK /\ OneIsAware /\ SearchState /\ RowsDescribe
  BY DEF ConflictInv
<1>t. ThreadTypeOK /\ RowTypeOK
  BY <1>0 DEF TypeOK
<1> USE <1>0, <1>t DEF ThreadTypeOK
<1> DEFINE Alone ==
      \A q \in Runs \ {r} :
        /\ pc'[q] = pc[q] /\ plan'[q] = plan[q] /\ aim'[q] = aim[q] /\ cids'[q] = cids[q]
        /\ todo'[q] = todo[q] /\ hits'[q] = hits[q] /\ via'[q] = via[q]
<1> DEFINE Safe ==
      \A s \in Runs \ (astray' \cup {r}) :
        r \notin astray' /\ pc'[r] \in Engaged /\ pc[s] \in Engaged /\ Overlap(r, s)'
          => Aware(r, s)' \/ Aware(s, r)
<1>g. aim' = aim
  BY DEF RunStep, CreateRow, LoadGroup, GroupMissing, List, Admit, Refuse,
    StartCancelling, KeepWaiting, GiveUp, Follow, Examine, ExamineGroup, Compare, RequestCancel,
    NasReady, NasNotReady, BeginStep, StopForCancel, StepImpossible, EndStep, StepFails, FinishRun
<1>a. ASSUME Alone, pc'[r] \notin Engaged PROVE OneIsAware'
  BY <1>a, <1>g, OwnStep
<1>b. ASSUME Alone, Safe PROVE OneIsAware'
  BY <1>b, <1>g, OwnStep
\* Before the step, one of r and an overlapping s was aware of the other.
<1>c. ASSUME Alone, pc[r] \in Engaged, plan'[r] = plan[r],
             NEW s \in Runs \ (astray' \cup {r}),
             r \notin astray', pc[s] \in Engaged, Overlap(r, s)'
      PROVE  Overlap(r, s) /\ (Aware(r, s) \/ Aware(s, r))
  <2>1. Overlap(r, s)
    BY <1>c DEF Overlap
  <2> QED
    BY <1>c, <2>1 DEF OneIsAware
<1>1. CASE CreateRow(r)
  <2>1. Alone
    BY <1>1 DEF CreateRow
  <2>2. pc'[r] \in Engaged => \A s \in Runs : Aware(r, s)'
    BY <1>1 DEF CreateRow, Aware, SearchState
  <2> QED
    BY <2>1, <2>2, <1>b
<1>2. CASE LoadGroup(r)
  <2>1. Alone
    BY <1>2 DEF LoadGroup
  <2>2. \A s \in Runs : Aware(r, s)'
    BY <1>2 DEF LoadGroup, Aware, SearchState
  <2> QED
    BY <2>1, <2>2, <1>b
<1>3. CASE List(r)
  <2>1. Alone
    BY <1>3 DEF List
  <2>2. ASSUME NEW s \in Runs \ (astray' \cup {r}),
               r \notin astray', pc[s] \in Engaged, Overlap(r, s)'
        PROVE  Aware(r, s)' \/ Aware(s, r)
    <3>1. plan'[r] = plan[r] /\ pc[r] \in Engaged
      BY <1>3 DEF List
    <3>2. Overlap(r, s) /\ (Aware(r, s) \/ Aware(s, r))
      BY <2>1, <2>2, <3>1, <1>c
    <3>4. s \in ListedRuns(r)
      BY <2>2 DEF RowsDescribe, Described, ListedRuns, Rows
    <3>5. plan[r] # {}
      BY <3>2 DEF Overlap, ContainersOf
    <3>6. s \in todo'[r]
      BY <1>3, <3>4, <3>5 DEF List
    <3>7. CASE Aware(r, s)
      BY <1>3, <3>6, <3>7 DEF List, Aware
    <3> QED
      BY <3>2, <3>7
  <2> QED
    BY <2>1, <2>2, <1>b
\* What a row's target was read to have is compared: if it is s's, s is a hit.
<1>d. ASSUME NEW q \in Runs, NEW T, Compare(r, q, T), pc[r] \in {"examine", "follow"},
             \A s \in Runs \ (astray' \cup {r}) :
               pc[s] \in Engaged /\ s = q /\ Aware(r, s) => T = TargetRefs(aim[s])
      PROVE  OneIsAware'
  <2>1. Alone
    BY <1>d DEF Compare
  <2>2. ASSUME NEW s \in Runs \ (astray' \cup {r}),
               r \notin astray', pc[s] \in Engaged, Overlap(r, s)'
        PROVE  Aware(r, s)' \/ Aware(s, r)
    <3>1. plan'[r] = plan[r] /\ pc[r] \in Engaged
      BY <1>d DEF Compare
    <3>2. Overlap(r, s) /\ (Aware(r, s) \/ Aware(s, r))
      BY <2>1, <2>2, <3>1, <1>c
    <3>3. Described(s)
      BY <2>2 DEF RowsDescribe
    <3>4. Aware(r, s) /\ s = q => s \in hits'[r]
      <4>1. wanted[r] = Aliases(plan[r], plan[r])
        BY <1>d DEF SearchState
      <4>2. Lookups(T) = {T}
        BY DEF Lookups, Complete
      <4>3. Aware(r, s) /\ s = q => wanted[r] \cap Aliases(T, T) # {}
        BY <1>d, <2>2, <3>2, <3>3, <4>1, OverlapIsFound
      <4> QED
        BY <1>d, <4>2, <4>3 DEF Compare
    <3>5. CASE Aware(r, s)
      BY <1>d, <3>4, <3>5 DEF Compare, Aware
    <3> QED
      BY <3>2, <3>5
  <2> QED
    BY <2>1, <2>2, <1>b
<1>4. ASSUME NEW q \in Runs, Examine(r, q)
      PROVE  OneIsAware'
  <2>1. ASSUME NEW s \in Runs \ (astray' \cup {r}), pc[s] \in Engaged, s = q
        PROVE  RunTargetRefs(src[q]) = TargetRefs(aim[s])
    BY <2>1 DEF RowsDescribe, Described, RunTargetRefs
  <2> QED
    BY <1>4, <2>1, <1>d DEF Examine
<1>8. ASSUME NEW q \in Runs, ExamineGroup(r, q)
      PROVE  OneIsAware'
  <2>1. ASSUME NEW s \in Runs \ (astray' \cup {r}), s = q, Aware(r, s)
        PROVE  TargetRefs(via[r]) = TargetRefs(aim[s])
    BY <1>8, <2>1 DEF ExamineGroup, Aware
  <2> QED
    BY <1>8, <2>1, <1>d DEF ExamineGroup
\* A schedule is read: the row describes its run, so it is the run's own group.
<1>9. ASSUME NEW q \in Runs, Follow(r, q)
      PROVE  OneIsAware'
  <2>1. Alone
    BY <1>9 DEF Follow
  <2>2. ASSUME NEW s \in Runs \ (astray' \cup {r}),
               r \notin astray', pc[s] \in Engaged, Overlap(r, s)'
        PROVE  Aware(r, s)' \/ Aware(s, r)
    <3>1. plan'[r] = plan[r] /\ pc[r] \in Engaged
      BY <1>9 DEF Follow
    <3>2. Aware(r, s) \/ Aware(s, r)
      BY <2>1, <2>2, <3>1, <1>c
    <3>3. s = q => via'[r] = aim[s]
      BY <1>9, <2>2 DEF Follow, RowsDescribe, Described, Target
    <3>4. Examines(r, s)' => s = q
      BY <1>9 DEF Follow, Examines, Runs
    <3>5. CASE Aware(r, s)
      BY <1>9, <1>g, <3>3, <3>4, <3>5 DEF Follow, Aware
    <3> QED
      BY <3>2, <3>5
  <2> QED
    BY <2>1, <2>2, <1>b
<1>5. CASE Admit(r)
  <2>1. Alone
    BY <1>5 DEF Admit
  <2>2. ASSUME NEW s \in Runs \ (astray' \cup {r}),
               r \notin astray', pc[s] \in Engaged, Overlap(r, s)'
        PROVE  Aware(s, r)
    <3>1. plan'[r] = plan[r] /\ pc[r] \in Engaged
      BY <1>5 DEF Admit, Searched
    <3>2. Aware(r, s) \/ Aware(s, r)
      BY <2>1, <2>2, <3>1, <1>c
    <3>3. ~ Aware(r, s)
      BY <1>5 DEF Admit, Searched, Remaining, Aware
    <3> QED
      BY <3>2, <3>3
  <2> QED
    BY <2>1, <2>2, <1>b
<1>6. ASSUME \/ StartCancelling(r) \/ KeepWaiting(r)
             \/ \E q \in Runs : RequestCancel(r, q)
             \/ NasReady(r) \/ \E x \in Refs : BeginStep(r, x)
             \/ \E failed \in BOOLEAN : EndStep(r, failed)
      PROVE  OneIsAware'
  <2>1. Alone
    BY <1>6 DEF StartCancelling, KeepWaiting, RequestCancel, NasReady, BeginStep, EndStep
  <2>2. plan'[r] = plan[r] /\ pc[r] \in Engaged
    BY <1>6 DEF StartCancelling, KeepWaiting, RequestCancel, NasReady, BeginStep,
       EndStep, Searched
  <2>3. ASSUME NEW s \in Runs, Aware(r, s) PROVE Aware(r, s)'
    <3>1. CASE StartCancelling(r)
      BY <2>3, <3>1 DEF StartCancelling, Searched, Aware
    <3>2. CASE KeepWaiting(r)
      BY <2>3, <3>2 DEF KeepWaiting, Searched, Aware
    <3>3. CASE \E q \in Runs : RequestCancel(r, q)
      BY <2>3, <3>3 DEF RequestCancel, Aware
    <3>4. ~ (NasReady(r) \/ (\E x \in Refs : BeginStep(r, x))
             \/ (\E failed \in BOOLEAN : EndStep(r, failed)))
      BY <2>3 DEF NasReady, BeginStep, EndStep, Aware
    <3> QED
      BY <1>6, <3>1, <3>2, <3>3, <3>4
  <2> QED
    BY <2>1, <2>2, <2>3, <1>b, <1>c
<1>7. ASSUME \/ GroupMissing(r) \/ Refuse(r) \/ GiveUp(r) \/ NasNotReady(r)
             \/ StopForCancel(r) \/ StepImpossible(r) \/ StepFails(r) \/ FinishRun(r)
      PROVE  OneIsAware'
  <2>1. Alone /\ pc'[r] \notin Engaged
    BY <1>7 DEF GroupMissing, Refuse, GiveUp, NasNotReady, StopForCancel,
       StepImpossible, StepFails, FinishRun
  <2> QED
    BY <2>1, <1>a
<1> QED
  BY <1>1, <1>2, <1>3, <1>4, <1>5, <1>6, <1>7, <1>8, <1>9 DEF RunStep

\* What a step of nobody's thread, or of the clock, may change of the threads:
\* where they are, and only to a place outside the protocol.
LEMMA OtherStepAware ==
  ASSUME OneIsAware, astray \subseteq astray',
         UNCHANGED <<plan, aim, cids, todo, hits, via>>,
         \A q \in Runs : pc'[q] \in Engaged => pc'[q] = pc[q]
  PROVE  OneIsAware'
<1> SUFFICES ASSUME NEW a \in Runs \ astray', NEW b \in Runs \ astray', a # b,
                    pc'[a] \in Engaged, pc'[b] \in Engaged, Overlap(a, b)'
             PROVE  Aware(a, b)' \/ Aware(b, a)'
  BY DEF OneIsAware
<1>1. Overlap(a, b)
  BY DEF Overlap
<1>2. Aware(a, b) \/ Aware(b, a)
  BY <1>1 DEF OneIsAware
<1> QED
  BY <1>2 DEF Aware, Examines

LEMMA RequestAware ==
  ASSUME TypeOK, OneIsAware, astray \subseteq astray', NEW r \in Runs,
         NEW s, NEW p, Request(r, s, p)
  PROVE  OneIsAware'
<1>1. \A q \in Runs \ {r} :
        /\ pc'[q] = pc[q] /\ plan'[q] = plan[q] /\ aim'[q] = aim[q] /\ cids'[q] = cids[q]
        /\ todo'[q] = todo[q] /\ hits'[q] = hits[q] /\ via'[q] = via[q]
  BY DEF Request, TypeOK, ThreadTypeOK, searchVars, waitVars, Goto
<1>2. pc'[r] \notin Engaged
  BY DEF Request, TypeOK, ThreadTypeOK, Goto, Engaged, Searching, Control
<1> QED
  BY <1>1, <1>2, OwnStep

LEMMA StepAware ==
  ASSUME Complete, ConflictInv, Step, astray \subseteq astray'
  PROVE  OneIsAware'
<1>0. TypeOK /\ OneIsAware
  BY DEF ConflictInv
<1> USE <1>0
<1>1. ASSUME NEW r \in Runs, NEW s \in Requestable, NEW p \in Policies, Request(r, s, p)
      PROVE  OneIsAware'
  BY <1>1, RequestAware
<1>2. ASSUME NEW r \in Runs, RunStep(r)
      PROVE  OneIsAware'
  BY <1>2, RunStepAware
<1>3. ASSUME \/ \E r \in Runs : DeadlinePasses(r) \/ CancelRun(r)
             \/ \E g \in Groups : DeleteGroup(g) \/ \E S \in GroupChoices : UpdateGroup(g, S)
             \/ \E s \in Schedules, t \in ScheduleChoices : UpdateSchedule(s, t)
             \/ \E k \in Runs : Compact(k)
             \/ Restore \/ Quiet
      PROVE  OneIsAware'
  <2>1. UNCHANGED <<pc, plan, aim, cids, todo, hits, via>>
    BY <1>3 DEF DeadlinePasses, CancelRun, DeleteGroup, UpdateGroup, UpdateSchedule,
       Compact, Restore, Quiet, core, threadVars, goalVars, searchVars, waitVars
  <2> QED
    BY <2>1, OtherStepAware
<1>4. ASSUME Restart \/ \E r \in Runs : SearchRaises(r)
      PROVE  OneIsAware'
  <2>1. UNCHANGED <<plan, aim, cids, todo, hits, via>>
    BY <1>4 DEF Restart, SearchRaises, goalVars, searchVars, waitVars
  <2>2. \A q \in Runs : pc'[q] \in Engaged => pc'[q] = pc[q]
    BY <1>4 DEF Restart, SearchRaises, Goto, Engaged, Searching, Control,
       TypeOK, ThreadTypeOK
  <2> QED
    BY <2>1, <2>2, OtherStepAware
<1> QED
  BY <1>1, <1>2, <1>3, <1>4 DEF Step

\* The search of r starts from no conflicts and computes its own aliases.
LEMMA RunStepSearchState ==
  ASSUME Complete, TypeOK, SearchState, NEW r \in Runs, RunStep(r)
  PROVE  SearchState'
<1> USE DEF configVars, rowVars, goalVars, searchVars, waitVars, workVars, Goto,
            EndWith, TypeOK, ThreadTypeOK
<1>1. CASE List(r)
  <2>1. Lookups(plan[r]) = {plan[r]}
    BY DEF Lookups, Complete
  <2>2. wanted'[r] = Aliases(plan[r], plan[r])
    BY <1>1, <2>1 DEF List
  <2>3. \A S : Aliases(S, S)' = Aliases(S, S)
    BY DEF Aliases, ContainersOf
  <2> QED
    BY <1>1, <2>2, <2>3 DEF List, SearchState
<1>2. CASE \E q \in Runs : Follow(r, q) \/ Examine(r, q) \/ ExamineGroup(r, q)
  <2>1. \A S : Aliases(S, S)' = Aliases(S, S)
    BY DEF Aliases, ContainersOf
  <2> QED
    BY <1>2, <2>1 DEF Follow, Examine, ExamineGroup, Compare, SearchState
<1>3. CASE CreateRow(r) \/ LoadGroup(r) \/ GroupMissing(r) \/ FinishRun(r)
  BY <1>3 DEF CreateRow, LoadGroup, GroupMissing, FinishRun, SearchState
<1>4. CASE \/ StartCancelling(r) \/ KeepWaiting(r) \/ GiveUp(r) \/ Refuse(r)
           \/ \E q \in Runs : RequestCancel(r, q)
  BY <1>4 DEF StartCancelling, KeepWaiting, GiveUp, Refuse, RequestCancel, SearchState
<1>5. CASE \/ Admit(r) \/ NasReady(r) \/ NasNotReady(r)
           \/ \E x \in Refs : BeginStep(r, x)
           \/ StopForCancel(r) \/ StepImpossible(r)
           \/ \E failed \in BOOLEAN : EndStep(r, failed)
           \/ StepFails(r)
  BY <1>5 DEF Admit, NasReady, NasNotReady, BeginStep, StopForCancel, StepImpossible,
     EndStep, StepFails, SearchState
<1> QED
  BY <1>1, <1>2, <1>3, <1>4, <1>5 DEF RunStep

LEMMA StepSearchState ==
  ASSUME Complete, TypeOK, SearchState, Step
  PROVE  SearchState'
<1> USE DEF goalVars, searchVars, waitVars, threadVars, core, Goto, TypeOK, ThreadTypeOK
<1>1. CASE \E r \in Runs : RunStep(r)
  BY <1>1, RunStepSearchState
<1>2. CASE \E r \in Runs, s \in Requestable, p \in Policies : Request(r, s, p)
  BY <1>2 DEF Request, SearchState
<1>3. CASE \E r \in Runs : DeadlinePasses(r) \/ SearchRaises(r)
  BY <1>3 DEF DeadlinePasses, SearchRaises, SearchState
<1>4. CASE \/ \E r \in Runs : CancelRun(r)
           \/ \E g \in Groups : DeleteGroup(g) \/ \E S \in GroupChoices : UpdateGroup(g, S)
           \/ \E s \in Schedules, t \in ScheduleChoices : UpdateSchedule(s, t)
           \/ \E k \in Runs : Compact(k)
           \/ Restore \/ Quiet
  <2>1. UNCHANGED <<pc, plan, cids, wanted>>
    BY <1>4 DEF CancelRun, DeleteGroup, UpdateGroup, UpdateSchedule, Compact, Restore, Quiet
  <2> QED
    BY <2>1 DEF SearchState, Aliases, ContainersOf
<1>5. CASE Restart
  BY <1>5 DEF Restart, SearchState
<1> QED
  BY <1>1, <1>2, <1>3, <1>4, <1>5 DEF Step

LEMMA ConflictInvInductive == Complete /\ ConflictInv /\ [Next]_vars => ConflictInv'
<1> SUFFICES ASSUME Complete, ConflictInv, [Next]_vars PROVE ConflictInv'
  OBVIOUS
<1>1. TypeOK'
  BY NextTypeOK DEF ConflictInv
<1>2. CASE Next
  <2>1. astray \subseteq astray' /\ Step
    BY <1>2 DEF Next
  <2>2. SearchState'
    BY <2>1, StepSearchState DEF ConflictInv
  <2>3. RowsDescribe'
    BY <1>2 DEF Next, RowsDescribe
  <2>4. OneIsAware'
    BY <2>1, StepAware
  <2> QED
    BY <1>1, <2>2, <2>3, <2>4 DEF ConflictInv
<1>3. CASE UNCHANGED vars
  <2> USE <1>3 DEF vars, core, configVars, rowVars, goalVars, searchVars, waitVars
  <2>1. SearchState'
    BY DEF ConflictInv, SearchState, Aliases, ContainersOf
  <2>2. RowsDescribe'
    BY DEF ConflictInv, RowsDescribe, Described, Listed, Newer, Rows, Target, TargetRefs, ContainersOf
  <2>3. OneIsAware'
    BY OtherStepAware DEF ConflictInv
  <2> QED
    BY <1>1, <2>1, <2>2, <2>3 DEF ConflictInv
<1> QED
  BY <1>2, <1>3

LEMMA InitConflictInv == Init => ConflictInv
<1> SUFFICES ASSUME Init PROVE ConflictInv
  OBVIOUS
<1>1. SearchState /\ RowsDescribe /\ OneIsAware
  BY DEF Init, SearchState, RowsDescribe, OneIsAware, Engaged, Searching, Control
<1> QED
  BY <1>1, InitTypeOK DEF ConflictInv

LEMMA ConflictInvExcludes == ConflictInv => GuardedExclusion
BY DEF ConflictInv, OneIsAware, GuardedExclusion, InControl, Aware, Engaged,
   Searching, Control

\* Of two overlapping runs that search or execute and are not astray, one is aware of
\* the other at every moment, also while it has read a schedule and not yet the
\* schedule's group, and whether or not all rows are listed: the protocol's invariant.
THEOREM AlwaysAware == ASSUME Complete PROVE Spec => []ConflictInv
BY InitConflictInv, ConflictInvInductive, PTL DEF Spec

\* _apply_conflict_policy: two runs whose rows have described them ever since they
\* began to search never execute at once over a common container, whatever the
\* number of runs and the policies, and whatever is cancelled, edited, deleted,
\* restored or restarted between any two calls.
THEOREM Exclusion == ASSUME Complete PROVE Spec => []GuardedExclusion
BY AlwaysAware, ConflictInvExcludes, PTL

-----------------------------------------------------------------------------
(* Implementation of ExclusiveControl *)

\* Whatever takes no run into control lets go of what it ends.
LEMMA LetGo ==
  ASSUME TypeOK, TypeOK', astray \subseteq astray',
         \A q \in Runs :
           /\ pc[q] \in {"finish", "done", "dead"} => pc'[q] \in {"finish", "done", "dead"}
           /\ pc'[q] \in Control => pc[q] \in Control /\ plan'[q] = plan[q]
           /\ pc[q] \in Control /\ pc'[q] \notin Control => q \in Gone'
  PROVE  Exclusive!Leave(Gone')
<1>1. Gone \subseteq Gone'
  BY DEF Gone
<1>2. ASSUME NEW q \in Runs
      PROVE  Holds'[q] = IF q \in Gone' THEN {} ELSE Holds[q]
  <2>1. CASE q \in Gone'
    BY <2>1 DEF Gone, Holds, InControl, Control
  <2>2. CASE q \notin Gone' /\ pc'[q] \in Control
    BY <2>2 DEF Gone, Holds, InControl, ContainersOf
  <2>3. CASE q \notin Gone' /\ pc'[q] \notin Control
    BY <2>3 DEF Gone, Holds, InControl
  <2> QED
    BY <2>1, <2>2, <2>3
<1>3. Holds' = [q \in Runs |-> IF q \in Gone' THEN {} ELSE Holds[q]]
  BY <1>2 DEF Holds
<1> QED
  BY <1>1, <1>3 DEF Exclusive!Leave

LEMMA AdmitAcquires ==
  ASSUME ConflictInv, ConflictInv', Next, NEW r \in Runs, Admit(r)
  PROVE  [Exclusive!Next]_(Exclusive!vars)
<1> USE DEF configVars, rowVars, goalVars, searchVars, waitVars, workVars, Goto
<1>1. TypeOK /\ TypeOK' /\ RowsDescribe /\ ThreadTypeOK
  BY DEF ConflictInv, TypeOK
<1>2. GuardedExclusion'
  BY ConflictInvExcludes, PTL
<1>3. pc[r] = "examine" /\ pc'[r] \in Control
  BY <1>1 DEF Admit, Searched, ThreadTypeOK, Control
<1>4. \A q \in Runs \ {r} : pc'[q] = pc[q]
  BY <1>1 DEF Admit, ThreadTypeOK
<1>5. \A q \in Runs : Described(q)' <=> Described(q)
  BY DEF Admit, Described, Listed, Newer, Rows, Target, TargetRefs, ContainersOf
<1>6. astray' = astray
  BY <1>1, <1>3, <1>4, <1>5 DEF Next, RowsDescribe, Engaged, Searching, TypeOK
<1>7. Gone' = Gone
  BY <1>3, <1>4, <1>6 DEF Gone, Control
<1>8. CASE r \in astray
  <2>1. Holds' = Holds
    BY <1>4, <1>6, <1>8 DEF Holds, InControl, Admit, ContainersOf
  <2> QED
    BY <2>1, <1>7 DEF Exclusive!vars
<1>9. CASE r \notin astray
  <2> DEFINE S == ContainersOf(plan[r])
  <2>1. S \in SUBSET Containers
    BY <1>1, RefAssumption DEF ThreadTypeOK, ContainersOf
  <2>2. r \notin Gone /\ Holds[r] = {}
    BY <1>3, <1>9 DEF Gone, Holds, InControl, Control
  <2>3. ASSUME NEW b \in Runs PROVE Holds[b] \cap S = {}
    <3>1. CASE b = r
      BY <2>2, <3>1
    <3>2. CASE b # r /\ InControl(b) /\ b \notin astray
      <4>1. ~ Overlap(r, b)'
        BY <1>2, <1>3, <1>4, <1>6, <1>9, <3>2 DEF GuardedExclusion, InControl
      <4> QED
        BY <3>2, <4>1 DEF Overlap, Holds, Admit, ContainersOf
    <3>3. CASE ~ (InControl(b) /\ b \notin astray)
      BY <3>3 DEF Holds
    <3> QED
      BY <3>1, <3>2, <3>3
  <2>4. Holds' = [Holds EXCEPT ![r] = S]
    BY <1>3, <1>4, <1>6, <1>9 DEF Holds, InControl, Admit, ContainersOf
  <2>5. Exclusive!Acquire(r, S)
    BY <2>2, <2>3, <2>4, <1>7 DEF Exclusive!Acquire
  <2> QED
    BY <2>1, <2>5 DEF Exclusive!Next
<1> QED
  BY <1>8, <1>9

LEMMA NextImplements ==
  ASSUME ConflictInv, ConflictInv', [Next]_vars
  PROVE  [Exclusive!Next]_(Exclusive!vars)
<1> USE DEF configVars, rowVars, goalVars, searchVars, waitVars, workVars, threadVars,
            core, Goto, EndWith
<1>1. TypeOK /\ TypeOK' /\ ThreadTypeOK
  BY DEF ConflictInv, TypeOK
<1>2. CASE UNCHANGED vars
  BY <1>2 DEF vars, Exclusive!vars, Holds, Gone, InControl, ContainersOf
<1>3. ASSUME Next, NEW r \in Runs, Admit(r)
      PROVE  [Exclusive!Next]_(Exclusive!vars)
  BY <1>3, AdmitAcquires
<1>4. ASSUME Next, ~ \E r \in Runs : Admit(r)
      PROVE  [Exclusive!Next]_(Exclusive!vars)
  <2> USE <1>1 DEF ThreadTypeOK, Control
  <2> DEFINE Quits(q) ==
        /\ pc[q] \in {"finish", "done", "dead"} => pc'[q] \in {"finish", "done", "dead"}
        /\ pc'[q] \in Control => pc[q] \in Control /\ plan'[q] = plan[q]
        /\ pc[q] \in Control /\ pc'[q] \notin Control => pc'[q] \in {"finish", "done", "dead"}
  <2>1. ASSUME NEW r \in Runs, RunStep(r) PROVE \A q \in Runs : Quits(q)
    <3>1. CASE CreateRow(r) \/ LoadGroup(r) \/ GroupMissing(r) \/ List(r) \/ Refuse(r)
      BY <3>1 DEF CreateRow, LoadGroup, GroupMissing, List, Refuse, Searched
    <3>2. CASE \/ StartCancelling(r) \/ KeepWaiting(r) \/ GiveUp(r)
               \/ \E q \in Runs : Follow(r, q) \/ Examine(r, q) \/ ExamineGroup(r, q) \/ RequestCancel(r, q)
      BY <3>2 DEF StartCancelling, KeepWaiting, GiveUp, Follow, Examine, ExamineGroup, Compare,
         RequestCancel, Searched
    <3>3. CASE \/ NasReady(r) \/ NasNotReady(r) \/ StopForCancel(r) \/ StepImpossible(r)
               \/ \E x \in Refs : BeginStep(r, x)
               \/ \E failed \in BOOLEAN : EndStep(r, failed)
               \/ StepFails(r) \/ FinishRun(r)
      BY <3>3 DEF NasReady, NasNotReady, StopForCancel, StepImpossible, BeginStep,
         EndStep, StepFails, FinishRun
    <3> QED
      BY <2>1, <1>4, <3>1, <3>2, <3>3 DEF RunStep
  <2>2. ASSUME NEW r \in Runs, NEW s \in Requestable, NEW p \in Policies, Request(r, s, p)
        PROVE  \A q \in Runs : Quits(q)
    BY <2>2 DEF Request
  <2>3. ASSUME Restart \/ \E r \in Runs : SearchRaises(r)
        PROVE  \A q \in Runs : Quits(q)
    BY <2>3 DEF Restart, SearchRaises, Searching
  <2>4. ASSUME \/ \E r \in Runs : DeadlinePasses(r) \/ CancelRun(r)
               \/ \E g \in Groups : DeleteGroup(g) \/ \E S \in GroupChoices : UpdateGroup(g, S)
               \/ \E s \in Schedules, t \in ScheduleChoices : UpdateSchedule(s, t)
               \/ \E k \in Runs : Compact(k)
               \/ Restore \/ Quiet
        PROVE  \A q \in Runs : Quits(q)
    <3>1. UNCHANGED <<pc, plan>>
      BY <2>4 DEF DeadlinePasses, CancelRun, DeleteGroup, UpdateGroup, UpdateSchedule,
         Compact, Restore, Quiet
    <3> QED
      BY <3>1
  <2>5. \A q \in Runs : Quits(q)
    BY <1>4, <2>1, <2>2, <2>3, <2>4 DEF Next, Step
  <2>6. astray \subseteq astray'
    BY <1>4 DEF Next
  <2>7. \A q \in Runs : pc[q] \in Control /\ pc'[q] \notin Control => q \in Gone'
    BY <2>5 DEF Gone
  <2>8. Exclusive!Leave(Gone')
    BY <1>1, <2>5, <2>6, <2>7, LetGo
  <2>9. Gone' \in SUBSET Runs
    BY <1>1 DEF TypeOK, Gone
  <2> QED
    BY <2>8, <2>9 DEF Exclusive!Next
<1> QED
  BY <1>2, <1>3, <1>4

LEMMA InitImplements == Init => Exclusive!Init
BY DEF Init, Exclusive!Init, Holds, Gone, InControl, Control

\* Seen from the containers, the action engine is exclusive control: every run
\* takes all its containers at once, when nobody holds one of them, and leaves
\* once and for all.
THEOREM Implements == ASSUME Complete PROVE Spec => ImplementsExclusiveControl
<1>1. ConflictInv /\ ConflictInv' /\ [Next]_vars => [Exclusive!Next]_(Exclusive!vars)
  BY NextImplements
<1> QED
  BY <1>1, AlwaysAware, InitImplements, PTL
     DEF Spec, ImplementsExclusiveControl, Exclusive!Spec

---------------------------------------------------------------------------
(* What the rows record: that the outcome is what the run did, and that   *)
(* only a run over a common container keeps another from its own.          *)

Fresh == {"idle", "requested"}
Before == Fresh \cup Searching \cup {"load", "gate"}

\* An outcome o is what run r did.
Truth(r, o) ==
  /\ o \in {"success", "failed", "skipped", "cancelled"}
  /\ o = "skipped" => did[r] = {}
  /\ o = "success" => plan[r] # {} /\ did[r] = plan[r] /\ ~ fault[r]
  /\ o = "cancelled" => cancel[r] /\ did[r] # plan[r]

\* What is true of a run at each place, up to the outcome in its row.
Told(r) ==
  /\ pc[r] \in Fresh <=> status[r] = "none"
  /\ pc[r] \in Before => did[r] = {} /\ ~ fault[r]
  /\ pc[r] = "step" => plan[r] = {} \/ did[r] # plan[r]
  /\ pc[r] = "acting" => did[r] # {}
  /\ pc[r] = "finish" => Truth(r, result[r])
  /\ pc[r] = "done" => status[r] = "deleted" \/ Truth(r, status[r])
  /\ pc[r] \notin Fresh \cup {"done"} => status[r] \in {"running", "deleted"}

OutcomeInv == TypeOK /\ \A r \in Runs : Told(r)

-----------------------------------------------------------------------------
(* Outcomes *)

\* Whatever else happens, a run that does not move stays as it is told.
LEMMA Unmoved ==
  ASSUME NEW q \in Runs, Told(q),
         UNCHANGED <<pc[q], plan[q], did[q], fault[q], result[q]>>,
         status'[q] = status[q] \/ (status[q] # "none" /\ status'[q] = "deleted"),
         cancel[q] => cancel'[q]
  PROVE  Told(q)'
BY DEF Told, Truth

LEMMA RunStepTold ==
  ASSUME TypeOK, NEW r \in Runs, Told(r), RunStep(r)
  PROVE  Told(r)'
<1> USE DEF TypeOK, ConfigTypeOK, RowTypeOK, ThreadTypeOK, configVars, rowVars, goalVars,
          searchVars, waitVars, workVars, Goto, EndWith
<1> USE DEF Told, Truth, Before, Fresh, Searching
<1>1. CASE CreateRow(r)
  BY <1>1 DEF CreateRow
<1>2. CASE LoadGroup(r) \/ GroupMissing(r)
  BY <1>2 DEF LoadGroup, GroupMissing
<1>3. CASE List(r)
  BY <1>3 DEF List
<1>4. CASE Admit(r)
  BY <1>4 DEF Admit, Searched
<1>5. CASE Refuse(r) \/ StartCancelling(r) \/ KeepWaiting(r) \/ GiveUp(r)
  BY <1>5 DEF Refuse, StartCancelling, KeepWaiting, GiveUp, Searched
<1>6. ASSUME NEW q \in Runs, Follow(r, q) \/ Examine(r, q) \/ ExamineGroup(r, q) PROVE Told(r)'
  BY <1>6 DEF Follow, Examine, ExamineGroup, Compare
<1>7. ASSUME NEW q \in Runs, RequestCancel(r, q) PROVE Told(r)'
  BY <1>7 DEF RequestCancel
<1>8. CASE NasReady(r) \/ NasNotReady(r)
  BY <1>8 DEF NasReady, NasNotReady
<1>9. ASSUME NEW x \in Refs, BeginStep(r, x) PROVE Told(r)'
  BY <1>9 DEF BeginStep
<1>10. CASE StopForCancel(r)
  BY <1>10 DEF StopForCancel, CancelSeen
<1>11. CASE StepImpossible(r)
  BY <1>11 DEF StepImpossible
<1>12. ASSUME NEW failed \in BOOLEAN, EndStep(r, failed) PROVE Told(r)'
  <2>1. CASE did[r] # plan[r]
    BY <1>12, <2>1 DEF EndStep
  <2>2. CASE did[r] = plan[r]
    BY <1>12, <2>2 DEF EndStep
  <2> QED
    BY <2>1, <2>2
<1>13. CASE StepFails(r)
  BY <1>13 DEF StepFails
<1>14. CASE FinishRun(r)
  BY <1>14 DEF FinishRun
<1> QED
  BY <1>1, <1>2, <1>3, <1>4, <1>5, <1>6, <1>7, <1>8, <1>9, <1>10, <1>11, <1>12, <1>13, <1>14 DEF RunStep

\* A step of one run changes no other, but may ask it to cancel.
LEMMA OthersUnmoved ==
  ASSUME TypeOK, NEW r \in Runs, RunStep(r), NEW q \in Runs \ {r}
  PROVE  /\ UNCHANGED <<pc[q], plan[q], aim[q], wanted[q], todo[q], hits[q], cids[q]>>
         /\ UNCHANGED <<via[q], did[q], fault[q], result[q], status[q], src[q]>>
         /\ cancel[q] => cancel'[q]
<1> USE DEF TypeOK, ConfigTypeOK, RowTypeOK, ThreadTypeOK, configVars, rowVars, goalVars,
          searchVars, waitVars, workVars, Goto, EndWith
<1>1. CASE CreateRow(r) \/ LoadGroup(r) \/ GroupMissing(r)
  BY <1>1 DEF CreateRow, LoadGroup, GroupMissing
<1>2. CASE List(r) \/ Admit(r) \/ Refuse(r)
  BY <1>2 DEF List, Admit, Refuse
<1>3. CASE StartCancelling(r) \/ KeepWaiting(r) \/ GiveUp(r)
  BY <1>3 DEF StartCancelling, KeepWaiting, GiveUp
<1>4. ASSUME NEW s \in Runs, Follow(r, s) \/ Examine(r, s) \/ ExamineGroup(r, s)
      PROVE  /\ todo'[q] = todo[q] /\ hits'[q] = hits[q] /\ via'[q] = via[q] /\ pc'[q] = pc[q]
             /\ UNCHANGED <<plan, aim, wanted, cids, did, fault, result, status, src, cancel>>
  BY <1>4 DEF Follow, Examine, ExamineGroup, Compare
<1>5. ASSUME NEW s \in Runs, RequestCancel(r, s)
      PROVE  /\ todo'[q] = todo[q] /\ pc'[q] = pc[q] /\ (cancel[q] => cancel'[q])
             /\ UNCHANGED <<plan, aim, wanted, hits, via, cids, did, fault, result, status, src>>
  BY <1>5 DEF RequestCancel
<1>6. CASE NasReady(r) \/ NasNotReady(r) \/ \E x \in Refs : BeginStep(r, x)
  BY <1>6 DEF NasReady, NasNotReady, BeginStep
<1>7. CASE StopForCancel(r) \/ StepImpossible(r) \/ StepFails(r) \/ FinishRun(r)
  BY <1>7 DEF StopForCancel, StepImpossible, StepFails, FinishRun
<1>8. CASE \E failed \in BOOLEAN : EndStep(r, failed)
  BY <1>8 DEF EndStep
<1> QED
  BY <1>1, <1>2, <1>3, <1>4, <1>5, <1>6, <1>7, <1>8 DEF RunStep

LEMMA StepTold ==
  ASSUME OutcomeInv, Step, NEW q \in Runs
  PROVE  Told(q)'
<1> USE DEF OutcomeInv
<1> USE DEF TypeOK, ConfigTypeOK, RowTypeOK, ThreadTypeOK, configVars, rowVars, goalVars,
          searchVars, waitVars, workVars, threadVars, core, Goto
<1>1. ASSUME NEW r \in Runs, NEW s \in Requestable, NEW p \in Policies, Request(r, s, p) PROVE Told(q)'
  <2>1. CASE q = r
    BY <1>1, <2>1 DEF Request, Told, Truth, Fresh, Before, Searching
  <2>2. CASE q # r
    BY <1>1, <2>2, Unmoved DEF Request
  <2> QED
    BY <2>1, <2>2
<1>2. ASSUME NEW r \in Runs, RunStep(r) PROVE Told(q)'
  <2>1. CASE q = r
    BY <1>2, <2>1, RunStepTold
  <2>2. CASE q # r
    BY <1>2, <2>2, OthersUnmoved, Unmoved
  <2> QED
    BY <2>1, <2>2
<1>3. ASSUME NEW r \in Runs, SearchRaises(r) PROVE Told(q)'
  <2>1. CASE q = r
    BY <1>3, <2>1 DEF SearchRaises, Told, Truth, Fresh, Before, Searching
  <2>2. CASE q # r
    BY <1>3, <2>2, Unmoved DEF SearchRaises
  <2> QED
    BY <2>1, <2>2
<1>4. ASSUME NEW r \in Runs, DeadlinePasses(r) \/ CancelRun(r) PROVE Told(q)'
  BY <1>4, Unmoved DEF DeadlinePasses, CancelRun
<1>5. ASSUME NEW g \in Groups, DeleteGroup(g) \/ \E S \in GroupChoices : UpdateGroup(g, S) PROVE Told(q)'
  BY <1>5, Unmoved DEF DeleteGroup, UpdateGroup
<1>6. ASSUME NEW s \in Schedules, NEW t \in ScheduleChoices, UpdateSchedule(s, t) PROVE Told(q)'
  BY <1>6, Unmoved DEF UpdateSchedule
<1>7. ASSUME NEW k \in Runs, Compact(k) PROVE Told(q)'
  BY <1>7, Unmoved DEF Compact, Rows
<1>8. CASE Restore
  BY <1>8, Unmoved DEF Restore, Rows
<1>9. CASE Restart
  BY <1>9 DEF Restart, Told, Truth, Fresh, Before, Searching
<1>10. CASE Quiet
  BY <1>10, Unmoved DEF Quiet
<1> QED
  BY <1>1, <1>2, <1>3, <1>4, <1>5, <1>6, <1>7, <1>8, <1>9, <1>10 DEF Step

LEMMA OutcomeInductive == OutcomeInv /\ [Next]_vars => OutcomeInv'
<1> SUFFICES ASSUME OutcomeInv, [Next]_vars PROVE OutcomeInv'
  OBVIOUS
<1>1. TypeOK'
  BY NextTypeOK DEF OutcomeInv
<1>2. CASE Next
  BY <1>1, <1>2, StepTold DEF Next, OutcomeInv
<1>3. CASE UNCHANGED vars
  <2>1. ASSUME NEW q \in Runs PROVE Told(q)'
    BY <1>3, Unmoved DEF OutcomeInv, vars, core, rowVars, goalVars, workVars
  <2> QED
    BY <1>1, <2>1 DEF OutcomeInv
<1> QED
  BY <1>2, <1>3

LEMMA OutcomeInvariant == Spec => []OutcomeInv
<1>1. Init => OutcomeInv
  BY InitTypeOK DEF Init, OutcomeInv, Told, Fresh, Before, Searching
<1> QED
  BY <1>1, OutcomeInductive, PTL DEF Spec

\* The status a row shows is what its run did, whatever is cancelled, edited,
\* imported, compacted, restarted, or fails: a skipped run touched nothing, a
\* success acted on every container, a cancelled run was asked to stop in time.
THEOREM RowsTellTheTruth == Spec => []OutcomeTellsTruth
<1>1. OutcomeInv => OutcomeTellsTruth
  BY DEF OutcomeInv, OutcomeTellsTruth, Told, Truth, TypeOK, RowTypeOK, ThreadTypeOK, Places, Fresh
<1> QED
  BY <1>1, OutcomeInvariant, PTL

-----------------------------------------------------------------------------
(* Exclusion without reserve *)

\* Nobody edits or deletes what runs are over, and no row is taken away.
Untouched == Disturbances \cap {"edit", "restore", "compact"} = {}

\* A row stands for what its run was requested for.
Faithful(r) ==
  /\ status[r] # "deleted"
  /\ pc[r] \in {"requested", "load"} \cup Engaged =>
       /\ aim[r] = Target(src[r])
       /\ plan[r] \subseteq RunTargetRefs(src[r])

FaithfulInv == OutcomeInv /\ astray = {} /\ \A r \in Runs : Faithful(r)

LEMMA FaithfulStays ==
  ASSUME OutcomeInv, NEW q \in Runs, Faithful(q), UNCHANGED configVars, UNCHANGED <<src[q], plan[q], aim[q]>>,
         status'[q] = status[q] \/ status'[q] # "deleted",
         pc'[q] \in {"requested", "load"} \cup Engaged => pc[q] \in {"requested", "load"} \cup Engaged
  PROVE  Faithful(q)'
BY DEF Faithful, RunTargetRefs, Target, TargetRefs, configVars

LEMMA RunStepFaithful ==
  ASSUME FaithfulInv, NEW r \in Runs, RunStep(r)
  PROVE  \A q \in Runs : Faithful(q)'
<1> USE DEF configVars, rowVars, goalVars, searchVars, waitVars, workVars, Goto, EndWith
<1>0. TypeOK /\ OutcomeInv /\ Told(r) /\ \A q \in Runs : Faithful(q)
  BY DEF FaithfulInv, OutcomeInv
<1>1. UNCHANGED <<groups, schedules, src, aim>>
  BY DEF RunStep, CreateRow, LoadGroup, GroupMissing, List, Admit, Refuse,
    StartCancelling, KeepWaiting, GiveUp, Follow, Examine, ExamineGroup, Compare,
    RequestCancel, NasReady, NasNotReady,
    BeginStep, StopForCancel, StepImpossible, EndStep, StepFails, FinishRun
<1>2. ASSUME NEW q \in Runs \ {r} PROVE Faithful(q)'
  <2>1. UNCHANGED <<pc[q], plan[q], aim[q], status[q], src[q]>>
    BY <1>0, <1>2, OthersUnmoved
  <2> QED
    BY <1>0, <1>1, <2>1, FaithfulStays
<1>3. pc[r] \in {"requested", "load", "finish"} \cup Engaged
  BY DEF RunStep, CreateRow, LoadGroup, GroupMissing, List, Admit, Refuse, Searched,
    StartCancelling, KeepWaiting, GiveUp, Follow, Examine, ExamineGroup, Compare,
    RequestCancel, NasReady, NasNotReady,
    BeginStep, StopForCancel, StepImpossible, EndStep, StepFails, FinishRun,
    Engaged, Searching, Control
<1>4. CASE LoadGroup(r)
  <2>1. /\ pc[r] = "load" /\ status' = status
        /\ plan'[r] = TargetRefs(aim[r])
    BY <1>0, <1>4 DEF LoadGroup, TypeOK, ThreadTypeOK
  <2>2. TargetRefs(aim[r]) = RunTargetRefs(src[r])
    BY <1>0, <2>1 DEF Faithful, RunTargetRefs
  <2>3. RunTargetRefs(src[r])' = RunTargetRefs(src[r]) /\ Target(src[r])' = Target(src[r])
    BY <1>1 DEF RunTargetRefs, Target, TargetRefs
  <2> QED
    BY <1>0, <1>1, <1>2, <2>1, <2>2, <2>3 DEF Faithful
<1>5. CASE FinishRun(r)
  <2>1. pc'[r] = "done" /\ plan' = plan /\ status'[r] # "deleted"
    BY <1>0, <1>5 DEF FinishRun, Faithful, Told, Truth, TypeOK, RowTypeOK, ThreadTypeOK
  <2> QED
    BY <1>2, <2>1 DEF Faithful, Engaged, Searching, Control
<1>6. CASE ~ LoadGroup(r) /\ ~ FinishRun(r)
  <2>1. plan' = plan /\ pc[r] \in {"requested", "load"} \cup Engaged
    BY <1>6 DEF RunStep, CreateRow, GroupMissing, List, Admit, Refuse, Searched,
      StartCancelling, KeepWaiting, GiveUp, Follow, Examine, ExamineGroup, Compare,
    RequestCancel, NasReady, NasNotReady,
      BeginStep, StopForCancel, StepImpossible, EndStep, StepFails,
      Engaged, Searching, Control
  <2>2. status' = status \/ status'[r] = "running"
    BY <1>0, <1>6 DEF RunStep, CreateRow, GroupMissing, List, Admit, Refuse,
      StartCancelling, KeepWaiting, GiveUp, Follow, Examine, ExamineGroup, Compare,
    RequestCancel, NasReady, NasNotReady,
      BeginStep, StopForCancel, StepImpossible, EndStep, StepFails, TypeOK, RowTypeOK
  <2> QED
    BY <1>0, <1>1, <1>2, <2>1, <2>2, FaithfulStays
<1> QED
  BY <1>4, <1>5, <1>6

LEMMA StepFaithful ==
  ASSUME Untouched, FaithfulInv, Step
  PROVE  \A q \in Runs : Faithful(q)'
<1> USE DEF configVars, rowVars, goalVars, searchVars, waitVars, workVars, threadVars, core, Goto
<1>0. TypeOK /\ OutcomeInv /\ \A q \in Runs : Told(q) /\ Faithful(q)
  BY DEF FaithfulInv, OutcomeInv
<1>1. ASSUME NEW r \in Runs, NEW s \in Requestable, NEW p \in Policies, Request(r, s, p)
      PROVE  \A q \in Runs : Faithful(q)'
  <2>1. ASSUME NEW q \in Runs \ {r} PROVE Faithful(q)'
    <3>1. UNCHANGED <<pc[q], plan[q], aim[q], status, src[q], groups, schedules>>
      BY <1>0, <1>1 DEF Request, TypeOK, RowTypeOK, ThreadTypeOK
    <3> QED
      BY <1>0, <3>1, FaithfulStays
  <2>2. Faithful(r)'
    <3>1. /\ UNCHANGED <<status, groups, schedules>> /\ src'[r] = s
          /\ aim'[r] = Target(s)
          /\ plan'[r] = IF s \in Schedules THEN {} ELSE TargetRefs(s)
      BY <1>0, <1>1 DEF Request, TypeOK, RowTypeOK, ThreadTypeOK
    <3>2. plan'[r] \subseteq RunTargetRefs(src[r])' /\ Target(src[r])' = Target(s)
      BY <3>1 DEF RunTargetRefs, Target, TargetRefs
    <3> QED
      BY <1>0, <3>1, <3>2 DEF Faithful
  <2> QED
    BY <2>1, <2>2
<1>2. ASSUME NEW r \in Runs, RunStep(r) PROVE \A q \in Runs : Faithful(q)'
  BY <1>2, RunStepFaithful
\* The rest moves a thread to its end at most, or lets it be requested anew.
<1>3. ASSUME UNCHANGED <<groups, schedules, status, src, plan, aim>>,
             \A q \in Runs : pc'[q] = pc[q] \/ pc'[q] \in {"idle", "dead", "done"}
      PROVE  \A q \in Runs : Faithful(q)'
  <2> TAKE q \in Runs
  <2>1. pc'[q] \in {"requested", "load"} \cup Engaged => pc[q] \in {"requested", "load"} \cup Engaged
    BY <1>3 DEF Engaged, Searching, Control
  <2> QED
    BY <1>0, <1>3, <2>1, FaithfulStays
<1>4. ASSUME NEW r \in Runs, DeadlinePasses(r) \/ SearchRaises(r) \/ CancelRun(r)
      PROVE  \A q \in Runs : Faithful(q)'
  BY <1>0, <1>3, <1>4 DEF DeadlinePasses, SearchRaises, CancelRun, TypeOK, ThreadTypeOK
<1>5. CASE Restart \/ Quiet
  BY <1>0, <1>3, <1>5 DEF Restart, Quiet, TypeOK, ThreadTypeOK
<1>6. ASSUME \/ \E g \in Groups : DeleteGroup(g) \/ \E S \in GroupChoices : UpdateGroup(g, S)
             \/ \E s \in Schedules, t \in ScheduleChoices : UpdateSchedule(s, t)
             \/ (\E k \in Runs : Compact(k)) \/ Restore
      PROVE  FALSE
  BY <1>6 DEF Untouched, DeleteGroup, UpdateGroup, UpdateSchedule, Compact, Restore
<1> QED
  BY <1>1, <1>2, <1>4, <1>5, <1>6 DEF Step

LEMMA AllListedNext ==
  ASSUME MaxRuns <= ListLimit
  PROVE  (\A q \in Runs : Listed(q))'
<1>1. \A q \in Runs : Listed(q)
  BY AllListed
<1> QED
  BY <1>1, PTL

LEMMA FaithfulInductive == Untouched /\ MaxRuns <= ListLimit /\ FaithfulInv /\ [Next]_vars => FaithfulInv'
<1> SUFFICES ASSUME Untouched, MaxRuns <= ListLimit, FaithfulInv, [Next]_vars PROVE FaithfulInv'
  OBVIOUS
<1>1. OutcomeInv'
  BY OutcomeInductive DEF FaithfulInv
<1>2. CASE Next
  <2>1. \A q \in Runs : Faithful(q)'
    BY <1>2, StepFaithful DEF Next
  <2>2. \A q \in Runs : (pc[q] \in Engaged => Described(q))'
    <3> SUFFICES ASSUME NEW q \in Runs, pc'[q] \in Engaged PROVE Described(q)'
      OBVIOUS
    <3>1. status'[q] = "running"
      BY <1>1, <2>1 DEF OutcomeInv, Told, Faithful, Fresh, Engaged, Searching, Control
    <3>2. Listed(q)'
      BY AllListedNext
    <3>3. Target(src[q])' = aim'[q] /\ plan'[q] \subseteq TargetRefs(aim[q])'
      BY <2>1 DEF Faithful, RunTargetRefs
    <3> QED
      BY <3>1, <3>2, <3>3 DEF Described, ContainersOf
  <2>3. astray' = {}
    BY <1>2, <2>2 DEF Next, FaithfulInv
  <2> QED
    BY <1>1, <2>1, <2>3 DEF FaithfulInv
<1>3. CASE UNCHANGED vars
  BY <1>1, <1>3 DEF vars, core, configVars, rowVars, goalVars, FaithfulInv, Faithful,
    RunTargetRefs, Target, TargetRefs
<1> QED
  BY <1>2, <1>3

\* docs/ARCHITECTURE.md:29, "prevent competing actions against the same container":
\* it takes an edit, a deletion, an import or the retention job amid a run, a lookup
\* that fails or more rows than are listed for two runs to compete.  Cancels,
\* restarts, searches that raise and requests of any kind do not do it.
THEOREM NobodyCompetes ==
  ASSUME Complete, Untouched, MaxRuns <= ListLimit
  PROVE  Spec => []NoCompetingRuns
<1>1. Init => FaithfulInv
  <2> SUFFICES ASSUME Init PROVE FaithfulInv
    OBVIOUS
  <2>1. OutcomeInv
    BY InitTypeOK DEF Init, OutcomeInv, Told, Fresh, Before, Searching
  <2>2. astray = {} /\ \A r \in Runs : Faithful(r)
    BY DEF Init, Faithful, Engaged, Searching, Control
  <2> QED
    BY <2>1, <2>2 DEF FaithfulInv
<1>2. GuardedExclusion /\ FaithfulInv => NoCompetingRuns
  BY DEF GuardedExclusion, FaithfulInv, NoCompetingRuns
<1> QED
  BY <1>1, <1>2, FaithfulInductive, Exclusion, PTL DEF Spec

-----------------------------------------------------------------------------
(* Independence *)

\* Nobody cancels or edits by hand; an import may replace the configuration.
Steady == Disturbances \cap {"cancel", "edit"} = {}

\* Another run that has a row is over a container of r; of two whose rows are
\* gone nothing is said, an import may have changed what they stood for.
Meets(r, s) ==
  /\ s # r /\ status[s] # "none"
  /\ \/ Footprint(r) \cap Footprint(s) # {}
     \/ status[r] = "deleted" /\ status[s] = "deleted"

\* Everything that keeps run r from its own has come from a run that meets it.
Caused(r) ==
  /\ pc[r] \in Fresh => hits[r] = {} /\ cids[r] = {} /\ ~ cancel[r] /\ result[r] = "none"
  /\ pc[r] = "load" \/ (pc[r] = "requested" /\ src[r] \in Schedules) => plan[r] = {}
  /\ pc[r] \in {"cancel", "await"} => cids[r] # {}
  /\ pc[r] = "cancel" => todo[r] \subseteq cids[r]
  /\ pc[r] \in {"examine", "follow"} =>
       /\ ContainersOf(wanted[r]) \subseteq ContainersOf(plan[r])
       /\ \A q \in todo[r] : q # r /\ status[q] # "none"
  /\ pc[r] = "follow" => \A q \in todo[r] : Examines(r, q) =>
       via[r] = Target(src[q]) \/ (status[r] = "deleted" /\ status[q] = "deleted")
  /\ \A s \in hits[r] \cup cids[r] : Meets(r, s)
  /\ cancel[r] \/ result[r] = "skipped" \/ status[r] \in {"skipped", "cancelled"} =>
       \E s \in Runs : Meets(r, s)

CauseInv == OutcomeInv /\ \A r \in Runs : Caused(r)

LEMMA AliasesMeet ==
  ASSUME NEW S, NEW T, NEW R1, NEW R2, NEW x, x \in Aliases(S, R1)
  PROVE  ContainerOf[x] \in ContainersOf(S)
BY DEF Aliases, ContainersOf

\* A step that leaves the configuration, brings no row back, and takes neither its
\* source nor a container from a run that has a row.
Steadily ==
  /\ UNCHANGED configVars
  /\ \A q \in Runs : status[q] # "none" =>
       status'[q] # "none" /\ src'[q] = src[q] /\ plan[q] \subseteq plan'[q]
  /\ \A q \in Runs : status[q] = "deleted" => status'[q] = "deleted"

LEMMA MeetsStays ==
  ASSUME Steadily, NEW r \in Runs, NEW s \in Runs, status[r] # "none", Meets(r, s)
  PROVE  Meets(r, s)'
<1>1. ASSUME NEW q \in Runs, status[q] # "none" PROVE Footprint(q) \subseteq Footprint(q)'
  <2>1. RunTargetRefs(src[q])' = RunTargetRefs(src[q])
    BY <1>1 DEF Steadily, RunTargetRefs, Target, TargetRefs, configVars
  <2>2. plan[q] \subseteq plan'[q]
    BY <1>1 DEF Steadily
  <2> QED
    BY <2>1, <2>2 DEF Footprint, ContainersOf
<1> QED
  BY <1>1 DEF Meets, Steadily

LEMMA MeetsBack ==
  ASSUME NEW r \in Runs, NEW s \in Runs, Meets(r, s), status[r] # "none"
  PROVE  Meets(s, r)
BY DEF Meets

LEMMA RequestSteadily ==
  ASSUME OutcomeInv, NEW r \in Runs, NEW s, NEW p, Request(r, s, p)
  PROVE  Steadily
<1>1. status[r] = "none"
  BY DEF OutcomeInv, Told, Request, Fresh
<1>2. \A q \in Runs \ {r} : src'[q] = src[q] /\ plan'[q] = plan[q]
  BY DEF OutcomeInv, TypeOK, RowTypeOK, ThreadTypeOK, Request
<1> QED
  BY <1>1, <1>2 DEF Request, Steadily

LEMMA RunStepSteadily ==
  ASSUME CauseInv, NEW r \in Runs, RunStep(r)
  PROVE  Steadily
<1> USE DEF configVars, rowVars, goalVars, searchVars, waitVars, workVars, Goto, EndWith, Steadily
<1>0. TypeOK /\ Told(r) /\ Caused(r)
  BY DEF CauseInv, OutcomeInv
<1>1. CASE CreateRow(r)
  BY <1>0, <1>1 DEF CreateRow, Told, Fresh, TypeOK, RowTypeOK
<1>2. CASE LoadGroup(r)
  <2>1. plan[r] = {} /\ UNCHANGED <<groups, schedules, status, src>>
    BY <1>0, <1>2 DEF LoadGroup, Caused
  <2>2. \A q \in Runs : plan[q] \subseteq plan'[q]
    BY <1>0, <1>2, <2>1 DEF LoadGroup, TypeOK, ThreadTypeOK
  <2> QED
    BY <2>1, <2>2
<1>3. CASE GroupMissing(r) \/ List(r) \/ Admit(r) \/ Refuse(r)
  BY <1>3 DEF GroupMissing, List, Admit, Refuse
<1>4. CASE StartCancelling(r) \/ KeepWaiting(r) \/ GiveUp(r)
  BY <1>4 DEF StartCancelling, KeepWaiting, GiveUp
<1>5. ASSUME NEW q \in Runs, Follow(r, q) \/ Examine(r, q) \/ ExamineGroup(r, q) \/ RequestCancel(r, q)
      PROVE  Steadily
  BY <1>5 DEF Follow, Examine, ExamineGroup, Compare, RequestCancel
<1>6. CASE NasReady(r) \/ NasNotReady(r) \/ \E x \in Refs : BeginStep(r, x)
  BY <1>6 DEF NasReady, NasNotReady, BeginStep
<1>7. CASE StopForCancel(r) \/ StepImpossible(r) \/ StepFails(r) \/ \E failed \in BOOLEAN : EndStep(r, failed)
  BY <1>7 DEF StopForCancel, StepImpossible, StepFails, EndStep
<1>8. CASE FinishRun(r)
  <2>1. result[r] # "none"
    BY <1>0, <1>8 DEF FinishRun, Told, Truth
  <2> QED
    BY <1>0, <1>8, <2>1 DEF FinishRun, TypeOK, RowTypeOK
<1> QED
  BY <1>1, <1>2, <1>3, <1>4, <1>5, <1>6, <1>7, <1>8 DEF RunStep

\* An import takes away every row, and with it what was to be explained.
LEMMA RestoreCaused ==
  ASSUME CauseInv, Restore, NEW q \in Runs
  PROVE  Caused(q)'
<1> USE DEF CauseInv, OutcomeInv
<1>1. /\ UNCHANGED <<pc, plan, src, wanted, todo, hits, via, cids, result, cancel>>
      /\ \A r \in Runs : status'[r] = IF status[r] = "none" THEN "none" ELSE "deleted"
  BY DEF Restore, Rows, threadVars, goalVars, searchVars, waitVars, workVars
<1>2. hits[q] \cup cids[q] \cup todo[q] \subseteq Runs
  BY DEF TypeOK, ThreadTypeOK
<1>3. CASE status[q] = "none"
  BY <1>1, <1>3 DEF Told, Caused, Fresh
<1>4. CASE status[q] # "none"
  <2>1. ASSUME NEW s \in Runs, Meets(q, s) PROVE Meets(q, s)'
    BY <1>1, <1>4, <2>1 DEF Meets
  <2>2. \A s \in hits'[q] \cup cids'[q] : Meets(q, s)'
    BY <1>1, <1>2, <2>1 DEF Caused
  <2>3. cancel'[q] \/ result'[q] = "skipped" \/ status'[q] \in {"skipped", "cancelled"} =>
          \E s \in Runs : Meets(q, s)'
    BY <1>1, <1>4, <2>1 DEF Caused
  <2>4. pc'[q] \in {"examine", "follow"} =>
          /\ ContainersOf(wanted'[q]) \subseteq ContainersOf(plan'[q])
          /\ \A s \in todo'[q] : s # q /\ status'[s] # "none"
    BY <1>1, <1>2 DEF Caused, ContainersOf
  <2>5. pc[q] \notin Fresh
    BY <1>4 DEF Told
  <2>6. pc'[q] = "follow" => \A s \in todo'[q] : status'[q] = "deleted" /\ status'[s] = "deleted"
    BY <1>1, <1>2, <1>4 DEF Caused
  <2> QED
    BY <1>1, <2>2, <2>3, <2>4, <2>5, <2>6 DEF Caused, ContainersOf
<1> QED
  BY <1>3, <1>4

\* A run that does not move keeps its causes.
LEMMA CausedStays ==
  ASSUME CauseInv, Steadily, NEW q \in Runs,
         UNCHANGED <<pc[q], plan[q], src[q], wanted[q], todo[q], hits[q], via[q], cids[q], result[q]>>,
         status'[q] = status[q] \/ (status[q] # "none" /\ status'[q] = "deleted"),
         cancel'[q] = cancel[q] \/ \E s \in Runs : status[q] # "none" /\ Meets(q, s)
  PROVE  Caused(q)'
<1> USE DEF CauseInv, OutcomeInv
<1>1. ASSUME status[q] = "none" PROVE Caused(q)'
  <2>1. pc[q] \in Fresh /\ hits[q] = {} /\ cids[q] = {} /\ ~ cancel[q] /\ result[q] = "none"
    BY <1>1 DEF Told, Caused
  <2>2. pc[q] \notin {"load", "cancel", "await", "examine", "follow"}
    BY <2>1 DEF Fresh
  <2> QED
    BY <1>1, <2>1, <2>2 DEF Caused
<1>2. ASSUME status[q] # "none" PROVE Caused(q)'
  <2>1. \A s \in Runs : Meets(q, s) => Meets(q, s)'
    BY <1>2, MeetsStays
  <2>2. hits[q] \cup cids[q] \cup todo[q] \subseteq Runs
    BY DEF TypeOK, ThreadTypeOK
  <2>3. \A s \in hits'[q] \cup cids'[q] : Meets(q, s)'
    BY <2>1, <2>2 DEF Caused
  <2>4. cancel'[q] \/ result'[q] = "skipped" \/ status'[q] \in {"skipped", "cancelled"} =>
          \E s \in Runs : Meets(q, s)'
    BY <2>1 DEF Caused
  <2>5. pc'[q] \in {"examine", "follow"} =>
          /\ ContainersOf(wanted'[q]) \subseteq ContainersOf(plan'[q])
          /\ \A s \in todo'[q] : s # q /\ status'[s] # "none"
    BY <2>2 DEF Caused, Steadily, ContainersOf
  <2>6. pc[q] \notin Fresh
    BY <1>2 DEF Told
  <2>7. pc'[q] = "follow" => \A s \in todo'[q] : Examines(q, s)' =>
          via'[q] = Target(src[s])' \/ (status'[q] = "deleted" /\ status'[s] = "deleted")
    <3>1. \A s \in todo[q] : Examines(q, s)' <=> Examines(q, s)
      BY DEF Examines
    <3>2. ASSUME NEW s \in todo[q], pc[q] = "follow"
          PROVE  /\ status[s] # "none" /\ Target(src[s])' = Target(src[s])
                 /\ status[q] = "deleted" => status'[q] = "deleted"
                 /\ status[s] = "deleted" => status'[s] = "deleted"
      BY <2>2, <3>2 DEF Caused, Steadily, Target, configVars
    <3> QED
      BY <3>1, <3>2 DEF Caused
  <2> QED
    BY <2>3, <2>4, <2>5, <2>6, <2>7 DEF Caused, ContainersOf
<1> QED
  BY <1>1, <1>2

\* What a run does itself has its cause in the conflicts it has found.
LEMMA RunStepCaused ==
  ASSUME CauseInv, NEW r \in Runs, RunStep(r)
  PROVE  Caused(r)'
<1> USE DEF configVars, rowVars, goalVars, searchVars, waitVars, workVars, Goto, EndWith
<1>0. TypeOK /\ Told(r) /\ Caused(r) /\ Steadily
  BY RunStepSteadily DEF CauseInv, OutcomeInv
<1>a. pc[r] # "requested" => status[r] # "none"
  BY <1>0 DEF Told, Fresh, RunStep, CreateRow, LoadGroup, GroupMissing, List, Admit, Refuse,
    StartCancelling, KeepWaiting, GiveUp, Follow, Examine, ExamineGroup, Compare,
    RequestCancel, NasReady, NasNotReady,
    BeginStep, StopForCancel, StepImpossible, EndStep, StepFails, FinishRun, Searched
<1>b. ASSUME status[r] # "none" PROVE \A s \in Runs : Meets(r, s) => Meets(r, s)'
  BY <1>0, <1>b, MeetsStays
<1>c. hits[r] \cup cids[r] \cup todo[r] \subseteq Runs
  BY <1>0 DEF TypeOK, ThreadTypeOK
<1>d. ASSUME NEW place, pc' = [pc EXCEPT ![r] = place], place \notin Fresh \cup {"load", "cancel", "await", "examine", "follow"},
             UNCHANGED <<plan, hits, cids, cancel>>, pc[r] # "requested",
             result'[r] = "skipped" \/ status'[r] \in {"skipped", "cancelled"} => \E s \in Runs : Meets(r, s)
      PROVE  Caused(r)'
  <2>1. pc'[r] = place
    BY <1>0, <1>d DEF TypeOK, ThreadTypeOK
  <2>2. \A s \in hits'[r] \cup cids'[r] : Meets(r, s)'
    BY <1>0, <1>a, <1>b, <1>c, <1>d DEF Caused
  <2>3. cancel'[r] \/ result'[r] = "skipped" \/ status'[r] \in {"skipped", "cancelled"} =>
          \E s \in Runs : Meets(r, s)'
    BY <1>0, <1>a, <1>b, <1>d DEF Caused
  <2> QED
    BY <1>d, <2>1, <2>2, <2>3 DEF Caused, Fresh
<1>1. CASE CreateRow(r)
  <2>1. /\ pc[r] = "requested" /\ hits[r] = {} /\ cids[r] = {} /\ ~ cancel[r] /\ result[r] = "none"
        /\ UNCHANGED <<src, plan, hits, cids, cancel, result>> /\ status'[r] = "running"
        /\ pc'[r] = IF src[r] \in Schedules THEN "load" ELSE "list"
    BY <1>0, <1>1 DEF CreateRow, Caused, Fresh, TypeOK, RowTypeOK, ThreadTypeOK
  <2>2. src[r] \in Schedules => plan[r] = {}
    BY <1>0, <2>1 DEF Caused
  <2> QED
    BY <2>1, <2>2 DEF Caused, Fresh
<1>2. CASE LoadGroup(r)
  <2>1. /\ pc[r] = "load" /\ pc'[r] = "list" /\ UNCHANGED <<hits, cids, cancel, result, status>>
    BY <1>0, <1>2 DEF LoadGroup, TypeOK, ThreadTypeOK
  <2>2. \A s \in hits'[r] \cup cids'[r] : Meets(r, s)'
    BY <1>0, <1>a, <1>b, <1>c, <2>1 DEF Caused
  <2>3. cancel'[r] \/ result'[r] = "skipped" \/ status'[r] \in {"skipped", "cancelled"} =>
          \E s \in Runs : Meets(r, s)'
    BY <1>0, <1>a, <1>b, <2>1 DEF Caused
  <2> QED
    BY <2>1, <2>2, <2>3 DEF Caused, Fresh
<1>3. CASE GroupMissing(r)
  BY <1>0, <1>3, <1>d DEF GroupMissing, Caused, Fresh, TypeOK, ThreadTypeOK
<1>4. CASE List(r)
  <2>1. /\ pc[r] \in {"list", "await"} /\ pc'[r] = "examine" /\ hits'[r] = {}
        /\ UNCHANGED <<plan, cids, cancel, result, status>>
        /\ \E resolved : wanted'[r] = Aliases(plan[r], resolved)
        /\ todo'[r] = IF plan[r] = {} THEN {} ELSE ListedRuns(r)
    BY <1>0, <1>4 DEF List, TypeOK, ThreadTypeOK
  <2>2. ContainersOf(wanted'[r]) \subseteq ContainersOf(plan'[r])
    BY <2>1, AliasesMeet DEF ContainersOf
  <2>3. \A q \in todo'[r] : q # r /\ status'[q] # "none"
    BY <2>1 DEF ListedRuns, Rows
  <2>4. \A s \in hits'[r] \cup cids'[r] : Meets(r, s)'
    BY <1>0, <1>a, <1>b, <1>c, <2>1 DEF Caused
  <2>5. cancel'[r] \/ result'[r] = "skipped" \/ status'[r] \in {"skipped", "cancelled"} =>
          \E s \in Runs : Meets(r, s)'
    BY <1>0, <1>a, <1>b, <2>1 DEF Caused
  <2> QED
    BY <2>1, <2>2, <2>3, <2>4, <2>5 DEF Caused, Fresh, ContainersOf
<1>5. CASE Admit(r)
  <2>1. /\ pc[r] = "examine"
        /\ pc' = [pc EXCEPT ![r] = IF src[r] \in Refs THEN "step" ELSE "gate"]
        /\ UNCHANGED <<plan, hits, cids, cancel, result, status>>
    BY <1>5 DEF Admit, Searched
  <2>2. (IF src[r] \in Refs THEN "step" ELSE "gate") \notin Fresh \cup {"load", "cancel", "await", "examine", "follow"}
    BY DEF Fresh
  <2> QED
    BY <1>0, <1>d, <2>1, <2>2 DEF Caused
<1>6. CASE Refuse(r)
  <2>1. \E s \in Runs : Meets(r, s)
    BY <1>0, <1>6, <1>c DEF Refuse, Caused
  <2> QED
    BY <1>6, <1>d, <2>1 DEF Refuse, Searched, Fresh
<1>7. CASE StartCancelling(r) \/ KeepWaiting(r)
  <2>1. /\ pc[r] = "examine" /\ UNCHANGED <<plan, wanted, hits, cancel, result, status>>
        /\ \/ pc'[r] = "cancel" /\ cids'[r] = hits[r] /\ todo'[r] = hits[r] /\ hits[r] # {}
           \/ pc'[r] = "await" /\ cids'[r] = cids[r] /\ cids[r] # {}
    BY <1>0, <1>7 DEF StartCancelling, KeepWaiting, Searched, TypeOK, ThreadTypeOK
  <2>2. \A s \in hits'[r] \cup cids'[r] : Meets(r, s)'
    BY <1>0, <1>a, <1>b, <1>c, <2>1 DEF Caused
  <2>3. cancel'[r] \/ result'[r] = "skipped" \/ status'[r] \in {"skipped", "cancelled"} =>
          \E s \in Runs : Meets(r, s)'
    BY <1>0, <1>a, <1>b, <2>1 DEF Caused
  <2> QED
    BY <2>1, <2>2, <2>3 DEF Caused, Fresh
<1>8. CASE GiveUp(r)
  <2>1. \E s \in Runs : Meets(r, s)
    BY <1>0, <1>8, <1>c DEF GiveUp, Caused
  <2> QED
    BY <1>8, <1>d, <2>1 DEF GiveUp, Fresh
<1>9. ASSUME NEW q \in Runs, Examine(r, q) \/ ExamineGroup(r, q) PROVE Caused(r)'
  <2>0. PICK T : /\ Compare(r, q, T) /\ pc[r] \in {"examine", "follow"} /\ q \in todo[r]
                 /\ \/ T = RunTargetRefs(src[q])
                    \/ status[r] = "deleted" /\ status[q] = "deleted"
    <3>1. CASE Examine(r, q)
      BY <3>1 DEF Examine, Examines
    <3>2. CASE ExamineGroup(r, q)
      BY <1>0, <3>2 DEF ExamineGroup, Caused, Examines, RunTargetRefs
    <3> QED
      BY <1>9, <3>1, <3>2
  <2>1. /\ pc'[r] = "examine" /\ todo'[r] = todo[r] \ {q}
        /\ UNCHANGED <<groups, schedules, plan, src, wanted, cids, cancel, result, status>>
        /\ \/ hits'[r] = hits[r]
           \/ /\ hits'[r] = hits[r] \cup {q}
              /\ \E resolved : wanted[r] \cap Aliases(T, resolved) # {}
    BY <1>0, <2>0 DEF Compare, TypeOK, ThreadTypeOK
  <2>a. q # r /\ status[q] # "none"
    BY <1>0, <2>0 DEF Caused
  <2>2. ASSUME NEW resolved, wanted[r] \cap Aliases(T, resolved) # {}
        PROVE  Meets(r, q)
    <3>1. PICK x \in wanted[r] : x \in Aliases(T, resolved)
      BY <2>2
    <3>2. ContainerOf[x] \in ContainersOf(plan[r])
      BY <1>0, <2>0, <3>1 DEF Caused, ContainersOf
    <3>3. ContainerOf[x] \in ContainersOf(T)
      BY <3>1, AliasesMeet
    <3>4. CASE T = RunTargetRefs(src[q])
      <4>1. ContainerOf[x] \in Footprint(r) /\ ContainerOf[x] \in Footprint(q)
        BY <3>2, <3>3, <3>4 DEF Footprint, ContainersOf
      <4> QED
        BY <2>a, <4>1 DEF Meets
    <3> QED
      BY <2>0, <2>a, <3>4 DEF Meets
  <2>3. \A s \in hits'[r] \cup cids'[r] : Meets(r, s)'
    BY <1>0, <1>a, <1>b, <1>c, <2>0, <2>1, <2>2 DEF Caused
  <2>4. cancel'[r] \/ result'[r] = "skipped" \/ status'[r] \in {"skipped", "cancelled"} =>
          \E s \in Runs : Meets(r, s)'
    BY <1>0, <1>a, <1>b, <2>0, <2>1 DEF Caused
  <2> QED
    BY <1>0, <2>0, <2>1, <2>3, <2>4 DEF Caused, Fresh, ContainersOf
<1>16. ASSUME NEW q \in Runs, Follow(r, q) PROVE Caused(r)'
  <2>1. /\ pc[r] = "examine" /\ pc'[r] = "follow" /\ via'[r] = Target(src[q]) /\ Examines(r, q)
        /\ UNCHANGED <<groups, schedules, plan, src, wanted, todo, hits, cids, cancel, result, status>>
    BY <1>0, <1>16 DEF Follow, Target, TypeOK, ThreadTypeOK
  <2>2. \A s \in hits'[r] \cup cids'[r] : Meets(r, s)'
    BY <1>0, <1>a, <1>b, <1>c, <2>1 DEF Caused
  <2>3. cancel'[r] \/ result'[r] = "skipped" \/ status'[r] \in {"skipped", "cancelled"} =>
          \E s \in Runs : Meets(r, s)'
    BY <1>0, <1>a, <1>b, <2>1 DEF Caused
  <2>4. \A s \in todo'[r] : Examines(r, s)' => via'[r] = Target(src[s])'
    BY <1>c, <2>1 DEF Examines, Target, Runs
  <2>5. /\ ContainersOf(wanted'[r]) \subseteq ContainersOf(plan'[r])
        /\ \A s \in todo'[r] : s # r /\ status'[s] # "none"
    BY <1>0, <2>1 DEF Caused, ContainersOf
  <2> QED
    BY <2>1, <2>2, <2>3, <2>4, <2>5 DEF Caused, Fresh, ContainersOf
<1>10. ASSUME NEW q \in Runs, RequestCancel(r, q) PROVE Caused(r)'
  <2>1. /\ pc[r] = "cancel" /\ pc'[r] \in {"cancel", "await"} /\ q \in todo[r] /\ todo'[r] = todo[r] \ {q}
        /\ UNCHANGED <<plan, hits, cids, result, status>>
        /\ cids[r] # {} /\ todo[r] \subseteq cids[r]
    BY <1>0, <1>10 DEF RequestCancel, Examines, Caused, TypeOK, ThreadTypeOK
  <2>2. cancel'[r] => cancel[r] \/ r = q
    BY <1>0, <1>10 DEF RequestCancel, TypeOK, RowTypeOK
  <2>3. r # q
    BY <1>0, <2>1 DEF Caused, Meets
  <2>4. \A s \in hits'[r] \cup cids'[r] : Meets(r, s)'
    BY <1>0, <1>a, <1>b, <1>c, <2>1 DEF Caused
  <2>5. cancel'[r] \/ result'[r] = "skipped" \/ status'[r] \in {"skipped", "cancelled"} =>
          \E s \in Runs : Meets(r, s)'
    BY <1>0, <1>a, <1>b, <2>1, <2>2, <2>3 DEF Caused
  <2> QED
    BY <2>1, <2>4, <2>5 DEF Caused, Fresh
<1>11. CASE NasReady(r)
  BY <1>0, <1>11, <1>d DEF NasReady, Caused, Fresh
<1>12. CASE NasNotReady(r) \/ StopForCancel(r) \/ StepImpossible(r) \/ StepFails(r)
  <2>1. /\ pc[r] \in {"gate", "step", "acting"} /\ pc' = [pc EXCEPT ![r] = "finish"]
        /\ UNCHANGED <<plan, hits, cids, cancel, status>> /\ result'[r] # "skipped"
    BY <1>0, <1>12 DEF NasNotReady, StopForCancel, StepImpossible, StepFails, TypeOK, ThreadTypeOK
  <2> QED
    BY <1>0, <1>d, <2>1 DEF Caused, Fresh
<1>13. ASSUME NEW x \in Refs, BeginStep(r, x) PROVE Caused(r)'
  BY <1>0, <1>13, <1>d DEF BeginStep, Caused, Fresh
<1>14. ASSUME NEW failed \in BOOLEAN, EndStep(r, failed) PROVE Caused(r)'
  <2>1. /\ pc[r] = "acting" /\ \E place \in {"step", "finish"} : pc' = [pc EXCEPT ![r] = place]
        /\ UNCHANGED <<plan, hits, cids, cancel, status>>
        /\ result'[r] = result[r] \/ result'[r] # "skipped"
    BY <1>0, <1>14 DEF EndStep, TypeOK, ThreadTypeOK
  <2> QED
    BY <1>0, <1>d, <2>1 DEF Caused, Fresh
<1>15. CASE FinishRun(r)
  <2>1. /\ pc[r] = "finish" /\ pc' = [pc EXCEPT ![r] = "done"]
        /\ UNCHANGED <<plan, hits, cids, cancel, result>>
        /\ status'[r] \in {"deleted", result[r]}
    BY <1>0, <1>15 DEF FinishRun, TypeOK, RowTypeOK
  <2>2. result[r] = "cancelled" => cancel[r]
    BY <1>0, <2>1 DEF Told, Truth
  <2> QED
    BY <1>0, <1>d, <2>1, <2>2 DEF Caused, Fresh
<1> QED
  BY <1>1, <1>2, <1>3, <1>4, <1>5, <1>6, <1>7, <1>8, <1>9, <1>10, <1>11, <1>12, <1>13, <1>14, <1>15, <1>16 DEF RunStep

\* A run asks only those to cancel that it meets.
LEMMA CancelHasCause ==
  ASSUME CauseInv, NEW r \in Runs, RunStep(r), NEW q \in Runs \ {r}
  PROVE  cancel'[q] = cancel[q] \/ \E s \in Runs : status[q] # "none" /\ Meets(q, s)
<1> USE DEF rowVars
<1>0. TypeOK /\ Told(r) /\ Caused(r) /\ Caused(q)
  BY DEF CauseInv, OutcomeInv
<1>1. ASSUME NEW p \in Runs, RequestCancel(r, p)
      PROVE  cancel'[q] = cancel[q] \/ \E s \in Runs : status[q] # "none" /\ Meets(q, s)
  <2>1. p # q => cancel'[q] = cancel[q]
    BY <1>0, <1>1 DEF RequestCancel, TypeOK, RowTypeOK
  <2>2. Meets(r, p) /\ status[r] # "none"
    BY <1>0, <1>1 DEF RequestCancel, Examines, Caused, Told, Fresh
  <2>3. Meets(p, r) /\ status[p] # "none"
    BY <2>2, MeetsBack DEF Meets
  <2> QED
    BY <2>1, <2>3
<1>2. (\A p \in Runs : ~ RequestCancel(r, p)) => cancel' = cancel
  BY DEF RunStep, CreateRow, LoadGroup, GroupMissing, List, Admit, Refuse,
    StartCancelling, KeepWaiting, GiveUp, Follow, Examine, ExamineGroup, Compare,
    NasReady, NasNotReady,
    BeginStep, StopForCancel, StepImpossible, EndStep, StepFails, FinishRun
<1> QED
  BY <1>1, <1>2

LEMMA StepCaused ==
  ASSUME Steady, CauseInv, Step
  PROVE  \A q \in Runs : Caused(q)'
<1> USE DEF configVars, rowVars, goalVars, searchVars, waitVars, workVars, threadVars, core, Goto
<1>0. TypeOK /\ OutcomeInv /\ \A q \in Runs : Told(q) /\ Caused(q)
  BY DEF CauseInv, OutcomeInv
<1>1. ASSUME NEW r \in Runs, NEW s \in Requestable, NEW p \in Policies, Request(r, s, p)
      PROVE  \A q \in Runs : Caused(q)'
  <2>1. Steadily
    BY <1>0, <1>1, RequestSteadily
  <2>2. ASSUME NEW q \in Runs PROVE Caused(q)'
    <3>1. CASE q = r
      <4>1. /\ pc[r] \in Fresh /\ status[r] = "none" /\ pc'[r] = "requested"
            /\ (src'[r] \in Schedules => plan'[r] = {})
            /\ UNCHANGED <<hits, cids, cancel, result, status>>
        BY <1>0, <1>1 DEF Request, Told, Fresh, TypeOK, RowTypeOK, ThreadTypeOK
      <4> QED
        BY <1>0, <3>1, <4>1 DEF Caused
    <3>2. CASE q # r
      <4>1. /\ UNCHANGED <<pc[q], plan[q], src[q]>>
            /\ UNCHANGED <<wanted, todo, hits, via, cids, result, status, cancel>>
        BY <1>0, <1>1, <3>2 DEF Request, TypeOK, RowTypeOK, ThreadTypeOK
      <4> QED
        BY <2>1, <4>1, CausedStays
    <3> QED
      BY <3>1, <3>2
  <2> QED
    BY <2>1, <2>2
<1>2. ASSUME NEW r \in Runs, RunStep(r)
      PROVE  \A q \in Runs : Caused(q)'
  <2>1. Steadily
    BY <1>2, RunStepSteadily
  <2>2. ASSUME NEW q \in Runs \ {r} PROVE Caused(q)'
    BY <1>0, <1>2, <2>1, OthersUnmoved, CancelHasCause, CausedStays
  <2> QED
    BY <1>2, <2>1, <2>2, RunStepCaused
\* Nobody moves, and rows may only go.
<1>3. ASSUME Steadily, UNCHANGED <<pc, plan, src, wanted, todo, hits, via, cids, result, cancel>>,
             \A q \in Runs : status'[q] = status[q] \/ (status[q] # "none" /\ status'[q] = "deleted")
      PROVE  \A q \in Runs : Caused(q)'
  BY <1>3, CausedStays
<1>4. ASSUME NEW r \in Runs, DeadlinePasses(r) PROVE \A q \in Runs : Caused(q)'
  BY <1>3, <1>4 DEF DeadlinePasses, Steadily
<1>5. ASSUME NEW r \in Runs, SearchRaises(r) PROVE \A q \in Runs : Caused(q)'
  <2>1. Steadily
    BY <1>5 DEF SearchRaises, Steadily
  <2>2. ASSUME NEW q \in Runs PROVE Caused(q)'
    <3>1. CASE q # r
      <4>1. /\ pc'[q] = pc[q]
            /\ UNCHANGED <<plan, src, wanted, todo, hits, via, cids, result, status, cancel>>
        BY <1>0, <1>5, <3>1 DEF SearchRaises, TypeOK, ThreadTypeOK
      <4> QED
        BY <2>1, <4>1, CausedStays
    <3>2. CASE q = r
      <4>1. /\ pc[r] \in Searching /\ pc'[r] = "dead"
            /\ UNCHANGED <<plan, src, hits, cids, result, status, cancel>>
        BY <1>0, <1>5 DEF SearchRaises, TypeOK, ThreadTypeOK
      <4>2. status[r] # "none"
        BY <1>0, <4>1 DEF Told, Fresh, Searching
      <4>3. \A s \in Runs : Meets(r, s) => Meets(r, s)'
        BY <2>1, <4>2, MeetsStays
      <4>4. hits[r] \cup cids[r] \subseteq Runs
        BY <1>0 DEF TypeOK, ThreadTypeOK
      <4>5. \A s \in hits'[r] \cup cids'[r] : Meets(r, s)'
        BY <1>0, <4>1, <4>3, <4>4 DEF Caused
      <4>6. cancel'[r] \/ result'[r] = "skipped" \/ status'[r] \in {"skipped", "cancelled"} =>
              \E s \in Runs : Meets(r, s)'
        BY <1>0, <4>1, <4>3 DEF Caused
      <4> QED
        BY <3>2, <4>1, <4>5, <4>6 DEF Caused, Fresh
    <3> QED
      BY <3>1, <3>2
  <2> QED
    BY <2>1, <2>2
<1>6. ASSUME \/ \E r \in Runs : CancelRun(r)
             \/ \E g \in Groups : DeleteGroup(g) \/ \E S \in GroupChoices : UpdateGroup(g, S)
             \/ \E s \in Schedules, t \in ScheduleChoices : UpdateSchedule(s, t)
      PROVE  FALSE
  BY <1>6 DEF Steady, CancelRun, DeleteGroup, UpdateGroup, UpdateSchedule
<1>7. ASSUME NEW k \in Runs, Compact(k) PROVE \A q \in Runs : Caused(q)'
  BY <1>3, <1>7 DEF Compact, Rows, Steadily
<1>8. CASE Restore
  BY <1>8, RestoreCaused
<1>9. CASE Restart
  <2>1. Steadily
    BY <1>9 DEF Restart, Steadily
  <2>2. ASSUME NEW q \in Runs PROVE Caused(q)'
    <3>1. UNCHANGED <<plan, src, hits, cids, result, status, cancel>>
      BY <1>9 DEF Restart
    <3>2. pc'[q] = IF pc[q] \in Fresh THEN "idle" ELSE IF pc[q] = "done" THEN "done" ELSE "dead"
      BY <1>9 DEF Restart, Fresh
    <3>3. CASE status[q] = "none"
      BY <1>0, <3>1, <3>2, <3>3 DEF Told, Caused, Fresh
    <3>4. CASE status[q] # "none"
      <4>1. pc'[q] \in {"done", "dead"}
        BY <1>0, <3>2, <3>4 DEF Told
      <4>2. \A s \in Runs : Meets(q, s) => Meets(q, s)'
        BY <2>1, <3>4, MeetsStays
      <4>3. hits[q] \cup cids[q] \subseteq Runs
        BY <1>0 DEF TypeOK, ThreadTypeOK
      <4>4. \A s \in hits'[q] \cup cids'[q] : Meets(q, s)'
        BY <1>0, <3>1, <4>2, <4>3 DEF Caused
      <4>5. cancel'[q] \/ result'[q] = "skipped" \/ status'[q] \in {"skipped", "cancelled"} =>
              \E s \in Runs : Meets(q, s)'
        BY <1>0, <3>1, <4>2 DEF Caused
      <4> QED
        BY <4>1, <4>4, <4>5 DEF Caused, Fresh
    <3> QED
      BY <3>3, <3>4
  <2> QED
    BY <2>1, <2>2
<1>10. CASE Quiet
  BY <1>3, <1>10 DEF Quiet, Steadily
<1> QED
  BY <1>1, <1>2, <1>4, <1>5, <1>6, <1>7, <1>8, <1>9, <1>10 DEF Step

LEMMA CauseInvariant == ASSUME Steady PROVE Spec => []CauseInv
<1>1. Init => CauseInv
  <2> SUFFICES ASSUME Init PROVE CauseInv
    OBVIOUS
  <2>1. OutcomeInv
    BY InitTypeOK DEF Init, OutcomeInv, Told, Fresh, Before, Searching
  <2>2. ASSUME NEW r \in Runs PROVE Caused(r)
    BY DEF Init, Caused
  <2> QED
    BY <2>1, <2>2 DEF CauseInv
<1>2. CauseInv /\ [Next]_vars => CauseInv'
  <2> SUFFICES ASSUME CauseInv, [Next]_vars PROVE CauseInv'
    OBVIOUS
  <2>1. OutcomeInv'
    BY OutcomeInductive DEF CauseInv
  <2>2. CASE Next
    BY <2>1, <2>2, StepCaused DEF Next, CauseInv
  <2>3. CASE UNCHANGED vars
    <3> USE DEF vars, core, configVars, rowVars, goalVars, searchVars, waitVars, workVars
    <3>1. Steadily
      BY <2>3 DEF Steadily
    <3>2. ASSUME NEW q \in Runs PROVE Caused(q)'
      BY <2>3, <3>1, CausedStays
    <3> QED
      BY <2>1, <3>2 DEF CauseInv
  <2> QED
    BY <2>2, <2>3
<1> QED
  BY <1>1, <1>2, PTL DEF Spec

\* docs/ARCHITECTURE.md:30, "independent groups may run concurrently": for any
\* number of runs, whatever lookups fail and rows are lost, a run is skipped or
\* cancelled only where another run is over one of its containers.
THEOREM IndependentAreLeftAlone == ASSUME Steady PROVE Spec => []IndependentRunsProceed
<1>1. CauseInv => IndependentRunsProceed
  BY DEF CauseInv, IndependentRunsProceed, Caused, Meets
<1> QED
  BY <1>1, CauseInvariant, PTL

-----------------------------------------------------------------------------
(* Towards EveryRunEnds *)

\* A run polls for the end of those it has asked to cancel.
Polls(r) == pc[r] \in {"await", "examine", "follow"} /\ cids[r] # {} /\ ~ expired[r]

Waits(r) == pc[r] \in {"cancel", "await"} => cids[r] # {}

All == Cardinality(Refs)
ToExamine(r) == Cardinality(todo[r])
ToDo(r) == Cardinality(Refs \ did[r])

\* The calls that examining the rest of the list takes: two for each row at most.
Reads(r) == 2 * ToExamine(r) - (IF pc[r] = "follow" THEN 1 ELSE 0)

\* How many steps r has before it at most, its polls until the deadline counted as
\* one: two for each container, two for each run that is examined, one for each that
\* is cancelled.
StepsLeft(r) ==
  CASE pc[r] = "finish" -> 1
    [] pc[r] = "step" -> 2 * ToDo(r) + 2
    [] pc[r] = "acting" -> 2 * ToDo(r) + 3
    [] pc[r] = "gate" -> 2 * All + 3
    [] Polls(r) -> 2 * All + 2 * MaxRuns + 6
    [] pc[r] = "await" /\ ~ Polls(r) -> 2 * All + 4
    [] pc[r] \in {"examine", "follow"} /\ ~ Polls(r) /\ cids[r] # {} -> 2 * All + Reads(r) + 5
    [] pc[r] = "cancel" -> 2 * All + 2 * MaxRuns + ToExamine(r) + 7
    [] pc[r] \in {"examine", "follow"} /\ cids[r] = {} -> 2 * All + 3 * MaxRuns + Reads(r) + 8
    [] pc[r] = "list" -> 2 * All + 5 * MaxRuns + 9
    [] pc[r] = "load" -> 2 * All + 5 * MaxRuns + 10
    [] pc[r] = "requested" -> 2 * All + 5 * MaxRuns + 11
    [] OTHER -> 0

LEMMA CountsAre ==
  ASSUME IsFiniteSet(Refs), TypeOK, NEW r \in Runs
  PROVE  /\ MaxRuns \in Nat /\ All \in Nat
         /\ ToExamine(r) \in 0 .. MaxRuns
         /\ todo[r] = {} => ToExamine(r) = 0
         /\ Cardinality(hits[r]) \in 0 .. MaxRuns
         /\ ToDo(r) \in 0 .. All
<1>1. IsFiniteSet(Runs) /\ Cardinality(Runs) = MaxRuns /\ MaxRuns \in Nat
  BY CountAssumption, FS_Interval DEF Runs
<1>2. todo[r] \in SUBSET Runs /\ hits[r] \in SUBSET Runs
  BY DEF TypeOK, ThreadTypeOK
<1>3. Refs \ did[r] \in SUBSET Refs
  OBVIOUS
<1>4. All \in Nat
  BY FS_CardinalityType DEF All
<1>5. IsFiniteSet(todo[r]) /\ ToExamine(r) <= MaxRuns
  BY <1>1, <1>2, FS_Subset DEF ToExamine
<1>6. IsFiniteSet(hits[r]) /\ Cardinality(hits[r]) <= MaxRuns
  BY <1>1, <1>2, FS_Subset
<1>7. IsFiniteSet(Refs \ did[r]) /\ ToDo(r) <= All
  BY <1>3, FS_Subset DEF ToDo, All
<1>8. ToExamine(r) \in Nat /\ Cardinality(hits[r]) \in Nat /\ ToDo(r) \in Nat
  BY <1>5, <1>6, <1>7, FS_CardinalityType DEF ToExamine, ToDo
<1>9. todo[r] = {} => ToExamine(r) = 0
  BY FS_EmptySet DEF ToExamine
<1> QED
  BY <1>1, <1>4, <1>5, <1>6, <1>7, <1>8, <1>9

LEMMA OneLess ==
  ASSUME IsFiniteSet(Refs), TypeOK, NEW r \in Runs
  PROVE  /\ \A q \in todo[r] : Cardinality(todo[r] \ {q}) = ToExamine(r) - 1
         /\ \A x \in Refs \ did[r] : Cardinality(Refs \ (did[r] \cup {x})) = ToDo(r) - 1
<1>1. IsFiniteSet(todo[r])
  <2>1. todo[r] \in SUBSET Runs /\ IsFiniteSet(Runs)
    BY CountAssumption, FS_Interval DEF Runs, TypeOK, ThreadTypeOK
  <2> QED
    BY <2>1, FS_Subset
<1>2. IsFiniteSet(Refs \ did[r])
  <2>1. Refs \ did[r] \in SUBSET Refs
    OBVIOUS
  <2> QED
    BY <2>1, FS_Subset
<1>3. \A x : Refs \ (did[r] \cup {x}) = (Refs \ did[r]) \ {x}
  OBVIOUS
<1> QED
  BY <1>1, <1>2, <1>3, FS_RemoveElement DEF ToExamine, ToDo

\* The step of a run costs it one of its steps, unless it is a poll.
LEMMA RunStepCounts ==
  ASSUME IsFiniteSet(Refs), TypeOK, TypeOK', NEW r \in Runs, Waits(r), RunStep(r)
  PROVE  /\ Waits(r)'
         /\ StepsLeft(r)' < StepsLeft(r) \/ (Polls(r) /\ StepsLeft(r)' = StepsLeft(r))
<1> USE CountsAre DEF configVars, rowVars, goalVars, searchVars, waitVars, workVars, Goto, EndWith,
      Waits, Polls, StepsLeft, Reads
<1>0. /\ pc \in [Runs -> Places] /\ todo \in [Runs -> SUBSET Runs] /\ did \in [Runs -> SUBSET Refs]
      /\ cids \in [Runs -> SUBSET Runs] /\ expired \in [Runs -> BOOLEAN]
  BY DEF TypeOK, ThreadTypeOK
<1>a. todo'[r] = todo[r] => ToExamine(r)' = ToExamine(r)
  BY DEF ToExamine
<1>b. did'[r] = did[r] => ToDo(r)' = ToDo(r)
  BY DEF ToDo
<1>1. CASE CreateRow(r) \/ LoadGroup(r) \/ GroupMissing(r)
  BY <1>0, <1>1 DEF CreateRow, LoadGroup, GroupMissing
<1>2. CASE List(r)
  <2>1. ToExamine(r)' \in 0 .. MaxRuns
    <3>1. todo'[r] \in SUBSET Runs
      BY DEF TypeOK, ThreadTypeOK
    <3>2. IsFiniteSet(Runs) /\ Cardinality(Runs) = MaxRuns /\ MaxRuns \in Nat
      BY CountAssumption, FS_Interval DEF Runs
    <3>3. IsFiniteSet(todo'[r]) /\ Cardinality(todo'[r]) <= MaxRuns
      BY <3>1, <3>2, FS_Subset
    <3> QED
      BY <3>2, <3>3, FS_CardinalityType DEF ToExamine
  <2> QED
    BY <1>0, <1>2, <2>1 DEF List
<1>3. CASE Admit(r) \/ Refuse(r) \/ KeepWaiting(r) \/ GiveUp(r)
  BY <1>0, <1>a, <1>b, <1>3 DEF Admit, Refuse, KeepWaiting, GiveUp, Searched
<1>4. CASE StartCancelling(r)
  <2>1. ToExamine(r)' = Cardinality(hits[r])
    BY <1>0, <1>4 DEF StartCancelling, ToExamine
  <2> QED
    BY <1>0, <1>4, <2>1 DEF StartCancelling, Searched
<1>5. ASSUME NEW q \in Runs, Examine(r, q) \/ ExamineGroup(r, q)
      PROVE  /\ Waits(r)'
             /\ StepsLeft(r)' < StepsLeft(r) \/ (Polls(r) /\ StepsLeft(r)' = StepsLeft(r))
  <2>1. ToExamine(r)' = ToExamine(r) - 1
    BY <1>0, <1>5, OneLess DEF Examine, ExamineGroup, Examines, Compare, ToExamine
  <2> QED
    BY <1>0, <1>5, <2>1 DEF Examine, ExamineGroup, Compare
<1>10. ASSUME NEW q \in Runs, Follow(r, q)
      PROVE  /\ Waits(r)'
             /\ StepsLeft(r)' < StepsLeft(r) \/ (Polls(r) /\ StepsLeft(r)' = StepsLeft(r))
  BY <1>0, <1>a, <1>10 DEF Follow
<1>6. ASSUME NEW q \in Runs, RequestCancel(r, q)
      PROVE  /\ Waits(r)'
             /\ StepsLeft(r)' < StepsLeft(r) \/ (Polls(r) /\ StepsLeft(r)' = StepsLeft(r))
  <2>1. ToExamine(r)' = ToExamine(r) - 1
    BY <1>0, <1>6, OneLess DEF RequestCancel, Examines, ToExamine
  <2> QED
    BY <1>0, <1>6, <2>1 DEF RequestCancel
<1>7. CASE NasReady(r) \/ NasNotReady(r) \/ StopForCancel(r) \/ StepImpossible(r) \/ StepFails(r)
  BY <1>0, <1>b, <1>7 DEF NasReady, NasNotReady, StopForCancel, StepImpossible, StepFails
<1>8. ASSUME NEW x \in Refs, BeginStep(r, x)
      PROVE  /\ Waits(r)'
             /\ StepsLeft(r)' < StepsLeft(r) \/ (Polls(r) /\ StepsLeft(r)' = StepsLeft(r))
  <2>1. ToDo(r)' = ToDo(r) - 1
    BY <1>0, <1>8, OneLess DEF BeginStep, ToDo
  <2> QED
    BY <1>0, <1>8, <2>1 DEF BeginStep
<1>9. CASE FinishRun(r) \/ \E failed \in BOOLEAN : EndStep(r, failed)
  BY <1>0, <1>b, <1>9 DEF FinishRun, EndStep
<1> QED
  BY <1>1, <1>2, <1>3, <1>4, <1>5, <1>6, <1>7, <1>8, <1>9, <1>10 DEF RunStep

LEMMA NoDeadline ==
  ASSUME NEW r \in Runs, RunStep(r)
  PROVE  expired' = expired
BY DEF RunStep, CreateRow, LoadGroup, GroupMissing, List, Admit, Refuse,
  StartCancelling, KeepWaiting, GiveUp, Follow, Examine, ExamineGroup, Compare,
    RequestCancel, NasReady, NasNotReady,
  BeginStep, StopForCancel, StepImpossible, EndStep, StepFails, FinishRun, waitVars

\* Nobody else gives a run more to do: others leave its steps, a restart takes them.
LEMMA OthersCount ==
  ASSUME IsFiniteSet(Refs), TypeOK, NEW r \in Runs, Waits(r), Step, ~ RunStep(r)
  PROVE  /\ Waits(r)'
         /\ pc[r] # "idle" => StepsLeft(r)' <= StepsLeft(r)
         /\ DeadlinePasses(r) => StepsLeft(r)' < StepsLeft(r)
<1> USE DEF configVars, rowVars, goalVars, searchVars, waitVars, workVars, Goto
<1>0. /\ pc \in [Runs -> Places] /\ expired \in [Runs -> BOOLEAN]
      /\ StepsLeft(r) \in Nat
  <2>1. pc \in [Runs -> Places] /\ expired \in [Runs -> BOOLEAN]
    BY DEF TypeOK, ThreadTypeOK
  <2> QED
    BY <2>1, CountsAre DEF StepsLeft, Reads, Polls, Places, Engaged, Searching, Control
<1>1. ASSUME UNCHANGED <<pc[r], todo[r], cids[r], expired[r], did[r]>>
      PROVE  StepsLeft(r)' = StepsLeft(r) /\ Waits(r)'
  BY <1>1 DEF StepsLeft, Reads, Polls, ToExamine, ToDo, All, Waits
<1>2. ASSUME pc'[r] \in {"done", "dead", "idle"} PROVE StepsLeft(r)' = 0 /\ Waits(r)'
  BY <1>2 DEF StepsLeft, Polls, Waits
<1>3. CASE DeadlinePasses(r)
  <2>1. Polls(r) /\ expired'[r] /\ UNCHANGED <<pc, todo, cids, did>>
    BY <1>0, <1>3 DEF DeadlinePasses, Polls
  <2>2. ToExamine(r)' = ToExamine(r)
    BY <2>1 DEF ToExamine
  <2> QED
    BY <1>0, <2>1, <2>2, CountsAre DEF StepsLeft, Reads, Polls, Waits
<1>4. ASSUME NEW q \in Runs \ {r}, RunStep(q) PROVE StepsLeft(r)' = StepsLeft(r) /\ Waits(r)'
  <2>1. UNCHANGED <<pc[r], todo[r], cids[r], did[r]>>
    BY <1>4, OthersUnmoved
  <2>2. expired' = expired
    BY <1>4, NoDeadline
  <2> QED
    BY <1>1, <2>1, <2>2
<1>5. ASSUME NEW q \in Runs, SearchRaises(q) \/ DeadlinePasses(q), ~ DeadlinePasses(r)
      PROVE  StepsLeft(r)' <= StepsLeft(r) /\ Waits(r)'
  <2>1. CASE q = r
    BY <1>0, <1>2, <1>5, <2>1 DEF SearchRaises
  <2>2. CASE q # r
    BY <1>0, <1>1, <1>5, <2>2 DEF SearchRaises, DeadlinePasses
  <2> QED
    BY <2>1, <2>2
<1>6. ASSUME NEW q \in Runs, NEW s \in Requestable, NEW p \in Policies, Request(q, s, p)
      PROVE  (pc[r] # "idle" => StepsLeft(r)' = StepsLeft(r)) /\ Waits(r)'
  <2>1. CASE q = r
    BY <1>0, <1>6, <2>1 DEF Request, Waits
  <2>2. CASE q # r
    BY <1>0, <1>1, <1>6, <2>2 DEF Request
  <2> QED
    BY <2>1, <2>2
<1>7. ASSUME Restart PROVE StepsLeft(r)' <= StepsLeft(r) /\ Waits(r)'
  <2>1. pc'[r] \in {"done", "dead", "idle"}
    BY <1>0, <1>7 DEF Restart
  <2> QED
    BY <1>0, <1>2, <2>1
<1>8. ASSUME \/ \E q \in Runs : CancelRun(q) \/ Compact(q)
             \/ \E g \in Groups : DeleteGroup(g) \/ \E S \in GroupChoices : UpdateGroup(g, S)
             \/ \E s \in Schedules, t \in ScheduleChoices : UpdateSchedule(s, t)
             \/ Restore \/ Quiet
      PROVE  StepsLeft(r)' = StepsLeft(r) /\ Waits(r)'
  BY <1>1, <1>8 DEF CancelRun, Compact, DeleteGroup, UpdateGroup, UpdateSchedule, Restore, Quiet,
    core, threadVars
<1> QED
  BY <1>0, <1>3, <1>4, <1>5, <1>6, <1>7, <1>8 DEF Step

\* A run is over after a number of steps that its containers and the runs there may
\* be bound: each step of its thread takes one, but for the polls before its
\* deadline; the deadline takes one; no other run, user, edit, import or restart
\* gives it more.  So threads that go on and a clock that does bring each run to its
\* end, in any number and whatever they wait for of each other.
THEOREM RunsAreBounded ==
  ASSUME IsFiniteSet(Refs)
  PROVE  Spec => /\ [](\A r \in Runs : StepsLeft(r) \in 0 .. 2 * All + 5 * MaxRuns + 11)
                 /\ [][\A r \in Runs :
                         /\ RunStep(r) => \/ StepsLeft(r)' < StepsLeft(r)
                                          \/ Polls(r) /\ StepsLeft(r)' = StepsLeft(r)
                         /\ DeadlinePasses(r) => StepsLeft(r)' < StepsLeft(r)
                         /\ ~ RunStep(r) /\ pc[r] # "idle" => StepsLeft(r)' <= StepsLeft(r)]_vars
<1> DEFINE WaitInv == TypeOK /\ \A r \in Runs : Waits(r)
           Counts == \A r \in Runs :
                       /\ RunStep(r) => \/ StepsLeft(r)' < StepsLeft(r)
                                        \/ Polls(r) /\ StepsLeft(r)' = StepsLeft(r)
                       /\ DeadlinePasses(r) => StepsLeft(r)' < StepsLeft(r)
                       /\ ~ RunStep(r) /\ pc[r] # "idle" => StepsLeft(r)' <= StepsLeft(r)
<1>1. WaitInv => \A r \in Runs : StepsLeft(r) \in 0 .. 2 * All + 5 * MaxRuns + 11
  <2> SUFFICES ASSUME TypeOK, NEW r \in Runs
               PROVE  StepsLeft(r) \in 0 .. 2 * All + 5 * MaxRuns + 11
    OBVIOUS
  <2>1. pc[r] \in Places
    BY DEF TypeOK, ThreadTypeOK
  <2>2. /\ MaxRuns \in Nat /\ All \in Nat
        /\ ToExamine(r) \in 0 .. MaxRuns /\ ToDo(r) \in 0 .. All
    BY CountsAre
  <2>3. StepsLeft(r) \in
          {0, 1, 2 * ToDo(r) + 2, 2 * ToDo(r) + 3, 2 * All + 3, 2 * All + 4,
           2 * All + 2 * MaxRuns + 6, 2 * All + Reads(r) + 5, 2 * All + 2 * MaxRuns + ToExamine(r) + 7,
           2 * All + 3 * MaxRuns + Reads(r) + 8, 2 * All + 5 * MaxRuns + 9,
           2 * All + 5 * MaxRuns + 10, 2 * All + 5 * MaxRuns + 11}
    BY <2>1 DEF StepsLeft, Polls, Places, Engaged, Searching, Control
  <2>4. Reads(r) \in -1 .. 2 * MaxRuns
    BY <2>2 DEF Reads
  <2> QED
    BY <2>2, <2>3, <2>4
<1>2. Init => WaitInv
  BY InitTypeOK DEF Init, Waits
<1>3. WaitInv /\ [Next]_vars => WaitInv' /\ [Counts]_vars
  <2> SUFFICES ASSUME WaitInv, [Next]_vars PROVE WaitInv' /\ [Counts]_vars
    OBVIOUS
  <2>1. TypeOK'
    BY NextTypeOK
  <2>2. CASE Next
    <3> SUFFICES ASSUME NEW r \in Runs
                 PROVE  /\ Waits(r)'
                        /\ RunStep(r) => \/ StepsLeft(r)' < StepsLeft(r)
                                         \/ Polls(r) /\ StepsLeft(r)' = StepsLeft(r)
                        /\ DeadlinePasses(r) => StepsLeft(r)' < StepsLeft(r)
                        /\ ~ RunStep(r) /\ pc[r] # "idle" => StepsLeft(r)' <= StepsLeft(r)
      BY <2>1
    <3>1. CASE RunStep(r)
      <4>1. /\ Waits(r)'
            /\ StepsLeft(r)' < StepsLeft(r) \/ (Polls(r) /\ StepsLeft(r)' = StepsLeft(r))
        BY <2>1, <3>1, RunStepCounts
      <4>2. ~ DeadlinePasses(r)
        BY <3>1, NoDeadline DEF DeadlinePasses, TypeOK, ThreadTypeOK
      <4> QED
        BY <3>1, <4>1, <4>2
    <3>2. CASE ~ RunStep(r)
      BY <2>2, <3>2, OthersCount DEF Next
    <3> QED
      BY <3>1, <3>2
  <2>3. CASE UNCHANGED vars
    BY <2>1, <2>3 DEF vars, core, goalVars, searchVars, waitVars, workVars, Waits
  <2> QED
    BY <2>2, <2>3
<1> QED
  BY <1>1, <1>2, <1>3, PTL DEF Spec
=============================================================================
