------------------------ MODULE GroupExecutionProofs ------------------------
(***************************************************************************)
(* Proofs of the safety of GroupExecution for groups of any length.        *)
(***************************************************************************)
EXTENDS GroupExecution, FiniteSetTheorems, TLAPS

(* What the loop keeps to, whatever Docker and the users do. *)

Typed == TypeOK /\ acted \in Seq(Containers) /\ errorPolicy \in {"stop", "continue"}

\* The rows of action_run_steps are those of the containers acted on.
RowsFollow ==
  /\ pc \in {"check", "insert"} => Len(acted) = index - 1
  /\ pc \in {"acting", "settle", "health", "delay"} => Len(acted) = index
  /\ pc \in {"health", "delay"} => index < N
  /\ Len(acted) \in {index - 1, index}
  /\ failures \subseteq 1 .. Len(acted)
  /\ pc = "acting" => steps[index] = "running" /\ index \notin failures
  /\ \A i \in Positions :
       IF i > Len(acted) THEN steps[i] = "none"
       ELSE ~ (pc = "acting" /\ i = index) =>
              steps[i] = IF i \in failures THEN "failed" ELSE "success"

\* What a run that is not over has not met, and what ended one that is.
OutcomeFollows ==
  /\ pc = "done" <=> outcome # "running"
  /\ errorPolicy = "stop" =>
       failures = {} \/ (pc = "done" /\ failures = {Len(acted)} /\ outcome = "failed")
  /\ outcome = "success" => Len(acted) = N /\ failures = {}
  /\ outcome = "cancelled" => cancelRequested /\ Len(acted) < N
  /\ outcome = "failed" /\ failures = {} =>
       /\ WaitsForHealth /\ acted # << >> /\ Len(acted) < N
       /\ seen[Len(acted)] = {}
  /\ outcome = "failed" /\ failures # {} /\ Len(acted) < N => errorPolicy = "stop"

LateFollows == late = 0 \/ (late = 1 /\ cancelRequested /\ pc # "insert")

Gated(i) == WaitsForHealth /\ failures \cap (1 .. i) = {}

Settled(i) ==
  /\ Gated(i) => seen[i] \cap {"healthy", "none"} # {}
  /\ DelayAfter(i) > 0 /\ (Gated(i) => "none" \in seen[i]) => "slept" \in seen[i]

\* Each position before the present one is settled, and the present one not yet.
SettledSoFar ==
  /\ \A i \in 1 .. index - 1 : Settled(i)
  /\ pc \in {"check", "insert", "acting", "settle", "health"} => seen[index] = {}
  /\ \A i \in Positions : i > index => seen[i] = {}
  /\ pc = "health" => WaitsForHealth /\ failures = {}
  /\ pc = "delay" /\ Gated(index) => seen[index] \cap {"healthy", "none"} # {}

IInv == Typed /\ InGroupOrder /\ RowsFollow /\ OutcomeFollows /\ LateFollows /\ SettledSoFar

-----------------------------------------------------------------------------
(* The group *)

LEMMA Lengths == N \in Nat \ {0} /\ Positions = 1 .. N
BY ItemsAssumption DEF N, Positions

LEMMA OrderIs ==
  ASSUME NEW i \in Positions
  PROVE  /\ Order[i] = IF action = "stop" THEN Items[N + 1 - i] ELSE Items[i]
         /\ Order[i] \in Containers
<1>1. N + 1 - i \in Positions
  BY Lengths
<1> QED
  BY <1>1, Lengths DEF Order, Containers

\* The snapshot of the group does not change.
LEMMA Snapshot ==
  ASSUME UNCHANGED groupVars
  PROVE  /\ Order' = Order /\ WaitsForHealth' = WaitsForHealth
         /\ \A i : DelayAfter(i)' = DelayAfter(i)
         /\ action' = action /\ errorPolicy' = errorPolicy
BY DEF groupVars, Order, WaitsForHealth, DelayAfter

LEMMA StepIsAction ==
  ASSUME [Next]_vars
  PROVE  \/ Thread \/ RequestCancel \/ (\E c \in Containers : HealthChanges(c))
         \/ UNCHANGED vars
BY DEF Next, Over

-----------------------------------------------------------------------------
(* Types *)

LEMMA InitTyped == Init => Typed
BY Lengths DEF Init, Typed, TypeOK, Healths

LEMMA StepTyped ==
  ASSUME Typed, RowsFollow, [Next]_vars
  PROVE  Typed'
<1> USE DEF Typed, TypeOK, groupVars, runVars, historyVars, End, Advance, Note
<1>1. ASSUME CheckCancelled PROVE Typed'
  BY <1>1 DEF CheckCancelled
<1>2. ASSUME CreateStep PROVE Typed'
  <2>1. acted' \in Seq(Containers) /\ Len(acted') = Len(acted) + 1
    BY <1>2, OrderIs DEF CreateStep
  <2>2. Len(acted') <= N
    BY <1>2, <2>1, Lengths DEF CreateStep, RowsFollow
  <2> QED
    BY <1>2, <2>1, <2>2 DEF CreateStep
<1>3. ASSUME ActionSucceeds PROVE Typed'
  BY <1>3 DEF ActionSucceeds, Healths
<1>4. ASSUME ActionFails PROVE Typed'
  BY <1>4 DEF ActionFails
<1>5. ASSUME Settle PROVE Typed'
  BY <1>5, Lengths DEF Settle
<1>6. ASSUME LastDone PROVE Typed'
  BY <1>6 DEF LastDone
<1>7. ASSUME HealthAnswers PROVE Typed'
  BY <1>7, Lengths DEF HealthAnswers, RowsFollow
<1>8. ASSUME HealthRaises PROVE Typed'
  BY <1>8 DEF HealthRaises
<1>9. ASSUME DelayCancelled PROVE Typed'
  BY <1>9 DEF DelayCancelled
<1>10. ASSUME DelayEnds PROVE Typed'
  BY <1>10, Lengths DEF DelayEnds, RowsFollow
<1>11. ASSUME RequestCancel PROVE Typed'
  BY <1>11 DEF RequestCancel
<1>12. ASSUME NEW c \in Containers, HealthChanges(c) PROVE Typed'
  BY <1>12 DEF HealthChanges, Healths
<1>13. CASE UNCHANGED vars
  BY <1>13 DEF vars
<1> QED
  BY <1>1, <1>2, <1>3, <1>4, <1>5, <1>6, <1>7, <1>8, <1>9, <1>10, <1>11, <1>12, <1>13,
     StepIsAction DEF Thread

-----------------------------------------------------------------------------
(* The order of the containers *)

LEMMA StepInGroupOrder ==
  ASSUME Typed, RowsFollow, InGroupOrder, [Next]_vars
  PROVE  InGroupOrder'
<1> USE DEF groupVars, historyVars
<1>1. ASSUME CreateStep PROVE InGroupOrder'
  <2>1. acted' = Append(acted, Order[index]) /\ action' = action
    BY <1>1 DEF CreateStep
  <2>2. Len(acted') = Len(acted) + 1 /\ Len(acted) + 1 = index
    BY <2>1, <1>1, Lengths DEF CreateStep, Typed, TypeOK, RowsFollow
  <2>3. \A k \in 1 .. Len(acted) : acted'[k] = acted[k]
    BY <2>1 DEF Typed
  <2>4. acted'[index] = Order[index]
    BY <2>1, <2>2 DEF Typed
  <2>5. SUFFICES ASSUME NEW k \in 1 .. Len(acted')
                 PROVE  acted'[k] = IF action' = "stop" THEN Items[N + 1 - k] ELSE Items[k]
    BY DEF InGroupOrder
  <2>6. CASE k = index
    BY <2>1, <2>4, <2>6, OrderIs DEF Typed, TypeOK
  <2>7. CASE k # index
    <3>1. k \in 1 .. Len(acted)
      BY <2>2, <2>7 DEF Typed
    <3> QED
      BY <2>1, <2>3, <3>1 DEF InGroupOrder
  <2> QED
    BY <2>6, <2>7
<1>2. ASSUME UNCHANGED <<acted, action>> PROVE InGroupOrder'
  BY <1>2 DEF InGroupOrder
<1>3. CASE Thread
  BY <1>1, <1>2, <1>3 DEF Thread, CheckCancelled, ActionSucceeds, ActionFails, Settle, LastDone,
                          HealthAnswers, HealthRaises, DelayCancelled, DelayEnds
<1>4. CASE RequestCancel \/ UNCHANGED vars
  BY <1>2, <1>4 DEF RequestCancel, vars
<1>5. ASSUME NEW c \in Containers, HealthChanges(c) PROVE InGroupOrder'
  BY <1>2, <1>5 DEF HealthChanges
<1> QED
  BY <1>3, <1>4, <1>5, StepIsAction

-----------------------------------------------------------------------------
(* The step rows *)

LEMMA InitRows == Init => RowsFollow
BY Lengths DEF Init, RowsFollow

LEMMA StepRows ==
  ASSUME Typed, RowsFollow, [Next]_vars
  PROVE  RowsFollow'
<1> USE Lengths DEF Typed, TypeOK, RowsFollow, groupVars, runVars, historyVars, End, Advance, Note
<1>1. ASSUME CheckCancelled PROVE RowsFollow'
  BY <1>1 DEF CheckCancelled
<1>2. ASSUME CreateStep PROVE RowsFollow'
  BY <1>2 DEF CreateStep
<1>3. ASSUME ActionSucceeds PROVE RowsFollow'
  BY <1>3 DEF ActionSucceeds
<1>4. ASSUME ActionFails PROVE RowsFollow'
  BY <1>4 DEF ActionFails
<1>5. ASSUME Settle PROVE RowsFollow'
  BY <1>5 DEF Settle
<1>6. ASSUME LastDone PROVE RowsFollow'
  BY <1>6 DEF LastDone
<1>7. ASSUME HealthAnswers PROVE RowsFollow'
  BY <1>7 DEF HealthAnswers
<1>8. ASSUME HealthRaises PROVE RowsFollow'
  BY <1>8 DEF HealthRaises
<1>9. ASSUME DelayCancelled PROVE RowsFollow'
  BY <1>9 DEF DelayCancelled
<1>10. ASSUME DelayEnds PROVE RowsFollow'
  BY <1>10 DEF DelayEnds
<1>11. ASSUME RequestCancel PROVE RowsFollow'
  BY <1>11 DEF RequestCancel
<1>12. ASSUME NEW c \in Containers, HealthChanges(c) PROVE RowsFollow'
  BY <1>12 DEF HealthChanges
<1>13. CASE UNCHANGED vars
  BY <1>13 DEF vars
<1> QED
  BY <1>1, <1>2, <1>3, <1>4, <1>5, <1>6, <1>7, <1>8, <1>9, <1>10, <1>11, <1>12, <1>13,
     StepIsAction DEF Thread

-----------------------------------------------------------------------------
(* The outcome *)

LEMMA InitOutcome == Init => OutcomeFollows
BY DEF Init, OutcomeFollows

LEMMA StepOutcome ==
  ASSUME Typed, RowsFollow, OutcomeFollows, SettledSoFar, [Next]_vars
  PROVE  OutcomeFollows'
<1> USE Lengths, Snapshot DEF Typed, TypeOK, RowsFollow, OutcomeFollows, SettledSoFar, runVars,
                              historyVars, End, Advance, Note
<1>1. ASSUME CheckCancelled PROVE OutcomeFollows'
  BY <1>1 DEF CheckCancelled
<1>2. ASSUME CreateStep PROVE OutcomeFollows'
  BY <1>2 DEF CreateStep
<1>3. ASSUME ActionSucceeds PROVE OutcomeFollows'
  BY <1>3 DEF ActionSucceeds
<1>4. ASSUME ActionFails PROVE OutcomeFollows'
  BY <1>4 DEF ActionFails
<1>5. ASSUME Settle PROVE OutcomeFollows'
  BY <1>5 DEF Settle
<1>6. ASSUME LastDone PROVE OutcomeFollows'
  BY <1>6 DEF LastDone
<1>7. ASSUME HealthAnswers PROVE OutcomeFollows'
  BY <1>7 DEF HealthAnswers
<1>8. ASSUME HealthRaises PROVE OutcomeFollows'
  <2>1. /\ outcome = "running" /\ outcome' = "failed" /\ pc' = "done"
        /\ WaitsForHealth /\ failures = {} /\ seen[index] = {}
        /\ Len(acted) = index /\ index < N /\ acted # << >>
    BY <1>8 DEF HealthRaises
  <2>2. /\ WaitsForHealth' = WaitsForHealth /\ errorPolicy' = errorPolicy
        /\ failures' = failures /\ seen' = seen /\ acted' = acted
    BY <1>8 DEF HealthRaises
  <2> HIDE Snapshot, Lengths
  <2> QED
    BY <2>1, <2>2
<1>9. ASSUME DelayCancelled PROVE OutcomeFollows'
  BY <1>9 DEF DelayCancelled
<1>10. ASSUME DelayEnds PROVE OutcomeFollows'
  BY <1>10 DEF DelayEnds
<1>11. ASSUME RequestCancel PROVE OutcomeFollows'
  BY <1>11 DEF RequestCancel
<1>12. ASSUME NEW c \in Containers, HealthChanges(c) PROVE OutcomeFollows'
  BY <1>12 DEF HealthChanges
<1>13. CASE UNCHANGED vars
  BY <1>13 DEF vars
<1> QED
  BY <1>1, <1>2, <1>3, <1>4, <1>5, <1>6, <1>7, <1>8, <1>9, <1>10, <1>11, <1>12, <1>13,
     StepIsAction DEF Thread

-----------------------------------------------------------------------------
(* Cancellation *)

LEMMA StepLate ==
  ASSUME LateFollows, [Next]_vars
  PROVE  LateFollows'
<1> USE DEF LateFollows, runVars, historyVars, End, Advance, Note
<1>1. ASSUME CheckCancelled PROVE LateFollows'
  BY <1>1 DEF CheckCancelled
<1>2. ASSUME CreateStep PROVE LateFollows'
  BY <1>2 DEF CreateStep
<1>3. ASSUME ActionSucceeds PROVE LateFollows'
  BY <1>3 DEF ActionSucceeds
<1>4. ASSUME ActionFails PROVE LateFollows'
  BY <1>4 DEF ActionFails
<1>5. ASSUME Settle PROVE LateFollows'
  BY <1>5 DEF Settle
<1>6. ASSUME LastDone PROVE LateFollows'
  BY <1>6 DEF LastDone
<1>7. ASSUME HealthAnswers PROVE LateFollows'
  BY <1>7 DEF HealthAnswers
<1>8. ASSUME HealthRaises PROVE LateFollows'
  BY <1>8 DEF HealthRaises
<1>9. ASSUME DelayCancelled PROVE LateFollows'
  BY <1>9 DEF DelayCancelled
<1>10. ASSUME DelayEnds PROVE LateFollows'
  BY <1>10 DEF DelayEnds
<1>11. ASSUME RequestCancel PROVE LateFollows'
  BY <1>11 DEF RequestCancel
<1>12. ASSUME NEW c \in Containers, HealthChanges(c) PROVE LateFollows'
  BY <1>12 DEF HealthChanges
<1>13. CASE UNCHANGED vars
  BY <1>13 DEF vars
<1> QED
  BY <1>1, <1>2, <1>3, <1>4, <1>5, <1>6, <1>7, <1>8, <1>9, <1>10, <1>11, <1>12, <1>13,
     StepIsAction DEF Thread

LEMMA InitLate == Init => LateFollows
BY DEF Init, LateFollows

-----------------------------------------------------------------------------
(* What each container is settled with *)

LEMMA InitSettled == Init => SettledSoFar
BY Lengths DEF Init, SettledSoFar

\* A position stays settled while what it is settled with stays.
LEMMA SettledStays ==
  ASSUME NEW i \in Positions, Settled(i), UNCHANGED groupVars, seen'[i] = seen[i],
         failures' \cap (1 .. i) = failures \cap (1 .. i)
  PROVE  Settled(i)'
<1>1. Gated(i)' = Gated(i)
  BY Snapshot DEF Gated
<1> QED
  BY <1>1, Snapshot DEF Settled

LEMMA StepSettled ==
  ASSUME Typed, RowsFollow, SettledSoFar, [Next]_vars
  PROVE  SettledSoFar'
<1> USE Lengths DEF Typed, TypeOK, SettledSoFar
<1>1. ASSUME UNCHANGED <<groupVars, index, failures, seen>>,
             pc' \in {"check", "insert", "acting", "settle"} => pc # "delay" /\ pc # "done",
             pc' = "health" => pc = "health" \/ (pc = "settle" /\ WaitsForHealth /\ failures = {}),
             pc' = "delay" => pc = "delay" \/ ~ Gated(index)
      PROVE  SettledSoFar'
  <2>1. \A i \in 1 .. index - 1 : Settled(i)'
    BY <1>1, SettledStays
  <2>2. WaitsForHealth' = WaitsForHealth /\ Gated(index)' = Gated(index)
    BY <1>1, Snapshot DEF Gated
  <2> QED
    BY <1>1, <2>1, <2>2
<1>2. ASSUME UNCHANGED <<groupVars, failures>>, pc' = "check", index' = index + 1,
             index + 1 \in Positions, \A i \in Positions : i = index => Settled(i)',
             \A i \in Positions : i # index => seen'[i] = seen[i]
      PROVE  SettledSoFar'
  <2>1. \A i \in 1 .. index - 1 : Settled(i)'
    BY <1>2, SettledStays
  <2>2. \A i \in 1 .. index' - 1 : Settled(i)'
    BY <1>2, <2>1
  <2> QED
    BY <1>2, <2>2
<1>3. ASSUME CheckCancelled PROVE SettledSoFar'
  BY <1>1, <1>3 DEF CheckCancelled, End, historyVars
<1>4. ASSUME CreateStep PROVE SettledSoFar'
  BY <1>1, <1>4 DEF CreateStep
<1>5. ASSUME ActionSucceeds PROVE SettledSoFar'
  BY <1>1, <1>5 DEF ActionSucceeds, historyVars
<1>6. ASSUME ActionFails PROVE SettledSoFar'
  <2>1. index' = index /\ seen' = seen /\ pc = "acting" /\ pc' \in {"settle", "done"}
    BY <1>6 DEF ActionFails, End, historyVars
  <2>2. \A i \in 1 .. index - 1 : Settled(i)'
    <3> SUFFICES ASSUME NEW i \in 1 .. index - 1 PROVE Settled(i)'
      OBVIOUS
    <3>1. failures' \cap (1 .. i) = failures \cap (1 .. i)
      BY <1>6 DEF ActionFails
    <3>2. i \in Positions /\ Settled(i) /\ UNCHANGED groupVars
      BY <1>6 DEF ActionFails
    <3> QED
      BY <2>1, <3>1, <3>2, SettledStays
  <2> QED
    BY <2>1, <2>2
<1>7. ASSUME Settle PROVE SettledSoFar'
  <2>1. UNCHANGED <<groupVars, failures>> /\ seen' = seen /\ pc = "settle" /\ Len(acted) = index
    BY <1>7 DEF Settle, historyVars, RowsFollow
  <2>2. Gated(index) => WaitsForHealth /\ failures = {}
    BY <2>1 DEF Gated, RowsFollow
  <2>3. CASE Advance
    <3>1. ~ (WaitsForHealth /\ failures = {}) /\ ~ (DelayAfter(index) > 0)
      BY <1>7, <2>3 DEF Settle, Advance
    <3>2. ASSUME NEW i \in Positions, i = index PROVE Settled(i)'
      <4>1. ~ Gated(i)'
        <5>1. ~ Gated(i)
          BY <2>2, <3>1, <3>2
        <5> QED
          BY <2>1, <5>1, Snapshot DEF Gated
      <4>2. ~ (DelayAfter(i)' > 0)
        BY <2>1, <3>1, <3>2, Snapshot
      <4> QED
        BY <4>1, <4>2 DEF Settled
    <3>3. pc' = "check" /\ index' = index + 1 /\ index + 1 \in Positions
      BY <1>7, <2>3 DEF Settle, Advance
    <3> QED
      BY <1>2, <2>1, <3>2, <3>3
  <2>4. CASE ~ Advance
    <3>1. /\ index' = index
          /\ \/ pc' = "health" /\ WaitsForHealth /\ failures = {}
             \/ pc' = "delay" /\ ~ (WaitsForHealth /\ failures = {})
      BY <1>7, <2>4 DEF Settle
    <3> QED
      BY <1>1, <2>1, <2>2, <3>1
  <2> QED
    BY <2>3, <2>4
<1>8. ASSUME LastDone PROVE SettledSoFar'
  BY <1>1, <1>8 DEF LastDone, End, historyVars
<1>9. ASSUME HealthAnswers PROVE SettledSoFar'
  <2>1. /\ UNCHANGED <<groupVars, failures>> /\ pc = "health" /\ index < N
        /\ seen[index] = {} /\ seen'[index] = {health[Order[index]]}
        /\ health[Order[index]] \in {"healthy", "none"}
        /\ \A i \in Positions : i # index => seen'[i] = seen[i]
    BY <1>9 DEF HealthAnswers, Note, RowsFollow
  <2>2. CASE Advance
    <3>1. DelayAfter(index) > 0 => health[Order[index]] # "none"
      BY <1>9, <2>2 DEF HealthAnswers, Advance
    <3>2. ASSUME NEW i \in Positions, i = index PROVE Settled(i)'
      <4>1. seen'[i] \cap {"healthy", "none"} # {}
        BY <2>1, <3>2
      <4>2. DelayAfter(i)' > 0 => "none" \notin seen'[i]
        BY <2>1, <3>1, <3>2, Snapshot
      <4>3. Gated(i)'
        <5>1. WaitsForHealth /\ failures = {}
          BY <2>1
        <5>2. WaitsForHealth' /\ failures' = {}
          BY <2>1, <5>1, Snapshot
        <5> QED
          BY <5>2 DEF Gated
      <4> QED
        BY <4>1, <4>2, <4>3 DEF Settled
    <3> QED
      BY <1>2, <2>1, <2>2, <3>2 DEF Advance
  <2>3. CASE ~ Advance
    <3>1. pc' = "delay" /\ index' = index
      BY <1>9, <2>3 DEF HealthAnswers
    <3>2. \A i \in 1 .. index - 1 : Settled(i)'
      BY <2>1, SettledStays
    <3>3. seen'[index'] \cap {"healthy", "none"} # {}
      BY <2>1, <3>1
    <3>4. \A i \in Positions : i > index' => seen'[i] = {}
      BY <2>1, <3>1
    <3>5. \A i \in 1 .. index' - 1 : Settled(i)'
      BY <3>1, <3>2
    <3> QED
      BY <3>1, <3>3, <3>4, <3>5
  <2> QED
    BY <2>2, <2>3
<1>10. ASSUME HealthRaises PROVE SettledSoFar'
  BY <1>1, <1>10 DEF HealthRaises, End, historyVars
<1>11. ASSUME DelayCancelled PROVE SettledSoFar'
  BY <1>1, <1>11 DEF DelayCancelled, End, historyVars
<1>12. ASSUME DelayEnds PROVE SettledSoFar'
  <2>1. /\ UNCHANGED <<groupVars, failures>> /\ pc = "delay" /\ index < N
        /\ seen'[index] = seen[index] \cup {"slept"}
        /\ \A i \in Positions : i # index => seen'[i] = seen[i]
    BY <1>12 DEF DelayEnds, Note, RowsFollow
  <2>2. ASSUME NEW i \in Positions, i = index PROVE Settled(i)'
    <3>1. Gated(i)' = Gated(i)
      BY <2>1, Snapshot DEF Gated
    <3>2. Gated(i) => seen'[i] \cap {"healthy", "none"} # {}
      BY <2>1, <2>2
    <3>3. "slept" \in seen'[i]
      BY <2>1, <2>2
    <3> QED
      BY <3>1, <3>2, <3>3 DEF Settled
  <2> QED
    BY <1>2, <1>12, <2>1, <2>2 DEF DelayEnds, Advance
<1>13. ASSUME RequestCancel PROVE SettledSoFar'
  BY <1>1, <1>13 DEF RequestCancel, runVars, historyVars
<1>14. ASSUME NEW c \in Containers, HealthChanges(c) PROVE SettledSoFar'
  BY <1>1, <1>14 DEF HealthChanges, runVars, historyVars
<1>15. CASE UNCHANGED vars
  BY <1>1, <1>15 DEF vars, runVars, historyVars
<1> QED
  BY <1>3, <1>4, <1>5, <1>6, <1>7, <1>8, <1>9, <1>10, <1>11, <1>12, <1>13, <1>14, <1>15,
     StepIsAction DEF Thread

-----------------------------------------------------------------------------
(* The theorems *)

LEMMA Inductive == Spec => []IInv
<1>1. Init => IInv
  <2>1. Init => InGroupOrder
    BY DEF Init, InGroupOrder
  <2> QED
    BY <2>1, InitTyped, InitRows, InitOutcome, InitLate, InitSettled DEF IInv
<1>2. IInv /\ [Next]_vars => IInv'
  BY StepTyped, StepInGroupOrder, StepRows, StepOutcome, StepLate, StepSettled DEF IInv
<1> QED
  BY <1>1, <1>2, PTL DEF Spec

\* Whatever the length of the group and its delays, the run's variables stay
\* within their types: the loop of _execute_group_steps never leaves the group.
THEOREM GroupTypeCorrect == Spec => []TypeOK
<1>1. IInv => TypeOK
  BY DEF IInv, Typed
<1> QED
  BY <1>1, Inductive, PTL

\* A group of any length starts and restarts in its order and stops in the
\* reverse one, through failures, health waits, delays and cancellation.
THEOREM ActsInGroupOrder == Spec => []InGroupOrder
<1>1. IInv => InGroupOrder
  BY DEF IInv
<1> QED
  BY <1>1, Inductive, PTL

\* No container is acted on before the one before it is settled as the group
\* asks: found healthy or without a healthcheck, and its delay slept.
THEOREM EachSettledBeforeNext == Spec => []SettledBeforeNext
<1>1. IInv => SettledBeforeNext
  <2> SUFFICES ASSUME IInv, NEW i \in 1 .. Len(acted) - 1
               PROVE  Settled(i)
    BY DEF SettledBeforeNext, Settled, Gated
  <2>1. i \in 1 .. index - 1
    BY Lengths DEF IInv, Typed, TypeOK, RowsFollow
  <2> QED
    BY <2>1 DEF IInv, SettledSoFar
<1> QED
  BY <1>1, Inductive, PTL

\* After a cancel request at most one more container is acted on, however long
\* the group is and wherever the request finds the thread.
THEOREM CancelIsPrompt == Spec => []CancelStopsWithinOne
<1>1. IInv => CancelStopsWithinOne
  BY DEF IInv, LateFollows, CancelStopsWithinOne
<1> QED
  BY <1>1, Inductive, PTL

\* The step rows of a run that is over agree with the status of the run.
THEOREM StepsAgreeWithOutcome == Spec => []StepsExplainOutcome
<1>1. IInv => StepsExplainOutcome
  <2> SUFFICES ASSUME IInv, outcome # "running" PROVE StepsExplainOutcome
    BY DEF StepsExplainOutcome
  <2> USE Lengths DEF IInv, Typed, TypeOK, RowsFollow, OutcomeFollows
  <2>1. pc = "done" /\ \A i \in Positions : steps[i] # "running"
    OBVIOUS
  <2>2. outcome = "success" => \A i \in Positions : steps[i] = "success"
    BY <2>1
  <2>3. ASSUME \A i \in Positions : steps[i] = "success" PROVE outcome = "success"
    <3>1. Len(acted) = N
      BY <2>3
    <3>2. failures = {}
      BY <2>1, <2>3
    <3> QED
      BY <3>1, <3>2
  <2>4. errorPolicy = "stop" /\ failures # {} => failures = {Len(acted)}
    OBVIOUS
  <2>5. outcome = "cancelled" => cancelRequested /\ Len(acted) < N
    OBVIOUS
  <2> QED
    BY <2>1, <2>2, <2>3, <2>4, <2>5 DEF StepsExplainOutcome
<1> QED
  BY <1>1, Inductive, PTL

\* A run leaves containers of its group alone for three reasons only: it was
\* cancelled, its policy is 'stop' and the last action failed, or a health wait
\* failed when no action had.
THEOREM LeavesForCause == Spec => []LeftForCause
<1>1. IInv => LeftForCause
  <2> SUFFICES ASSUME IInv, outcome # "running", Len(acted) < N, outcome # "cancelled"
               PROVE  /\ outcome = "failed"
                      /\ \/ errorPolicy = "stop" /\ failures = {Len(acted)}
                         \/ WaitsForHealth /\ failures = {} /\ acted # << >> /\ seen[Len(acted)] = {}
    BY DEF LeftForCause
  <2>1. outcome = "failed"
    BY Lengths DEF IInv, Typed, TypeOK, OutcomeFollows
  <2>2. CASE failures = {}
    BY <2>1, <2>2 DEF IInv, OutcomeFollows
  <2>3. CASE failures # {}
    BY <2>1, <2>3 DEF IInv, OutcomeFollows
  <2> QED
    BY <2>1, <2>2, <2>3
<1> QED
  BY <1>1, Inductive, PTL

-----------------------------------------------------------------------------
(* The run as ActionEngine has it *)

LEMMA OrderDiffers ==
  ASSUME NEW i \in Positions, NEW j \in Positions, i # j
  PROVE  Order[i] # Order[j]
<1>1. N + 1 - i \in Positions /\ N + 1 - j \in Positions /\ N + 1 - i # N + 1 - j
  BY Lengths
<1> QED
  BY <1>1, OrderIs, ItemsAssumption, Lengths DEF N

LEMMA OrderHasAll == Containers = {Order[i] : i \in Positions}
<1>1. ASSUME NEW c \in Containers PROVE \E i \in Positions : c = Order[i]
  <2>1. PICK j \in Positions : c = Items[j]
    BY DEF Containers
  <2>2. N + 1 - j \in Positions /\ N + 1 - (N + 1 - j) = j
    BY Lengths
  <2> QED
    BY <2>1, <2>2, OrderIs
<1> QED
  BY <1>1, OrderIs

\* The containers acted on are the first ones in the order of the action.
LEMMA ActedIs ==
  ASSUME IInv
  PROVE  \A k \in 1 .. Len(acted) : k \in Positions /\ acted[k] = Order[k]
BY OrderIs, Lengths DEF IInv, Typed, TypeOK, InGroupOrder

\* While the loop is at a container, those begun are the ones up to it.
LEMMA BegunSoFar ==
  ASSUME IInv, pc \in {"acting", "settle", "health"}
  PROVE  /\ Begun = {Order[i] : i \in 1 .. index}
         /\ Begun = Containers <=> index = N
<1>1. index \in Positions /\ Len(acted) = index /\ pc # "insert"
  BY DEF IInv, Typed, TypeOK, RowsFollow
<1>2. Begun = {Order[i] : i \in 1 .. index}
  BY <1>1, ActedIs DEF Begun
<1>3. index = N => Begun = Containers
  BY <1>2, OrderHasAll, Lengths
<1>4. ASSUME index < N PROVE Order[N] \in Containers /\ Order[N] \notin Begun
  <2>1. N \in Positions /\ \A i \in 1 .. index : i \in Positions /\ i # N
    BY <1>1, <1>4, Lengths
  <2> QED
    BY <1>2, <2>1, OrderDiffers, OrderIs
<1> QED
  BY <1>1, <1>2, <1>3, <1>4, Lengths

LEMMA OneRun == Engine!Runs = {1} /\ 1 \in Engine!Runs
BY DEF Engine!Runs

\* What ActionEngine takes from FiniteSets is what this module takes.
LEMMA SameCardinality == \A S : Engine!Cardinality(S) = Cardinality(S)
BY DEF Engine!Cardinality, Cardinality

\* The row of the group's run stands for all its containers.
LEMMA RowsStand ==
  Engine!Step => Engine!Next
<1> SUFFICES ASSUME Engine!Step PROVE Engine!Next
  OBVIOUS
<1>1. Engine!TargetRefs(Group)' = Containers /\ Engine!Target(Group)' = Group
  BY GroupAssumption DEF Engine!TargetRefs, Engine!Target
<1>2. Engine!Newer(1)' = {}
  BY OneRun DEF Engine!Newer, Engine!Rows
<1>3. Engine!Listed(1)'
  <2>1. Engine!Cardinality(Engine!Newer(1)') = 0
    BY <1>2, FS_EmptySet, SameCardinality
  <2> QED
    BY <2>1 DEF Engine!Listed
<1>4. \A r \in Engine!Runs : Engine!Described(r)'
  BY <1>1, <1>3, OneRun DEF Engine!Described, Engine!ContainersOf, TheRun
<1> QED
  BY <1>4 DEF Engine!Next

LEMMA TakesStep == Engine!RunStep(1) \/ Engine!CancelRun(1) => Engine!Next
BY RowsStand, OneRun DEF Engine!Step

\* What the loop does without the run of ActionEngine noticing.
LEMMA Unnoticed ==
  ASSUME UNCHANGED <<Place, Begun, Failed, Result, cancelRequested>>
  PROVE  UNCHANGED Engine!vars
BY DEF Engine!vars, Engine!core, Engine!configVars, Engine!rowVars, Engine!goalVars,
  Engine!searchVars, Engine!waitVars, Engine!workVars, TheRun

LEMMA Begins ==
  ASSUME Place = "step", Place' = "acting", ~ cancelRequested, UNCHANGED <<Failed, Result, cancelRequested>>,
         NEW c \in Containers \ Begun, Begun' = Begun \cup {c}
  PROVE  Engine!Next
<1>1. Engine!BeginStep(1, c)
  BY DEF Engine!BeginStep, Engine!CancelSeen, Engine!Goto, Engine!configVars, Engine!rowVars,
    Engine!goalVars, Engine!searchVars, Engine!waitVars, TheRun
<1> QED
  BY <1>1, TakesStep DEF Engine!RunStep

LEMMA Ends ==
  ASSUME Place = "acting", UNCHANGED <<Begun, cancelRequested>>, NEW failed \in BOOLEAN,
         Failed' = (Failed \/ failed),
         IF Begun # Containers
           THEN Place' = "step" /\ Result' = Result
           ELSE Place' = "finish" /\ Result' = IF Failed' THEN "failed" ELSE "success"
  PROVE  Engine!Next
<1>1. Engine!EndStep(1, failed)
  BY DEF Engine!EndStep, Engine!Goto, Engine!configVars, Engine!rowVars,
    Engine!goalVars, Engine!searchVars, Engine!waitVars, TheRun
<1> QED
  BY <1>1, TakesStep DEF Engine!RunStep

LEMMA Fails ==
  ASSUME Place = "acting", Place' = "finish", Result' = "failed",
         UNCHANGED <<Begun, Failed, cancelRequested>>
  PROVE  Engine!Next
<1>1. Engine!StepFails(1)
  BY DEF Engine!StepFails, Engine!EndWith, Engine!Goto, Engine!configVars, Engine!rowVars,
    Engine!goalVars, Engine!searchVars, Engine!waitVars, TheRun
<1> QED
  BY <1>1, TakesStep DEF Engine!RunStep

LEMMA Stops ==
  ASSUME Place = "step", Place' = "finish", Result' = "cancelled", cancelRequested,
         UNCHANGED <<Begun, Failed, cancelRequested>>
  PROVE  Engine!Next
<1>1. Containers # {}
  <2>1. 1 \in Positions
    BY Lengths
  <2> QED
    BY <2>1 DEF Containers
<1>2. Engine!StopForCancel(1)
  BY <1>1 DEF Engine!StopForCancel, Engine!CancelSeen, Engine!EndWith, Engine!Goto, Engine!configVars,
    Engine!rowVars, Engine!goalVars, Engine!searchVars, Engine!waitVars, TheRun
<1> QED
  BY <1>2, TakesStep DEF Engine!RunStep

LEMMA IsCancelled ==
  ASSUME ~ cancelRequested, cancelRequested', UNCHANGED <<Place, Begun, Failed, Result>>
  PROVE  Engine!Next
<1>1. Engine!CancelRun(1)
  BY DEF Engine!CancelRun, Engine!configVars, Engine!threadVars,
    Engine!goalVars, Engine!searchVars, Engine!waitVars, Engine!workVars, TheRun
<1> QED
  BY <1>1, TakesStep

LEMMA LoopImplements ==
  ASSUME IInv, IInv', [Next]_vars
  PROVE  [Engine!Next]_(Engine!vars)
<1> USE DEF groupVars, runVars, historyVars, End, Advance, Note
<1>0. /\ Typed /\ RowsFollow /\ OutcomeFollows /\ index \in Positions
      /\ Len(acted) \in Nat /\ index \in Nat /\ cancelRequested \in BOOLEAN
  BY Lengths DEF IInv, Typed, TypeOK
\* Of a run that is not over, nothing failed under 'stop'.
<1>a. pc # "done" => outcome = "running" /\ (errorPolicy = "stop" => failures = {})
  BY <1>0 DEF OutcomeFollows
<1>b. errorPolicy = "stop" <=> errorPolicy # "continue"
  BY <1>0 DEF Typed
<1>1. ASSUME CheckCancelled PROVE [Engine!Next]_(Engine!vars)
  <2>1. UNCHANGED <<groupVars, index, failures, cancelRequested, acted>> /\ pc = "check"
    BY <1>1 DEF CheckCancelled
  <2>2. CASE cancelRequested
    BY <1>1, <1>a, <2>1, <2>2, Stops DEF CheckCancelled, Place, Begun, Failed, Result
  <2>3. CASE ~ cancelRequested
    <3>1. pc' = "insert" /\ outcome' = outcome
      BY <1>1, <2>3 DEF CheckCancelled
    <3>2. Len(acted) = index - 1 /\ failures \subseteq 1 .. Len(acted)
      BY <1>0, <2>1 DEF RowsFollow
    <3>3. Order[index] \in Containers /\ Order[index] \notin Begun
      <4>1. \A k \in 1 .. Len(acted) : k # index /\ k \in Positions
        BY <1>0, <3>2, ActedIs
      <4> QED
        BY <1>0, <2>1, <4>1, ActedIs, OrderDiffers, OrderIs DEF Begun
    <3>4. Begun' = Begun \cup {Order[index]}
      BY <2>1, <3>1, Snapshot DEF Begun
    <3>5. Failed' = Failed
      BY <1>0, <2>1, <3>1, <3>2 DEF Failed, Place
    <3> QED
      BY <2>1, <2>3, <3>1, <3>3, <3>4, <3>5, Begins DEF Place, Result
  <2> QED
    BY <2>2, <2>3
<1>2. ASSUME CreateStep PROVE [Engine!Next]_(Engine!vars)
  <2>1. Begun' = Begun
    <3>1. acted' = Append(acted, Order[index]) /\ acted \in Seq(Containers) /\ pc = "insert" /\ pc' = "acting"
      BY <1>0, <1>2 DEF CreateStep, Typed
    <3>2. /\ Len(acted') = Len(acted) + 1 /\ acted'[Len(acted) + 1] = Order[index]
          /\ \A k \in 1 .. Len(acted) : acted'[k] = acted[k]
      BY <1>0, <3>1, OrderIs
    <3> QED
      BY <1>0, <3>1, <3>2 DEF Begun
  <2> QED
    BY <1>2, <2>1, Unnoticed DEF CreateStep, Place, Failed, Result
<1>3. ASSUME ActionSucceeds PROVE [Engine!Next]_(Engine!vars)
  BY <1>3, Unnoticed DEF ActionSucceeds, Place, Begun, Failed, Result
<1>4. ASSUME ActionFails PROVE [Engine!Next]_(Engine!vars)
  <2>1. index \notin failures /\ pc = "acting" /\ failures' = failures \cup {index}
        /\ UNCHANGED <<groupVars, acted, index, cancelRequested>>
    BY <1>0, <1>4 DEF ActionFails, RowsFollow
  <2>2. CASE errorPolicy = "continue"
    BY <1>4, <2>1, <2>2, Unnoticed DEF ActionFails, Place, Begun, Failed, Result
  <2>3. CASE errorPolicy # "continue"
    BY <1>4, <2>1, <2>3, Fails DEF ActionFails, Place, Begun, Failed, Result
  <2> QED
    BY <2>2, <2>3
<1>5. ASSUME Settle PROVE [Engine!Next]_(Engine!vars)
  <2>1. pc = "settle" /\ index < N /\ UNCHANGED <<groupVars, acted, failures, outcome, cancelRequested>>
    BY <1>5 DEF Settle
  <2>2. CASE pc' = "health"
    BY <1>5, <2>1, <2>2, Unnoticed DEF Settle, Place, Begun, Failed, Result
  <2>3. CASE pc' # "health"
    <3>1. pc' \in {"delay", "check"}
      BY <1>5, <2>3 DEF Settle
    <3>2. Begun # Containers
      BY <2>1, BegunSoFar, Lengths
    <3>3. Failed' = (Failed \/ (errorPolicy = "continue" /\ index \in failures))
      BY <2>1, <3>1 DEF Failed, Place
    <3>4. Place = "acting" /\ Place' = "step" /\ Begun' = Begun /\ Result' = Result
      BY <2>1, <3>1 DEF Place, Begun, Result
    <3> QED
      BY <2>1, <3>2, <3>3, <3>4, Ends
  <2> QED
    BY <2>2, <2>3
<1>6. ASSUME LastDone PROVE [Engine!Next]_(Engine!vars)
  <2>1. /\ pc = "settle" /\ pc' = "done" /\ index = N
        /\ UNCHANGED <<groupVars, acted, failures, cancelRequested>>
        /\ outcome' = IF failures = {} THEN "success" ELSE "failed"
    BY <1>6 DEF LastDone
  <2>2. Begun = Containers
    BY <2>1, BegunSoFar, Lengths
  <2>3. Failed' = (Failed \/ (errorPolicy = "continue" /\ index \in failures))
    BY <2>1 DEF Failed, Place
  <2>4. Failed' = (failures # {})
    BY <1>a, <1>b, <2>1 DEF Failed, Place
  <2>5. Place = "acting" /\ Place' = "finish" /\ Begun' = Begun
    BY <2>1 DEF Place, Begun
  <2>6. Result' = IF Failed' THEN "failed" ELSE "success"
    BY <2>1, <2>4 DEF Result
  <2> QED
    BY <2>1, <2>2, <2>3, <2>5, <2>6, Ends
<1>7. ASSUME HealthAnswers PROVE [Engine!Next]_(Engine!vars)
  <2>1. /\ pc = "health" /\ pc' \in {"delay", "check"} /\ failures = {}
        /\ UNCHANGED <<groupVars, acted, failures, outcome, cancelRequested>>
    BY <1>7 DEF HealthAnswers, IInv, SettledSoFar
  <2>2. Begun # Containers
    BY <1>0, <2>1, BegunSoFar, Lengths DEF RowsFollow
  <2>3. Failed' = (Failed \/ FALSE)
    BY <2>1 DEF Failed, Place
  <2>4. Place = "acting" /\ Place' = "step" /\ Begun' = Begun /\ Result' = Result
    BY <2>1 DEF Place, Begun, Result
  <2> QED
    BY <2>1, <2>2, <2>3, <2>4, Ends
<1>8. ASSUME HealthRaises PROVE [Engine!Next]_(Engine!vars)
  <2>1. failures = {}
    BY <1>8 DEF HealthRaises, IInv, SettledSoFar
  <2> QED
    BY <1>8, <2>1, Fails DEF HealthRaises, Place, Begun, Failed, Result
<1>9. ASSUME DelayCancelled PROVE [Engine!Next]_(Engine!vars)
  BY <1>9, Stops DEF DelayCancelled, Place, Begun, Failed, Result
<1>10. ASSUME DelayEnds PROVE [Engine!Next]_(Engine!vars)
  BY <1>10, Unnoticed DEF DelayEnds, Place, Begun, Failed, Result
<1>11. ASSUME RequestCancel PROVE [Engine!Next]_(Engine!vars)
  <2>1. UNCHANGED <<Place, Begun, Failed, Result>>
    BY <1>11, Snapshot DEF RequestCancel, Place, Begun, Failed, Result
  <2> QED
    BY <1>11, <2>1, IsCancelled DEF RequestCancel
<1>12. ASSUME NEW c \in Containers, HealthChanges(c) PROVE [Engine!Next]_(Engine!vars)
  BY <1>12, Snapshot, Unnoticed DEF HealthChanges, Place, Begun, Failed, Result
<1>13. CASE UNCHANGED vars
  BY <1>13, Snapshot, Unnoticed DEF vars, Place, Begun, Failed, Result
<1> QED
  BY <1>1, <1>2, <1>3, <1>4, <1>5, <1>6, <1>7, <1>8, <1>9, <1>10, <1>11, <1>12, <1>13,
     StepIsAction DEF Thread

\* _execute_group_steps is what ActionEngine takes the execution of a group to be:
\* for every group, error policy, delay and answer of Docker, its steps are those of
\* an admitted run, and its outcome the one that run records.
THEOREM LoopIsTheRun == Spec => ImplementsRun
<1>1. Init => Place = "step" /\ Begun = {} /\ ~ Failed /\ Result = "none"
  BY DEF Init, Place, Begun, Failed, Result
<1>2. IInv /\ IInv' /\ [Next]_vars => [Engine!Next]_(Engine!vars)
  BY LoopImplements
<1> QED
  BY <1>1, <1>2, Inductive, PTL DEF Spec, ImplementsRun

-----------------------------------------------------------------------------
(* Towards RunEnds *)

\* How many calls the thread has before it at most: six for each container.
CallsLeft ==
  6 * (N - index) +
    CASE pc = "check" -> 6 [] pc = "insert" -> 5 [] pc = "acting" -> 4 [] pc = "settle" -> 3
      [] pc = "health" -> 2 [] pc = "delay" -> 1 [] OTHER -> 0

LEMMA CallsCount ==
  ASSUME Typed, RowsFollow, Thread
  PROVE  CallsLeft' < CallsLeft
<1> USE Lengths DEF CallsLeft, Typed, TypeOK, RowsFollow, Advance, End
<1>1. CASE CheckCancelled \/ CreateStep \/ ActionSucceeds \/ ActionFails
  BY <1>1 DEF CheckCancelled, CreateStep, ActionSucceeds, ActionFails
<1>2. CASE Settle \/ LastDone
  BY <1>2 DEF Settle, LastDone
<1>3. CASE HealthAnswers \/ HealthRaises \/ DelayCancelled \/ DelayEnds
  BY <1>3 DEF HealthAnswers, HealthRaises, DelayCancelled, DelayEnds
<1> QED
  BY <1>1, <1>2, <1>3 DEF Thread

\* A group run is over after six calls for each of its containers at most: every
\* step of the thread brings it closer to its end, whatever Docker and the
\* healthchecks answer, and nothing anybody else does takes it back.
THEOREM CallsAreBounded ==
  Spec => /\ [](CallsLeft \in 0 .. 6 * N)
          /\ [][IF Thread THEN CallsLeft' < CallsLeft ELSE CallsLeft' = CallsLeft]_vars
<1>1. IInv => CallsLeft \in 0 .. 6 * N
  BY Lengths DEF CallsLeft, IInv, Typed, TypeOK
<1>2. IInv /\ [Next]_vars
        => [IF Thread THEN CallsLeft' < CallsLeft ELSE CallsLeft' = CallsLeft]_vars
  <2>1. ASSUME IInv, Thread PROVE CallsLeft' < CallsLeft
    BY <2>1, CallsCount DEF IInv
  <2>2. ASSUME RequestCancel \/ (\E c \in Containers : HealthChanges(c)) PROVE CallsLeft' = CallsLeft
    BY <2>2 DEF RequestCancel, HealthChanges, runVars, CallsLeft
  <2> QED
    BY <2>1, <2>2, StepIsAction
<1> QED
  BY <1>1, <1>2, Inductive, PTL DEF Spec
=============================================================================
