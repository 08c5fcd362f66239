-------------------------- MODULE NasMonitorProofs --------------------------
(***************************************************************************)
(* Proofs of the safety of NasMonitor and of the deliveries it makes, for  *)
(* any groups, webhooks and numbers of attempts.                           *)
(***************************************************************************)
EXTENDS NasMonitor, FiniteSetTheorems, TLAPS

Acting == {"check", "notify", "send", "groups", "act", "record"}

\* TypeOK: the Boolean variables, the others, and the deliveries.
Flags ==
  /\ exists \in BOOLEAN /\ enabled \in BOOLEAN /\ recorded \in BOOLEAN /\ shown \in BOOLEAN
  /\ nas \in BOOLEAN /\ raising \in BOOLEAN /\ previous \in BOOLEAN /\ ready \in BOOLEAN
  /\ restored \in BOOLEAN

Places ==
  /\ pc \in Acting \cup {"idle", "previous"}
  /\ todo \subseteq Groups /\ attempt \in 1 .. MaxAttempts
  /\ disruptions \in 0 .. MaxDisruptions
  /\ served \subseteq Groups /\ failures \in [Groups -> 0 .. MaxAttempts]

Typed == Flags /\ Places

DeliveryInv == DeliveryTypeOK /\ EachIsTold

Settled(g) == g \in served \/ failures[g] = MaxAttempts

\* What the tick has tallied: nothing before it acts; while it acts, one failure for
\* each attempt that is over, and every group it concerns is still to come or settled.
Tallied ==
  /\ pc \notin {"act", "record"} => served = {} /\ failures = [g \in Groups |-> 0]
  /\ pc = "act" => \A g \in todo : failures[g] = IF First(g) THEN attempt - 1 ELSE 0
  /\ pc \in {"act", "record"} /\ ready # previous /\ exists /\ ~ restored =>
       \A g \in Concerned(CameOnline) : Settled(g) \/ (pc = "act" /\ g \in todo)

\* Nothing is being sent but in send_event.
SendsInSend == pc # "send" => NothingToSend

IInv == Typed /\ DeliveryInv /\ SendsInSend /\ PreviousIsCurrent /\ Tallied

-----------------------------------------------------------------------------
(* Deliveries *)

LEMMA NothingIsFine == NothingToSend => DeliveryInv
BY TriesAssumption DEF NothingToSend, DeliveryInv, DeliveryTypeOK, EachIsTold

LEMMA ForgetIsFine ==
  ASSUME Forget
  PROVE  DeliveryInv'
BY TriesAssumption DEF Forget, DeliveryInv, DeliveryTypeOK, EachIsTold

LEMMA AttemptIsFine ==
  ASSUME DeliveryInv, Attempt
  PROVE  DeliveryInv'
<1> USE TriesAssumption DEF DeliveryInv, DeliveryTypeOK, EachIsTold
<1>1. ASSUME NEW w \in toSend, toSend' = toSend \ {w}, tries' = 1, copies' = 0, listed' = listed,
             errors \subseteq errors', heard \subseteq heard', w \in errors' \cup heard',
             errors' \subseteq errors \cup {w}, heard' \subseteq heard \cup {w}
      PROVE  DeliveryInv'
  <2>1. listed' \ toSend' \subseteq heard' \cup errors'
    BY <1>1
  <2> QED
    BY <1>1, <2>1
<1>2. ASSUME NEW w \in toSend, Delivered(w) PROVE DeliveryInv'
  BY <1>1, <1>2 DEF Delivered, DoneWith
<1>3. ASSUME NEW w \in toSend, NEW received \in 0 .. 1, AttemptFails(w, received)
      PROVE  DeliveryInv'
  <2>1. CASE tries < MaxTries
    BY <1>3, <2>1 DEF AttemptFails
  <2>2. CASE ~ (tries < MaxTries)
    BY <1>1, <1>3, <2>2 DEF AttemptFails, DoneWith
  <2> QED
    BY <2>1, <2>2
<1> QED
  BY <1>2, <1>3 DEF Attempt

LEMMA StepDeliveries ==
  ASSUME DeliveryInv, Typed, SendsInSend, [Next]_vars
  PROVE  DeliveryInv'
<1>1. CASE UNCHANGED deliveryVars
  BY <1>1 DEF deliveryVars, DeliveryInv, DeliveryTypeOK, EachIsTold
<1>2. CASE Send
  BY <1>2, AttemptIsFine DEF Send
<1>3. CASE Sent \/ NotifyRaises \/ Restart
  BY <1>3, ForgetIsFine DEF Sent, NotifyRaises, Raises, Restart
<1>4. CASE Notify
  BY <1>4, TriesAssumption
     DEF Notify, ListWebhooks, SendsInSend, NothingToSend, DeliveryInv, DeliveryTypeOK, EachIsTold
<1> QED
  BY <1>1, <1>2, <1>3, <1>4
     DEF Next, Tick, StartTick, ReadPrevious, CheckStatus, ListGroups, GroupServed, GroupFailed, OneMoreFailure,
         AllSettled, Record, NasChanges, WebhookChanges, SetEnabled, DeleteProfile, CheckByHand,
         Import, vars

LEMMA StepSends ==
  ASSUME SendsInSend, [Next]_vars
  PROVE  SendsInSend'
<1>1. CASE UNCHANGED deliveryVars /\ (pc' = "send" \/ pc # "send")
  BY <1>1 DEF deliveryVars, SendsInSend, NothingToSend
<1>2. CASE pc' = "send"
  BY <1>2 DEF SendsInSend
<1>3. CASE Forget
  BY <1>3 DEF Forget, SendsInSend, NothingToSend
<1> QED
  BY <1>1, <1>2, <1>3
     DEF Next, Tick, StartTick, ReadPrevious, CheckStatus, Notify, Send, Sent, NotifyRaises, Raises,
         ListGroups, GroupServed, GroupFailed, OneMoreFailure, AllSettled, Record,
         NasChanges, WebhookChanges, SetEnabled,
         DeleteProfile, CheckByHand, Restart, Import, vars, tickVars

-----------------------------------------------------------------------------
(* The tick *)

LEMMA StepFlags ==
  ASSUME Flags, [Next]_vars
  PROVE  Flags'
<1> USE DEF Flags, Monitored, rowVars, outside, tickVars, historyVars
<1>1. CASE StartTick
  BY <1>1 DEF StartTick
<1>2. CASE ReadPrevious
  BY <1>2 DEF ReadPrevious
<1>3. CASE CheckStatus
  BY <1>3 DEF CheckStatus
<1>4. CASE Notify
  BY <1>4 DEF Notify
<1>5. CASE Send
  BY <1>5 DEF Send
<1>6. CASE Sent
  BY <1>6 DEF Sent
<1>7. CASE NotifyRaises
  BY <1>7 DEF NotifyRaises
<1>8. CASE ListGroups
  BY <1>8 DEF ListGroups
<1>9. CASE AllSettled
  BY <1>9 DEF AllSettled
<1>10. CASE Record
  BY <1>10 DEF Record
<1>11. CASE NasChanges \/ WebhookChanges
  BY <1>11 DEF NasChanges, WebhookChanges
<1>12. CASE SetEnabled
  BY <1>12 DEF SetEnabled
<1>13. CASE DeleteProfile
  BY <1>13 DEF DeleteProfile
<1>14. CASE CheckByHand
  BY <1>14 DEF CheckByHand
<1>15. CASE Restart
  BY <1>15 DEF Restart
<1>16. CASE Import
  BY <1>16 DEF Import
<1>17. ASSUME NEW g \in Groups, GroupServed(g) PROVE Flags'
  BY <1>17 DEF GroupServed
<1>18. ASSUME NEW g \in Groups, GroupFailed(g) PROVE Flags'
  BY <1>18 DEF GroupFailed, OneMoreFailure
<1>19. CASE UNCHANGED vars
  BY <1>19 DEF vars
<1> QED
  BY <1>1, <1>2, <1>3, <1>4, <1>5, <1>6, <1>7, <1>8, <1>9, <1>10, <1>11,
     <1>12, <1>13, <1>14, <1>15, <1>16, <1>17, <1>18, <1>19 DEF Next, Tick

LEMMA StepPlaces ==
  ASSUME Places, Tallied, [Next]_vars
  PROVE  Places'
<1> USE GroupAssumption, BoundAssumption DEF Places, Acting, tickVars, historyVars, tallyVars, ForgetTally
<1>1. CASE StartTick
  BY <1>1 DEF StartTick
<1>2. CASE ReadPrevious
  BY <1>2 DEF ReadPrevious
<1>3. CASE CheckStatus
  BY <1>3 DEF CheckStatus
<1>4. CASE Notify
  BY <1>4 DEF Notify
<1>5. CASE Send
  BY <1>5 DEF Send
<1>6. CASE Sent
  BY <1>6 DEF Sent
<1>7. CASE NotifyRaises
  BY <1>7 DEF NotifyRaises
<1>8. CASE ListGroups
  <2>1. todo' \subseteq Groups
    BY <1>8 DEF ListGroups
  <2>2. attempt' = 1 /\ pc' = "act" /\ UNCHANGED <<disruptions, served, failures>>
    BY <1>8 DEF ListGroups
  <2> QED
    BY <2>1, <2>2
<1>9. CASE AllSettled
  BY <1>9 DEF AllSettled
<1>10. CASE Record
  BY <1>10 DEF Record
<1>11. CASE NasChanges \/ WebhookChanges
  BY <1>11 DEF NasChanges, WebhookChanges
<1>12. CASE SetEnabled
  BY <1>12 DEF SetEnabled
<1>13. CASE DeleteProfile
  BY <1>13 DEF DeleteProfile
<1>14. CASE CheckByHand
  BY <1>14 DEF CheckByHand
<1>15. CASE Restart
  BY <1>15 DEF Restart
<1>16. CASE Import
  BY <1>16 DEF Import
<1>17. ASSUME NEW g \in Groups, GroupServed(g) PROVE Places'
  BY <1>17 DEF GroupServed
<1>18. ASSUME NEW g \in Groups, GroupFailed(g) PROVE Places'
  <2>1. todo' \subseteq Groups /\ attempt' \in 1 .. MaxAttempts
    <3>1. \/ attempt < MaxAttempts /\ attempt' = attempt + 1 /\ todo' = todo
          \/ attempt' = 1 /\ todo' = todo \ {g}
      BY <1>18 DEF GroupFailed
    <3>2. attempt' \in 1 .. MaxAttempts
      BY <3>1
    <3>3. todo' \subseteq Groups
      BY <3>1
    <3> QED
      BY <3>2, <3>3
  <2>2. pc' = pc /\ UNCHANGED <<disruptions, served>>
    BY <1>18 DEF GroupFailed, OneMoreFailure
  <2>3. failures[g] = attempt - 1 /\ failures' = [failures EXCEPT ![g] = @ + 1]
    BY <1>18 DEF GroupFailed, OneMoreFailure, First, Tallied
  <2>4. failures' \in [Groups -> 0 .. MaxAttempts]
    BY <2>3
  <2> QED
    BY <2>1, <2>2, <2>4
<1>19. CASE UNCHANGED vars
  BY <1>19 DEF vars
<1> QED
  BY <1>1, <1>2, <1>3, <1>4, <1>5, <1>6, <1>7, <1>8, <1>9, <1>10, <1>11,
     <1>12, <1>13, <1>14, <1>15, <1>16, <1>17, <1>18, <1>19 DEF Next, Tick

LEMMA StepCurrent ==
  ASSUME Typed, PreviousIsCurrent, [Next]_vars
  PROVE  PreviousIsCurrent'
<1> USE DEF Typed, Flags, PreviousIsCurrent, rowVars, outside, tickVars, historyVars
<1>1. CASE StartTick \/ ReadPrevious \/ CheckStatus
  <2>1. CASE StartTick
    BY <2>1 DEF StartTick
  <2>2. CASE ReadPrevious
    <3>1. previous' = (exists /\ recorded) /\ exists' = exists /\ recorded' = recorded
      BY <2>2 DEF ReadPrevious
    <3>2. exists' => previous' = recorded'
      BY <3>1
    <3> QED
      BY <3>2
  <2>3. CASE CheckStatus
    BY <2>3 DEF CheckStatus
  <2> QED
    BY <1>1, <2>1, <2>2, <2>3
<1>2. CASE Notify \/ Send \/ Sent \/ NotifyRaises
  BY <1>2 DEF Notify, Send, Sent, NotifyRaises
<1>3. CASE ListGroups \/ AllSettled \/ Record
  BY <1>3 DEF ListGroups, AllSettled, Record
<1>4. ASSUME NEW g \in Groups, GroupServed(g) \/ GroupFailed(g) PROVE PreviousIsCurrent'
  BY <1>4 DEF GroupServed, GroupFailed, OneMoreFailure
<1>5. CASE NasChanges \/ WebhookChanges \/ SetEnabled \/ DeleteProfile \/ CheckByHand
  BY <1>5 DEF NasChanges, WebhookChanges, SetEnabled, DeleteProfile, CheckByHand
<1>6. CASE Restart \/ Import
  BY <1>6 DEF Restart, Import
<1>7. CASE UNCHANGED vars
  BY <1>7 DEF vars
<1> QED
  BY <1>1, <1>2, <1>3, <1>4, <1>5, <1>6, <1>7 DEF Next, Tick

\* The first of the rest has not been tried before.
LEMMA FirstIsOne ==
  ASSUME todo \subseteq Groups, NEW g \in todo, NEW h \in todo, First(g), First(h)
  PROVE  g = h
BY GroupAssumption DEF First

LEMMA StepTallied ==
  ASSUME Typed, Tallied, [Next]_vars
  PROVE  Tallied'
<1> USE DEF rowVars, outside, tickVars, historyVars, tallyVars, ForgetTally
<1>0. /\ todo \subseteq Groups /\ attempt \in 1 .. MaxAttempts /\ MaxAttempts \in Nat \ {0}
      /\ failures \in [Groups -> 0 .. MaxAttempts]
  BY BoundAssumption DEF Typed, Places
\* Before it acts the tick has tallied nothing; what follows a record or a restart
\* starts afresh.
<1>1. ASSUME pc \notin {"act", "record"}, pc' \notin {"act", "record"}, UNCHANGED <<served, failures>>
      PROVE  Tallied'
  BY <1>1 DEF Tallied
<1>2. CASE StartTick \/ ReadPrevious \/ Notify \/ Sent \/ NotifyRaises
  BY <1>1, <1>2 DEF StartTick, ReadPrevious, Notify, Sent, NotifyRaises
<1>3. CASE CheckStatus
  <2>1. /\ pc = "check" /\ UNCHANGED <<served, failures>>
        /\ pc' = "notify" \/ (pc' = "record" /\ ready' = previous /\ previous' = previous)
    BY <1>3 DEF CheckStatus
  <2> QED
    BY <2>1 DEF Tallied
<1>4. CASE Send
  BY <1>4 DEF Send, Tallied, Settled, CameOnline, First
<1>5. CASE ListGroups
  <2>1. /\ pc = "groups" /\ pc' = "act" /\ attempt' = 1 /\ UNCHANGED <<exists, served, failures, ready, previous>>
        /\ exists => todo' = Concerned(CameOnline)
        /\ todo' \subseteq Groups
    BY <1>5, GroupAssumption DEF ListGroups, Concerned
  <2>2. failures' = [g \in Groups |-> 0]
    BY <2>1 DEF Tallied
  <2>3. CameOnline' = CameOnline
    BY <2>1 DEF CameOnline
  <2>4. \A g \in todo' : failures'[g] = 0
    BY <2>1, <2>2
  <2> QED
    BY <2>1, <2>3, <2>4 DEF Tallied
<1>6. CASE AllSettled
  BY <1>6 DEF AllSettled, Tallied, Settled, CameOnline
<1>7. CASE Record \/ Restart
  BY <1>7 DEF Record, Restart, Tallied
<1>8. ASSUME NEW g \in Groups, GroupServed(g) PROVE Tallied'
  <2>1. /\ pc = "act" /\ pc' = pc /\ First(g) /\ todo' = todo \ {g} /\ attempt' = 1
        /\ served' = served \cup {g} /\ failures' = [failures EXCEPT ![g] = 0]
        /\ UNCHANGED <<exists, ready, previous, restored>>
    BY <1>8 DEF GroupServed
  <2>2. \A h \in todo' : failures'[h] = 0
    <3> TAKE h \in todo'
    <3>1. h \in todo /\ h # g /\ ~ First(h)
      BY <1>0, <2>1, FirstIsOne DEF First
    <3>2. failures[h] = 0
      BY <2>1, <3>1 DEF Tallied
    <3> QED
      BY <1>0, <2>1, <3>1, <3>2
  <2>3. \A h \in Groups : Settled(h) => Settled(h)'
    BY <1>0, <2>1 DEF Settled
  <2>4. Settled(g)' /\ CameOnline' = CameOnline
    BY <2>1 DEF Settled, CameOnline
  <2>5. Concerned(CameOnline) \subseteq Groups
    BY GroupAssumption DEF Concerned
  <2> QED
    BY <2>1, <2>2, <2>3, <2>4, <2>5 DEF Tallied
<1>9. ASSUME NEW g \in Groups, GroupFailed(g) PROVE Tallied'
  <2>1. /\ pc = "act" /\ pc' = pc /\ First(g) /\ failures' = [failures EXCEPT ![g] = @ + 1]
        /\ UNCHANGED <<exists, ready, previous, restored, served>>
        /\ \/ attempt < MaxAttempts /\ attempt' = attempt + 1 /\ todo' = todo
           \/ attempt = MaxAttempts /\ attempt' = 1 /\ todo' = todo \ {g}
    BY <1>0, <1>9 DEF GroupFailed, OneMoreFailure
  <2>2. failures[g] = attempt - 1 /\ g \in todo
    BY <2>1 DEF Tallied, First
  <2>3. ASSUME NEW h \in todo, h # g PROVE failures'[h] = 0 /\ ~ First(h)
    <3>1. ~ First(h)
      BY <1>0, <2>1, <2>2, <2>3, FirstIsOne
    <3>2. failures[h] = 0
      BY <2>1, <3>1 DEF Tallied
    <3> QED
      BY <1>0, <2>1, <2>3, <3>1, <3>2
  <2>4. CameOnline' = CameOnline /\ Concerned(CameOnline) \subseteq Groups
    BY <2>1, GroupAssumption DEF CameOnline, Concerned
  <2>5. \A h \in Groups : h # g => (Settled(h) => Settled(h)')
    BY <1>0, <2>1 DEF Settled
  <2>6. failures'[g] = attempt
    BY <1>0, <2>1, <2>2
  <2>7. CASE attempt < MaxAttempts /\ attempt' = attempt + 1 /\ todo' = todo
    <3>1. \A h \in todo' : failures'[h] = IF First(h)' THEN attempt' - 1 ELSE 0
      <4> TAKE h \in todo'
      <4>1. First(h)' <=> First(h)
        BY <2>7 DEF First
      <4> QED
        BY <1>0, <2>1, <2>3, <2>6, <2>7, <4>1
    <3> QED
      BY <2>1, <2>2, <2>4, <2>5, <2>7, <3>1 DEF Tallied
  <2>8. CASE attempt = MaxAttempts /\ attempt' = 1 /\ todo' = todo \ {g}
    <3>1. \A h \in todo' : failures'[h] = 0
      BY <2>3, <2>8
    <3>2. Settled(g)'
      BY <2>6, <2>8 DEF Settled
    <3> QED
      BY <2>1, <2>4, <2>5, <2>8, <3>1, <3>2 DEF Tallied
  <2> QED
    BY <2>1, <2>7, <2>8
<1>10. CASE NasChanges \/ WebhookChanges \/ SetEnabled \/ DeleteProfile \/ CheckByHand \/ Import \/ UNCHANGED vars
  <2>1. /\ UNCHANGED <<pc, previous, ready, todo, attempt, served, failures>>
        /\ exists' /\ ~ restored' => exists /\ ~ restored
    BY <1>10 DEF NasChanges, WebhookChanges, SetEnabled, DeleteProfile, CheckByHand, Import, vars, Typed, Flags
  <2>2. /\ CameOnline' = CameOnline
        /\ \A g : First(g)' = First(g) /\ Settled(g)' = Settled(g)
    BY <2>1 DEF CameOnline, First, Settled
  <2> QED
    BY <2>1, <2>2 DEF Tallied
<1> QED
  BY <1>2, <1>3, <1>4, <1>5, <1>6, <1>7, <1>8, <1>9, <1>10 DEF Next, Tick

LEMMA Inductive == Spec => []IInv
<1>1. Init => IInv
  <2>1. Init => Typed
    <3>1. Init => Flags
      BY DEF Init, Flags
    <3>2. Init => Places
      BY GroupAssumption, BoundAssumption DEF Init, Places, Acting
    <3> QED
      BY <3>1, <3>2 DEF Typed
  <2>2. Init => DeliveryInv /\ SendsInSend
    BY NothingIsFine DEF Init, SendsInSend
  <2>3. Init => PreviousIsCurrent /\ Tallied
    BY DEF Init, PreviousIsCurrent, Tallied
  <2> QED
    BY <2>1, <2>2, <2>3 DEF IInv
<1>2. IInv /\ [Next]_vars => IInv'
  BY StepFlags, StepPlaces, StepDeliveries, StepSends, StepCurrent, StepTallied DEF IInv, Typed
<1> QED
  BY <1>1, <1>2, PTL DEF Spec

-----------------------------------------------------------------------------
(* The theorems *)

\* The tick's variables and the deliveries' keep their types, whatever the
\* profile, the groups and the webhooks.
THEOREM MonitorTypeCorrect == Spec => []TypeOK
<1>1. IInv => TypeOK
  BY DEF IInv, Typed, Flags, Places, Acting, DeliveryInv, TypeOK
<1> QED
  BY <1>1, Inductive, PTL

\* What a tick has read of last_automation_ready stays what is there while it
\* acts, unless a backup is imported.
THEOREM ReadStaysCurrent == Spec => []PreviousIsCurrent
<1>1. IInv => PreviousIsCurrent
  BY DEF IInv
<1> QED
  BY <1>1, Inductive, PTL

\* However many groups and attempts, a transition is recorded only after every
\* group it concerns has been served or has failed all the attempts it is given.
THEOREM RecordsWhatIsSettled == Spec => RecordedIsSettled
<1> DEFINE AllAreSettled == \A g \in Concerned(recorded') : g \in served \/ failures[g] = MaxAttempts
<1>1. ASSUME IInv, [Next]_vars, recorded' # recorded, ~ restored'
      PROVE  AllAreSettled
  <2>1. Record \/ Import
    BY <1>1 DEF Next, Tick, StartTick, ReadPrevious, CheckStatus, Notify, Send, Sent, NotifyRaises,
                ListGroups, GroupServed, GroupFailed, OneMoreFailure, AllSettled, NasChanges, WebhookChanges,
                SetEnabled, DeleteProfile, CheckByHand, Restart, vars, rowVars
  <2>2. Record
    BY <1>1, <2>1 DEF Import
  <2>3. pc = "record" /\ exists /\ recorded' = ready /\ ~ restored
    BY <1>1, <2>2 DEF Record, IInv, Typed, Flags
  <2>4. previous = recorded
    BY <1>1, <2>3 DEF IInv, PreviousIsCurrent
  <2>5. \A g \in Concerned(CameOnline) : Settled(g)
    BY <1>1, <2>3, <2>4 DEF IInv, Tallied
  <2>6. CameOnline = recorded'
    BY <1>1, <2>3, <2>4 DEF CameOnline, IInv, Typed, Flags
  <2> QED
    BY <2>5, <2>6 DEF Settled
<1>2. IInv /\ [Next]_vars => [recorded' # recorded /\ ~ restored' => AllAreSettled]_vars
  BY <1>1
<1> QED
  BY <1>2, Inductive, PTL DEF Spec, RecordedIsSettled

\* Whatever a webhook answers, it receives an event at most MaxTries times, and
\* none is done with that has neither received it nor is reported.
THEOREM EachWebhookIsTold == Spec => []EachIsTold
<1>1. IInv => EachIsTold
  BY DEF IInv, DeliveryInv
<1> QED
  BY <1>1, Inductive, PTL

-----------------------------------------------------------------------------
(* Towards ServedUnlessRaising: a tick ends *)

\* k attempts on each of S.
Attempts(S, k) == Cardinality(S) * k

\* At most so many attempts there are on the webhooks, and on the groups, ahead.
SendsLeft == IF toSend = {} THEN 0 ELSE Attempts(toSend, MaxTries) - (tries - 1)
ActsLeft == IF todo = {} THEN 0 ELSE Attempts(todo, MaxAttempts) - (attempt - 1)

AllSends == Attempts(Webhooks, MaxTries)
AllActs == Attempts(Groups, MaxAttempts)

\* How many steps the tick in progress has before it at most.
StepsLeft ==
  CASE pc = "record" -> 1
    [] pc = "act" -> ActsLeft + 2
    [] pc = "groups" -> AllActs + 3
    [] pc = "send" -> AllActs + SendsLeft + 4
    [] pc = "notify" -> AllActs + AllSends + 5
    [] pc = "check" -> AllActs + AllSends + 6
    [] pc = "previous" -> AllActs + AllSends + 7
    [] OTHER -> 0

\* The attempts of all: n elements with up to k attempts each.
LEMMA OneLessLeaves ==
  ASSUME NEW n \in Nat \ {0}, NEW k \in Nat \ {0}
  PROVE  n * k \in Nat /\ (n - 1) * k \in Nat /\ (n - 1) * k = n * k - k /\ n * k >= k
OBVIOUS

LEMMA MoreAttempts ==
  ASSUME NEW m \in Nat, NEW n \in Nat, m <= n, NEW k \in Nat
  PROVE  m * k \in Nat /\ n * k \in Nat /\ m * k <= n * k
<1> DEFINE d == n - m
<1>1. d \in Nat /\ n = m + d
  OBVIOUS
<1>2. m * k \in Nat /\ d * k \in Nat
  BY <1>1
<1> HIDE DEF d
<1>3. (m + d) * k = m * k + d * k
  BY <1>1
<1>4. n * k = m * k + d * k
  BY <1>1, <1>3
<1> QED
  BY <1>2, <1>4

LEMMA AttemptsOfOne ==
  ASSUME NEW T, IsFiniteSet(T), NEW k \in Nat \ {0}, NEW x \in T
  PROVE  /\ Attempts(T, k) \in Nat /\ Attempts(T, k) >= k
         /\ Attempts(T \ {x}, k) = Attempts(T, k) - k
<1>1. Cardinality(T) \in Nat /\ Cardinality(T) # 0
  BY FS_CardinalityType, FS_EmptySet
<1>2. Cardinality(T \ {x}) = Cardinality(T) - 1
  BY FS_RemoveElement
<1> QED
  BY <1>1, <1>2, OneLessLeaves DEF Attempts

LEMMA AttemptsAre ==
  ASSUME NEW S, IsFiniteSet(S), NEW T \in SUBSET S, NEW k \in Nat \ {0}
  PROVE  /\ Attempts(S, k) \in Nat
         /\ Attempts(T, k) \in 0 .. Attempts(S, k)
         /\ T # {} => Attempts(T, k) >= k
<1>1. IsFiniteSet(T) /\ Cardinality(T) <= Cardinality(S)
  BY FS_Subset
<1>2. Cardinality(T) \in Nat /\ Cardinality(S) \in Nat
  BY <1>1, FS_CardinalityType
<1>3. /\ Attempts(T, k) \in Nat /\ Attempts(S, k) \in Nat
      /\ Attempts(T, k) <= Attempts(S, k)
  BY <1>1, <1>2, MoreAttempts DEF Attempts
<1>4. ASSUME NEW x \in T PROVE Attempts(T, k) >= k
  BY <1>1, AttemptsOfOne
<1> QED
  BY <1>3, <1>4

\* What there is left never is more than all.
LEMMA LeftOf ==
  ASSUME NEW S, IsFiniteSet(S), NEW T \in SUBSET S, NEW k \in Nat \ {0}, NEW a \in 1 .. k
  PROVE  (IF T = {} THEN 0 ELSE Attempts(T, k) - (a - 1)) \in 0 .. Attempts(S, k)
<1>1. /\ Attempts(S, k) \in Nat
      /\ Attempts(T, k) \in 0 .. Attempts(S, k)
      /\ T # {} => Attempts(T, k) >= k
  BY AttemptsAre
<1> QED
  BY <1>1

LEMMA LeftIs ==
  ASSUME IInv
  PROVE  SendsLeft \in 0 .. AllSends /\ ActsLeft \in 0 .. AllActs
<1> USE WebhookAssumption, TriesAssumption, GroupAssumption, BoundAssumption
<1>1. /\ toSend \in SUBSET Webhooks /\ tries \in 1 .. MaxTries
      /\ todo \in SUBSET Groups /\ attempt \in 1 .. MaxAttempts
  BY DEF IInv, DeliveryInv, DeliveryTypeOK, Typed, Flags, Places
<1>2. SendsLeft \in 0 .. AllSends
  BY <1>1, LeftOf DEF SendsLeft, AllSends
<1>3. ActsLeft \in 0 .. AllActs
  BY <1>1, LeftOf DEF ActsLeft, AllActs
<1> QED
  BY <1>2, <1>3

LEMMA AllAre == AllSends \in Nat /\ AllActs \in Nat
BY FS_CardinalityType, WebhookAssumption, TriesAssumption, GroupAssumption, BoundAssumption
   DEF AllSends, AllActs, Attempts

LEMMA SendCounts ==
  ASSUME IInv, Attempt
  PROVE  SendsLeft' < SendsLeft
<1> USE WebhookAssumption, TriesAssumption
<1>1. PICK w \in toSend : Delivered(w) \/ \E received \in 0 .. 1 : AttemptFails(w, received)
  BY DEF Attempt
<1>2. toSend \in SUBSET Webhooks /\ tries \in 1 .. MaxTries
  BY DEF IInv, DeliveryInv, DeliveryTypeOK
<1>3. /\ Attempts(toSend, MaxTries) \in Nat
      /\ Attempts(toSend, MaxTries) >= MaxTries
      /\ Attempts(toSend \ {w}, MaxTries) = Attempts(toSend, MaxTries) - MaxTries
  <2>1. IsFiniteSet(toSend)
    BY <1>2, FS_Subset
  <2> QED
    BY <2>1, AttemptsOfOne
<1>4. CASE toSend' = toSend /\ tries' = tries + 1 /\ tries < MaxTries
  <2> DEFINE all == Attempts(toSend, MaxTries)
  <2>1. all \in Nat /\ SendsLeft = all - (tries - 1)
    BY <1>1, <1>3 DEF SendsLeft
  <2>2. SendsLeft' = all - tries
    BY <1>2, <1>1, <1>4 DEF SendsLeft
  <2> QED
    BY <1>2, <2>1, <2>2
<1>5. CASE toSend' = toSend \ {w} /\ tries' = 1
  BY <1>2, <1>3, <1>5 DEF SendsLeft
<1> QED
  BY <1>1, <1>4, <1>5 DEF Delivered, AttemptFails, DoneWith

LEMMA ActCounts ==
  ASSUME IInv, NEW g \in Groups, GroupServed(g) \/ GroupFailed(g)
  PROVE  ActsLeft' < ActsLeft
<1> USE GroupAssumption, BoundAssumption
<1>1. g \in todo /\ todo \in SUBSET Groups /\ attempt \in 1 .. MaxAttempts
  BY DEF IInv, Typed, Flags, Places, GroupServed, GroupFailed, First
<1>2. /\ Attempts(todo, MaxAttempts) \in Nat
      /\ Attempts(todo, MaxAttempts) >= MaxAttempts
      /\ Attempts(todo \ {g}, MaxAttempts) = Attempts(todo, MaxAttempts) - MaxAttempts
  <2>1. IsFiniteSet(todo)
    BY <1>1, FS_Subset
  <2> QED
    BY <1>1, <2>1, AttemptsOfOne
<1>3. CASE todo' = todo /\ attempt' = attempt + 1 /\ attempt < MaxAttempts
  <2> DEFINE all == Attempts(todo, MaxAttempts)
  <2>1. all \in Nat /\ ActsLeft = all - (attempt - 1)
    BY <1>1, <1>2 DEF ActsLeft
  <2>2. ActsLeft' = all - attempt
    BY <1>1, <1>1, <1>3 DEF ActsLeft
  <2> QED
    BY <1>1, <2>1, <2>2
<1>4. CASE todo' = todo \ {g} /\ attempt' = 1
  BY <1>1, <1>2, <1>4 DEF ActsLeft
<1> QED
  BY <1>3, <1>4 DEF GroupServed, GroupFailed

\* A step of a tick leaves less of it.
LEMMA TickCounts ==
  ASSUME IInv, IInv', Tick, pc # "idle"
  PROVE  StepsLeft' < StepsLeft
<1> USE AllAre DEF StepsLeft
<1>0. SendsLeft \in 0 .. AllSends /\ ActsLeft \in 0 .. AllActs
  BY LeftIs
<1>1. CASE ReadPrevious \/ CheckStatus \/ Sent
  BY <1>0, <1>1 DEF ReadPrevious, CheckStatus, Sent
<1>2. CASE Notify
  <2>1. SendsLeft' \in 0 .. AllSends
    <3>1. toSend' \in SUBSET Webhooks /\ tries' \in 1 .. MaxTries
      BY DEF IInv, DeliveryInv, DeliveryTypeOK
    <3> QED
      BY <3>1, LeftOf, WebhookAssumption, TriesAssumption DEF SendsLeft, AllSends
  <2> QED
    BY <1>2, <2>1 DEF Notify
<1>3. CASE Send
  <2>1. SendsLeft' < SendsLeft /\ UNCHANGED <<pc, todo, attempt>>
    BY <1>3, SendCounts DEF Send, tickVars
  <2>2. SendsLeft' \in 0 .. AllSends
    <3>1. toSend' \in SUBSET Webhooks /\ tries' \in 1 .. MaxTries
      BY DEF IInv, DeliveryInv, DeliveryTypeOK
    <3> QED
      BY <3>1, LeftOf, WebhookAssumption, TriesAssumption DEF SendsLeft, AllSends
  <2> QED
    BY <1>0, <1>3, <2>1, <2>2 DEF Send
<1>4. CASE ListGroups
  <2>1. ActsLeft' \in 0 .. AllActs
    <3>1. todo' \in SUBSET Groups /\ attempt' \in 1 .. MaxAttempts
      BY DEF IInv, Typed, Flags, Places
    <3> QED
      BY <3>1, LeftOf, GroupAssumption, BoundAssumption DEF ActsLeft, AllActs
  <2> QED
    BY <1>4, <2>1 DEF ListGroups
<1>5. CASE NotifyRaises \/ AllSettled \/ Record
  BY <1>0, <1>5 DEF NotifyRaises, AllSettled, Record
<1>6. ASSUME NEW g \in Groups, GroupServed(g) \/ GroupFailed(g) PROVE StepsLeft' < StepsLeft
  <2>1. ActsLeft' < ActsLeft
    BY <1>6, ActCounts
  <2>2. todo' \in SUBSET Groups /\ attempt' \in 1 .. MaxAttempts
    BY DEF IInv, Typed, Flags, Places
  <2>3. ActsLeft' \in 0 .. AllActs
    BY <2>2, LeftOf, GroupAssumption, BoundAssumption DEF ActsLeft, AllActs
  <2> QED
    BY <1>0, <1>6, <2>1, <2>3 DEF GroupServed, GroupFailed, OneMoreFailure
<1> QED
  BY <1>1, <1>2, <1>3, <1>4, <1>5, <1>6 DEF Tick, StartTick

\* A tick ends, whatever the NAS, the webhooks and the groups do: each of its steps
\* brings it closer to its end, a webhook costs it MaxTries attempts at most and a
\* group MaxAttempts, one that keeps failing holds up the others no longer than
\* that, and neither an edit nor an import gives it more to do.
THEOREM TicksAreBounded ==
  Spec => /\ [](StepsLeft \in 0 .. AllActs + AllSends + 7)
          /\ [][pc # "idle" => IF Tick THEN StepsLeft' < StepsLeft
                                       ELSE StepsLeft' \in {0, StepsLeft}]_vars
<1>1. IInv => StepsLeft \in 0 .. AllActs + AllSends + 7
  BY LeftIs, AllAre DEF StepsLeft
<1>2. IInv /\ IInv' /\ [Next]_vars
        => [pc # "idle" => IF Tick THEN StepsLeft' < StepsLeft ELSE StepsLeft' \in {0, StepsLeft}]_vars
  <2>1. ASSUME IInv, IInv', Tick, pc # "idle" PROVE StepsLeft' < StepsLeft
    BY <2>1, TickCounts
  <2>2. ASSUME NasChanges \/ WebhookChanges \/ SetEnabled \/ DeleteProfile \/ CheckByHand \/ Import
        PROVE  StepsLeft' = StepsLeft
    <3>1. UNCHANGED <<tickVars, deliveryVars>>
      BY <2>2 DEF NasChanges, WebhookChanges, SetEnabled, DeleteProfile, CheckByHand, Import
    <3> QED
      BY <3>1 DEF tickVars, deliveryVars, StepsLeft, SendsLeft, ActsLeft
  <2>3. ASSUME Restart PROVE StepsLeft' = 0
    BY <2>3 DEF Restart, StepsLeft
  <2> QED
    BY <2>1, <2>2, <2>3 DEF Next
<1> QED
  BY <1>1, <1>2, Inductive, PTL DEF Spec
=============================================================================
