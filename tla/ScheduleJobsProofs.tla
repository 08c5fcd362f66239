------------------------- MODULE ScheduleJobsProofs -------------------------
(***************************************************************************)
(* Proof that a reload no other request overlaps does what it should, for  *)
(* any number of schedules, profiles, threads and requests.                *)
(***************************************************************************)
EXTENDS ScheduleJobs, TLAPS

Places == {"idle", "toggle", "first", "reload", "remove", "legacy", "add"}

\* TypeOK: the rows and the jobs ...
RowTypes ==
  /\ table \in [Ids -> {None} \cup Rows] /\ legacy \in BOOLEAN
  /\ jobs \in [JobIds -> Times \cup {None}]

\* ... the requests ...
RequestTypes ==
  /\ pc \in [Workers -> Places]
  /\ toggling \in [Workers -> Toggles \cup {None}]
  /\ todo \in [Workers -> SUBSET Kinds] /\ kinds \in [Workers -> SUBSET Kinds]
  /\ alone \in [Workers -> SUBSET Kinds]
  /\ \A w \in Workers :
       /\ todo[w] \subseteq kinds[w] /\ alone[w] \subseteq kinds[w]
       /\ pc[w] = "idle" <=> todo[w] = {}
       /\ pc[w] = "idle" => kinds[w] = {}
       /\ pc[w] = "toggle" => "schedule" \in kinds[w] /\ toggling[w] \in Toggles
       /\ pc[w] = "first" => "nas" \in kinds[w]
       /\ pc[w] \in {"toggle", "first"} => todo[w] = kinds[w]
       /\ pc[w] = "legacy" => Reloading(w) = "nas"
  /\ requests \in 0 .. MaxRequests /\ trusted \subseteq Kinds

\* ... and what a reload has in hand, which is of its own kind.
InHand ==
  /\ removing \in [Workers -> SUBSET [id : JobIds, time : Times]]
  /\ adding \in [Workers -> SUBSET [id : JobIds, time : Times]]
  /\ \A w \in Workers :
       /\ \A j \in removing[w] : KindOf(j.id) = Reloading(w) /\ pc[w] = "remove"
       /\ \A r \in adding[w] : KindOf(r.id) = Reloading(w) /\ pc[w] \in {"legacy", "add"}

Typed == RowTypes /\ RequestTypes /\ InHand

\* Nobody else is busy with the kind of a request that counts as alone.
AloneIsAlone ==
  \A v, w \in Workers : v # w => alone[v] \cap kinds[w] = {}

Want(i) == JobsFor(table, legacy)[i]
OfKind(k) == {i \in JobIds : KindOf(i) = k}

\* How far a lone reload of the kind k has come.
Halfway(w, k) ==
  /\ pc[w] = "remove" => removing[w] = {[time |-> jobs[i], id |-> i] : i \in Scheduled(k)}
  /\ pc[w] = "legacy" => NoProfileIn(table) /\ adding[w] = {} /\ \A i \in OfKind(k) : jobs[i] = None
  /\ pc[w] = "add" =>
       /\ \A i \in OfKind(k) : jobs[i] = Want(i) \/ (jobs[i] = None /\ [id |-> i, time |-> Want(i)] \in adding[w])
       /\ \A r \in adding[w] : r.time = Want(r.id)

\* The reload in progress of a lone request is so far right, and the one before it
\* has left the jobs as they should be.
LoneSoFar ==
  \A w \in Workers : \A k \in alone[w] :
    /\ k = Reloading(w) /\ todo[w] # {} => Halfway(w, k)
    /\ k \notin todo[w] => \A i \in OfKind(k) : jobs[i] = Want(i)

TrustedMatch ==
  \A k \in trusted : (\A w \in Workers : k \notin kinds[w]) => \A i \in OfKind(k) : jobs[i] = Want(i)

IInv == Typed /\ AloneIsAlone /\ LoneSoFar /\ TrustedMatch

-----------------------------------------------------------------------------
(* Kinds *)

LEMMA KindsAre ==
  /\ \A i \in JobIds : KindOf(i) \in Kinds
  /\ \A i \in Ids : i \in JobIds
  /\ \A i \in Schedules : KindOf(i) = "schedule"
  /\ \A p \in Profiles : p \in Ids /\ KindOf(p) = "nas"
  /\ KindOf(LegacyId) = "nas" /\ LegacyId \in JobIds /\ LegacyId \notin Ids
  /\ \A i \in JobIds : i \in Ids \/ i = LegacyId
  /\ \A i \in Ids : i \in Schedules \/ i \in Profiles
BY IdAssumption DEF KindOf, Kinds, Ids, JobIds

LEMMA ReloadingIs ==
  ASSUME RequestTypes, NEW w \in Workers
  PROVE  Reloading(w) \in Kinds /\ (todo[w] # {} => Reloading(w) \in todo[w] /\ Reloading(w) \in kinds[w])
BY DEF RequestTypes, Reloading, Kinds

LEMMA WantIs ==
  ASSUME NEW i \in JobIds
  PROVE  Want(i) = IF i \in Ids
                     THEN IF table[i] # None /\ table[i].enabled THEN table[i].time ELSE None
                     ELSE IF legacy /\ NoProfileIn(table) THEN LegacyTime ELSE None
BY DEF Want, JobsFor, EnabledIn

\* What a kind consists of stays.
Frame(k) ==
  /\ \A i \in OfKind(k) : jobs'[i] = jobs[i]
  /\ \A i \in Ids : KindOf(i) = k => table'[i] = table[i]
  /\ k = "nas" => legacy' = legacy

LEMMA FrameKeeps ==
  ASSUME NEW k \in Kinds, Frame(k)
  PROVE  /\ \A i \in OfKind(k) : jobs'[i] = jobs[i] /\ Want(i)' = Want(i)
         /\ k = "nas" => (NoProfileIn(table)' <=> NoProfileIn(table))
<1>1. k = "nas" => (NoProfileIn(table)' <=> NoProfileIn(table))
  BY KindsAre DEF Frame, NoProfileIn
<1>2. ASSUME NEW i \in OfKind(k) PROVE Want(i)' = Want(i)
  <2>1. i \in JobIds /\ KindOf(i) = k
    BY <1>2 DEF OfKind
  <2>2. Want(i)' = IF i \in Ids
                     THEN IF table'[i] # None /\ table'[i].enabled THEN table'[i].time ELSE None
                     ELSE IF legacy' /\ NoProfileIn(table') THEN LegacyTime ELSE None
    BY <2>1 DEF Want, JobsFor, EnabledIn
  <2>3. CASE i \in Ids
    BY <2>1, <2>2, <2>3, WantIs DEF Frame
  <2>4. CASE i \notin Ids
    <3>1. k = "nas"
      BY <2>1, <2>4, KindsAre
    <3> QED
      BY <1>1, <2>1, <2>2, <2>4, <3>1, WantIs DEF Frame
  <2> QED
    BY <2>3, <2>4
<1> QED
  BY <1>1, <1>2 DEF Frame

-----------------------------------------------------------------------------
(* The requests *)

\* The reloads each request asks for, and where it begins.
Asked(w, place, reloads) ==
  /\ Begin(w, place, reloads)
  /\ w \in Workers /\ reloads \in SUBSET Kinds /\ reloads # {}
  /\ place \in {"reload", "toggle", "first"}
  /\ toggling' \in [Workers -> Toggles \cup {None}]
  /\ \A v \in Workers : v # w => toggling'[v] = toggling[v]
  /\ place = "toggle" => "schedule" \in reloads /\ toggling'[w] \in Toggles
  /\ place = "first" => "nas" \in reloads
  /\ \A k \in Kinds \ reloads : Frame(k)
  /\ RowTypes'

LEMMA RequestIsAsked ==
  ASSUME RowTypes, RequestTypes,
         \/ \E i \in Ids, row \in Rows : SaveRow(i, row)
         \/ Import
         \/ \E enabled \in BOOLEAN : SaveSettings(enabled)
         \/ \E w \in Pool, s \in Schedules : ReadToggle(w, s)
         \/ \E w \in Pool, gone \in SUBSET Schedules : DeleteRows(w, "schedule", gone)
         \/ \E w \in Pool, p \in Profiles : DeleteRows(w, "nas", {p})
  PROVE  \E w \in Workers, place \in Places, reloads \in SUBSET Kinds : Asked(w, place, reloads)
<1> USE KindsAre DEF RowTypes
<1>0. Loop \in Workers /\ (\A w \in Pool : w \in Workers) /\ Kinds = {"schedule", "nas"}
  BY DEF Workers, Kinds
<1>1. ASSUME NEW i \in Ids, NEW row \in Rows, SaveRow(i, row)
      PROVE  Asked(Loop, "reload", {KindOf(i)})
  <2>1. \A k \in Kinds \ {KindOf(i)} : Frame(k)
    BY <1>1 DEF SaveRow, Begin, Frame
  <2>2. RowTypes'
    BY <1>1 DEF SaveRow, Begin
  <2> QED
    BY <1>0, <1>1, <2>1, <2>2 DEF SaveRow, Asked, RequestTypes
<1>2. CASE Import
  <2>1. Asked(Loop, "reload", Kinds)
    BY <1>0, <1>2 DEF Import, Asked, RequestTypes, Begin
  <2> QED
    BY <1>0, <2>1 DEF Places
<1>3. ASSUME NEW enabled \in BOOLEAN, SaveSettings(enabled)
      PROVE  Asked(Loop, "first", {"nas"})
  <2>1. \A k \in Kinds \ {"nas"} : Frame(k)
    BY <1>3 DEF SaveSettings, Begin, Frame
  <2>2. RowTypes'
    BY <1>3 DEF SaveSettings, Begin
  <2> QED
    BY <1>0, <1>3, <2>1, <2>2 DEF SaveSettings, Asked, RequestTypes
<1>4. ASSUME NEW w \in Pool, NEW s \in Schedules, ReadToggle(w, s)
      PROVE  Asked(w, "toggle", {"schedule"})
  <2>1. \A k \in Kinds \ {"schedule"} : Frame(k)
    BY <1>4 DEF ReadToggle, Begin, Frame, tableVars
  <2>2. RowTypes'
    BY <1>4 DEF ReadToggle, Begin, tableVars
  <2>3. [id |-> s, enabled |-> ~ table[s].enabled] \in Toggles
    BY DEF Toggles
  <2>4. toggling' = [toggling EXCEPT ![w] = [id |-> s, enabled |-> ~ table[s].enabled]]
    BY <1>4 DEF ReadToggle
  <2> QED
    BY <1>0, <1>4, <2>1, <2>2, <2>3, <2>4 DEF ReadToggle, Asked, RequestTypes
<1>5. ASSUME NEW w \in Pool, NEW k \in Kinds, NEW gone, DeleteRows(w, k, gone),
             \A i \in gone : i \in Ids /\ KindOf(i) = k
      PROVE  Asked(w, "reload", {k})
  <2>1. \A l \in Kinds \ {k} : Frame(l)
    BY <1>5 DEF DeleteRows, Begin, Frame
  <2>2. RowTypes'
    BY <1>5 DEF DeleteRows, Begin
  <2> QED
    BY <1>0, <1>5, <2>1, <2>2 DEF DeleteRows, Asked, RequestTypes
<1>6. ASSUME NEW w \in Pool, NEW gone \in SUBSET Schedules, DeleteRows(w, "schedule", gone)
      PROVE  Asked(w, "reload", {"schedule"})
  BY <1>0, <1>5, <1>6 DEF Ids
<1>7. ASSUME NEW w \in Pool, NEW p \in Profiles, DeleteRows(w, "nas", {p})
      PROVE  Asked(w, "reload", {"nas"})
  BY <1>0, <1>5, <1>7
<1>8. \A k \in Kinds : {k} \in SUBSET Kinds
  OBVIOUS
<1> QED
  BY <1>0, <1>1, <1>2, <1>3, <1>4, <1>6, <1>7, <1>8 DEF Places

\* The requests of the others go on as they were.
Others(w) ==
  \A v \in Workers : v # w =>
    /\ pc'[v] = pc[v] /\ todo'[v] = todo[v] /\ kinds'[v] = kinds[v]
    /\ toggling'[v] = toggling[v] /\ removing'[v] = removing[v] /\ adding'[v] = adding[v]

LEMMA OthersGoOn ==
  ASSUME NEW v \in Workers, NEW k \in Kinds, Frame(k), Typed, Halfway(v, k),
         pc'[v] = pc[v], removing'[v] = removing[v], adding'[v] = adding[v],
         Reloading(v) = k
  PROVE  Halfway(v, k)'
<1>1. /\ \A i \in OfKind(k) : jobs'[i] = jobs[i] /\ Want(i)' = Want(i)
      /\ k = "nas" => (NoProfileIn(table)' <=> NoProfileIn(table))
  BY FrameKeeps
<1>2. Scheduled(k)' = Scheduled(k)
  BY <1>1 DEF Scheduled, OfKind
<1>3. pc[v] = "remove" => removing'[v] = {[time |-> jobs'[i], id |-> i] : i \in Scheduled(k)}
  BY <1>1 DEF Halfway, Scheduled, OfKind
<1>4. pc[v] = "legacy" => k = "nas"
  BY DEF Typed, RequestTypes
<1>5. \A r \in adding[v] : r.id \in OfKind(k)
  BY DEF Typed, InHand, OfKind
<1> QED
  BY <1>1, <1>2, <1>3, <1>4, <1>5 DEF Halfway

\* A step of w, or a request that w begins, leaves the others right.
LEMMA OthersStayRight ==
  ASSUME Typed, LoneSoFar, NEW w \in Workers, Others(w), NEW reloads \in SUBSET Kinds,
         \A k \in Kinds \ reloads : Frame(k),
         NEW v \in Workers, v # w, NEW k \in alone[v], k \notin reloads
  PROVE  /\ k = Reloading(v)' /\ todo'[v] # {} => Halfway(v, k)'
         /\ k \notin todo'[v] => \A i \in OfKind(k) : jobs'[i] = Want(i)'
<1>1. k \in Kinds /\ Frame(k)
  BY DEF Typed, RequestTypes
<1>2. Reloading(v)' = Reloading(v)
  BY DEF Others, Reloading
<1>3. CASE k = Reloading(v) /\ todo[v] # {}
  BY <1>1, <1>2, <1>3, OthersGoOn, ReloadingIs DEF Others, LoneSoFar, Typed
<1>4. CASE k \notin todo[v]
  BY <1>1, <1>2, <1>4, FrameKeeps, ReloadingIs DEF Others, LoneSoFar, Typed
<1> QED
  BY <1>1, <1>2, <1>3, <1>4 DEF Others

LEMMA RequestKeeps ==
  ASSUME Typed, AloneIsAlone, LoneSoFar, TrustedMatch,
         NEW w \in Workers, NEW place \in Places, NEW reloads \in SUBSET Kinds, Asked(w, place, reloads)
  PROVE  IInv'
<1>1. /\ pc[w] = "idle" /\ requests' = requests + 1 /\ requests' \in 0 .. MaxRequests
      /\ pc' = [pc EXCEPT ![w] = place] /\ todo' = [todo EXCEPT ![w] = reloads]
      /\ kinds' = [kinds EXCEPT ![w] = reloads]
      /\ UNCHANGED <<jobs, removing, adding>>
  BY RequestAssumption DEF Asked, Begin, Typed, RequestTypes
<1>2. /\ alone' = [v \in Workers |-> IF v = w THEN {k \in reloads : BusyWith(k) = {}} ELSE alone[v] \ reloads]
      /\ trusted' = trusted \ {k \in reloads : BusyWith(k) # {}}
  BY DEF Asked, Begin
<1>3. Others(w)
  BY <1>1 DEF Others, Asked, Typed, RequestTypes, InHand
<1>4. kinds[w] = {} /\ removing[w] = {} /\ adding[w] = {}
  BY <1>1 DEF Typed, RequestTypes, InHand
<1>5. RequestTypes'
  <2>1. \A v \in Workers : v # w => Reloading(v)' = Reloading(v)
    BY <1>3 DEF Others, Reloading
  <2>2. alone' \in [Workers -> SUBSET Kinds]
    BY <1>2 DEF Typed, RequestTypes
  <2>3. \A v \in Workers : alone'[v] \subseteq kinds'[v]
    BY <1>1, <1>2 DEF Typed, RequestTypes
  <2>4. /\ pc' \in [Workers -> Places] /\ toggling' \in [Workers -> Toggles \cup {None}]
        /\ todo' \in [Workers -> SUBSET Kinds] /\ kinds' \in [Workers -> SUBSET Kinds]
        /\ trusted' \subseteq Kinds
    BY <1>1, <1>2 DEF Typed, RequestTypes, Asked
  <2>5. ASSUME NEW v \in Workers
        PROVE  /\ todo'[v] \subseteq kinds'[v]
               /\ pc'[v] = "idle" <=> todo'[v] = {}
               /\ pc'[v] = "idle" => kinds'[v] = {}
               /\ pc'[v] = "toggle" => "schedule" \in kinds'[v] /\ toggling'[v] \in Toggles
               /\ pc'[v] = "first" => "nas" \in kinds'[v]
               /\ pc'[v] \in {"toggle", "first"} => todo'[v] = kinds'[v]
               /\ pc'[v] = "legacy" => Reloading(v)' = "nas"
    <3>1. CASE v = w
      BY <1>1, <3>1 DEF Typed, RequestTypes, Asked
    <3>2. CASE v # w
      BY <1>3, <2>1, <3>2 DEF Typed, RequestTypes, Others
    <3> QED
      BY <3>1, <3>2
  <2> QED
    BY <1>1, <2>2, <2>3, <2>4, <2>5 DEF RequestTypes
<1>6. InHand'
  <2>1. \A v \in Workers : v # w => Reloading(v)' = Reloading(v)
    BY <1>3 DEF Others, Reloading
  <2> QED
    BY <1>1, <1>3, <1>4, <2>1 DEF Typed, InHand, Others
<1>7. AloneIsAlone'
  <2> SUFFICES ASSUME NEW v \in Workers, NEW u \in Workers, v # u
               PROVE  alone'[v] \cap kinds'[u] = {}
    BY DEF AloneIsAlone
  <2>1. CASE v = w
    <3>1. \A k \in kinds[u] : u \in BusyWith(k)
      BY DEF BusyWith, Busy, Typed, RequestTypes
    <3> QED
      BY <1>2, <1>3, <2>1, <3>1 DEF Others
  <2>2. CASE v # w
    BY <1>1, <1>2, <1>3, <2>2 DEF AloneIsAlone, Others, Typed, RequestTypes
  <2> QED
    BY <2>1, <2>2
<1>8. LoneSoFar'
  <2> SUFFICES ASSUME NEW v \in Workers, NEW k \in alone'[v]
               PROVE  /\ k = Reloading(v)' /\ todo'[v] # {} => Halfway(v, k)'
                      /\ k \notin todo'[v] => \A i \in OfKind(k) : jobs'[i] = Want(i)'
    BY DEF LoneSoFar, OfKind
  <2>1. CASE v = w
    <3>1. pc'[w] \in {"reload", "toggle", "first"} /\ todo'[w] = reloads /\ k \in reloads
      BY <1>1, <1>2, <2>1 DEF Asked, Typed, RequestTypes
    <3> QED
      BY <2>1, <3>1 DEF Halfway
  <2>2. CASE v # w
    <3>1. k \in alone[v] /\ k \notin reloads
      BY <1>2, <2>2
    <3> QED
      BY <1>3, <2>2, <3>1, OthersStayRight DEF Asked
  <2> QED
    BY <2>1, <2>2
<1>9. TrustedMatch'
  <2> SUFFICES ASSUME NEW k \in trusted', \A v \in Workers : k \notin kinds'[v]
               PROVE  \A i \in OfKind(k) : jobs'[i] = Want(i)'
    BY DEF TrustedMatch, OfKind
  <2>1. k \in trusted /\ k \notin reloads /\ \A v \in Workers : k \notin kinds[v]
    BY <1>1, <1>2, <1>3, <1>4 DEF Others, Typed, RequestTypes
  <2>2. Frame(k) /\ k \in Kinds
    BY <2>1 DEF Asked, Typed, RequestTypes
  <2> QED
    BY <2>1, <2>2, FrameKeeps DEF TrustedMatch
<1> QED
  BY <1>5, <1>6, <1>7, <1>8, <1>9 DEF IInv, Typed, Asked

-----------------------------------------------------------------------------
(* The steps of a request *)

\* What each step of a request leaves alone.
LEMMA ServeIsLocal ==
  ASSUME Typed, NEW w \in Workers, Serve(w)
  PROVE  /\ Others(w) /\ \A v \in Workers : v # w => alone'[v] = alone[v]
         /\ requests' = requests
         /\ \A k \in Kinds \ kinds[w] : Frame(k)
<1> USE DEF tableVars, historyVars, Others, Frame, OfKind, Typed, RowTypes, RequestTypes, InHand
<1>1. CASE WriteToggle(w)
  <2>1. toggling[w].id \in Schedules /\ "schedule" \in kinds[w]
    BY <1>1 DEF WriteToggle, Toggles
  <2>2. \A i \in Ids : i # toggling[w].id => table'[i] = table[i]
    BY <1>1 DEF WriteToggle
  <2>3. \A k \in Kinds \ kinds[w] : Frame(k)
    BY <1>1, <2>1, <2>2, KindsAre DEF WriteToggle
  <2> QED
    BY <1>1, <2>3 DEF WriteToggle
<1>2. CASE SaveFirstProfile(w)
  <2>1. \A i \in Schedules : table'[i] = table[i]
    BY <1>2, IdAssumption DEF SaveFirstProfile, Ids
  <2>2. "nas" \in kinds[w] /\ jobs' = jobs /\ legacy' = legacy
    BY <1>2 DEF SaveFirstProfile
  <2>3. \A k \in Kinds \ kinds[w] : Frame(k)
    BY <2>1, <2>2, KindsAre
  <2> QED
    BY <1>2, <2>3 DEF SaveFirstProfile
<1>3. CASE GetJobs(w)
  BY <1>3 DEF GetJobs
<1>4. ASSUME NEW j \in removing[w], RemoveJob(w, j)
      PROVE  /\ Others(w) /\ \A v \in Workers : v # w => alone'[v] = alone[v]
             /\ requests' = requests
             /\ \A k \in Kinds \ kinds[w] : Frame(k)
  <2>1. KindOf(j.id) \in kinds[w]
    BY <1>4, ReloadingIs DEF RemoveJob
  <2>2. \A i \in JobIds : i # j.id => jobs'[i] = jobs[i]
    BY <1>4 DEF RemoveJob
  <2>3. \A k \in Kinds \ kinds[w] : Frame(k)
    BY <1>4, <2>1, <2>2 DEF RemoveJob
  <2> QED
    BY <1>4, <2>3 DEF RemoveJob
<1>5. ASSUME NEW j \in removing[w], RemoveFails(w, j)
      PROVE  /\ Others(w) /\ \A v \in Workers : v # w => alone'[v] = alone[v]
             /\ requests' = requests
             /\ \A k \in Kinds \ kinds[w] : Frame(k)
  BY <1>5 DEF RemoveFails
<1>6. CASE ListEnabled(w)
  BY <1>6 DEF ListEnabled
<1>7. CASE ReadLegacy(w)
  BY <1>7 DEF ReadLegacy
<1>8. ASSUME NEW row \in adding[w], AddJob(w, row)
      PROVE  /\ Others(w) /\ \A v \in Workers : v # w => alone'[v] = alone[v]
             /\ requests' = requests
             /\ \A k \in Kinds \ kinds[w] : Frame(k)
  <2>1. KindOf(row.id) \in kinds[w]
    BY <1>8, ReloadingIs DEF AddJob
  <2>2. \A i \in JobIds : i # row.id => jobs'[i] = jobs[i]
    BY <1>8 DEF AddJob
  <2>3. \A k \in Kinds \ kinds[w] : Frame(k)
    BY <1>8, <2>1, <2>2 DEF AddJob
  <2> QED
    BY <1>8, <2>3 DEF AddJob
<1>9. CASE EndReload(w)
  BY <1>9 DEF EndReload
<1> QED
  BY <1>1, <1>2, <1>3, <1>4, <1>5, <1>6, <1>7, <1>8, <1>9 DEF Serve, Reload

\* The rows and jobs of a request's step have their types.
LEMMA ServeRows ==
  ASSUME Typed, NEW w \in Workers, Serve(w)
  PROVE  RowTypes'
<1> USE DEF tableVars, Typed, RowTypes
<1>1. CASE WriteToggle(w)
  <2>1. toggling[w] \in Toggles
    BY <1>1 DEF WriteToggle, RequestTypes
  <2>2. toggling[w].enabled \in BOOLEAN /\ toggling[w].id \in Ids
    BY <2>1 DEF Toggles, Ids
  <2>3. CASE table[toggling[w].id] = None
    BY <1>1, <2>3 DEF WriteToggle
  <2>4. CASE table[toggling[w].id] # None
    <3>1. table[toggling[w].id] \in Rows
      BY <2>2, <2>4
    <3>2. [table[toggling[w].id] EXCEPT !.enabled = toggling[w].enabled] \in Rows
      BY <2>2, <3>1 DEF Rows
    <3>3. table' = [table EXCEPT ![toggling[w].id] =
                      [table[toggling[w].id] EXCEPT !.enabled = toggling[w].enabled]]
      BY <1>1, <2>4 DEF WriteToggle
    <3> QED
      BY <1>1, <3>2, <3>3 DEF WriteToggle
  <2> QED
    BY <2>3, <2>4
<1>2. CASE SaveFirstProfile(w)
  <2>1. CASE NoProfileIn(table)
    <3>1. [enabled |-> legacy, time |-> LegacyTime] \in Rows
      BY IdAssumption DEF Rows
    <3> QED
      BY <1>2, <2>1, <3>1 DEF SaveFirstProfile
  <2>2. CASE ~ NoProfileIn(table)
    <3>1. PICK p \in Profiles : table[p] # None /\ table' = [table EXCEPT ![p].enabled = legacy]
      BY <1>2, <2>2 DEF SaveFirstProfile
    <3>2. [table[p] EXCEPT !.enabled = legacy] \in Rows
      BY <3>1, KindsAre DEF Rows
    <3>3. table' = [table EXCEPT ![p] = [table[p] EXCEPT !.enabled = legacy]]
      BY <3>1
    <3> QED
      BY <1>2, <3>2, <3>3 DEF SaveFirstProfile
  <2> QED
    BY <2>1, <2>2
<1>3. ASSUME NEW j \in removing[w], RemoveJob(w, j) PROVE RowTypes'
  BY <1>3 DEF RemoveJob
<1>4. ASSUME NEW row \in adding[w], AddJob(w, row) PROVE RowTypes'
  BY <1>4 DEF AddJob, InHand
<1>5. CASE GetJobs(w) \/ ListEnabled(w) \/ ReadLegacy(w) \/ EndReload(w)
  BY <1>5 DEF GetJobs, ListEnabled, ReadLegacy, EndReload
<1>6. ASSUME NEW j \in removing[w], RemoveFails(w, j) PROVE RowTypes'
  BY <1>6 DEF RemoveFails
<1> QED
  BY <1>1, <1>2, <1>3, <1>4, <1>5, <1>6 DEF Serve, Reload

\* The places of the request, and what it has in hand.
LEMMA ServeRequest ==
  ASSUME Typed, NEW w \in Workers, Serve(w)
  PROVE  RequestTypes'
<1>1. /\ Others(w) /\ requests' = requests
      /\ \A v \in Workers : v # w => alone'[v] = alone[v] /\ Reloading(v)' = Reloading(v)
  BY ServeIsLocal DEF Others, Reloading
<1>2. ASSUME pc' \in [Workers -> Places], toggling' \in [Workers -> Toggles \cup {None}],
             todo' \in [Workers -> SUBSET Kinds], kinds' \in [Workers -> SUBSET Kinds],
             alone' \in [Workers -> SUBSET Kinds], trusted' \subseteq Kinds,
             todo'[w] \subseteq kinds'[w], alone'[w] \subseteq kinds'[w],
             pc'[w] = "idle" <=> todo'[w] = {}, pc'[w] = "idle" => kinds'[w] = {},
             pc'[w] \notin {"toggle", "first"}, pc'[w] = "legacy" => Reloading(w)' = "nas"
      PROVE  RequestTypes'
  <2> SUFFICES ASSUME NEW v \in Workers
        PROVE  /\ todo'[v] \subseteq kinds'[v] /\ alone'[v] \subseteq kinds'[v]
               /\ pc'[v] = "idle" <=> todo'[v] = {}
               /\ pc'[v] = "idle" => kinds'[v] = {}
               /\ pc'[v] = "toggle" => "schedule" \in kinds'[v] /\ toggling'[v] \in Toggles
               /\ pc'[v] = "first" => "nas" \in kinds'[v]
               /\ pc'[v] \in {"toggle", "first"} => todo'[v] = kinds'[v]
               /\ pc'[v] = "legacy" => Reloading(v)' = "nas"
    BY <1>1, <1>2 DEF Typed, RequestTypes
  <2>1. CASE v = w
    BY <1>2, <2>1
  <2>2. CASE v # w
    BY <1>1, <2>2 DEF Typed, RequestTypes, Others
  <2> QED
    BY <2>1, <2>2
<1> USE DEF Typed, RequestTypes, Places, historyVars, tableVars
<1>3. CASE WriteToggle(w)
  BY <1>2, <1>3 DEF WriteToggle
<1>4. CASE SaveFirstProfile(w)
  BY <1>2, <1>4 DEF SaveFirstProfile
<1>5. CASE GetJobs(w)
  BY <1>2, <1>5 DEF GetJobs
<1>6. ASSUME NEW j \in removing[w], RemoveJob(w, j) PROVE RequestTypes'
  BY <1>2, <1>6 DEF RemoveJob
<1>7. ASSUME NEW j \in removing[w], RemoveFails(w, j) PROVE RequestTypes'
  BY <1>2, <1>7 DEF RemoveFails
<1>8. CASE ListEnabled(w)
  <2>1. Reloading(w)' = Reloading(w)
    BY <1>8 DEF ListEnabled, Reloading
  <2> QED
    BY <1>2, <1>8, <2>1 DEF ListEnabled
<1>9. CASE ReadLegacy(w)
  BY <1>2, <1>9 DEF ReadLegacy
<1>10. ASSUME NEW row \in adding[w], AddJob(w, row) PROVE RequestTypes'
  BY <1>2, <1>10 DEF AddJob
<1>11. CASE EndReload(w)
  <2>1. todo' = [todo EXCEPT ![w] = todo[w] \ {Reloading(w)}] /\ pc[w] = "add" /\ UNCHANGED toggling
    BY <1>11 DEF EndReload
  <2>2. CASE todo'[w] = {}
    <3>1. /\ pc' = [pc EXCEPT ![w] = "idle"] /\ trusted' = (trusted \ kinds[w]) \cup alone[w]
          /\ kinds' = [kinds EXCEPT ![w] = {}] /\ alone' = [alone EXCEPT ![w] = {}]
      BY <1>11, <2>2 DEF EndReload
    <3> QED
      BY <1>2, <2>1, <2>2, <3>1
  <2>3. CASE todo'[w] # {}
    <3>1. pc' = [pc EXCEPT ![w] = "reload"] /\ UNCHANGED <<kinds, alone, trusted>>
      BY <1>11, <2>3 DEF EndReload
    <3> QED
      BY <1>2, <2>1, <2>3, <3>1
  <2> QED
    BY <2>2, <2>3
<1> QED
  BY <1>3, <1>4, <1>5, <1>6, <1>7, <1>8, <1>9, <1>10, <1>11 DEF Serve, Reload

LEMMA ServeInHand ==
  ASSUME Typed, NEW w \in Workers, Serve(w)
  PROVE  InHand'
<1>1. Others(w) /\ \A v \in Workers : v # w => Reloading(v)' = Reloading(v)
  BY ServeIsLocal DEF Others, Reloading
<1>2. ASSUME removing' \in [Workers -> SUBSET [id : JobIds, time : Times]],
             adding' \in [Workers -> SUBSET [id : JobIds, time : Times]],
             \A j \in removing'[w] : KindOf(j.id) = Reloading(w)' /\ pc'[w] = "remove",
             \A r \in adding'[w] : KindOf(r.id) = Reloading(w)' /\ pc'[w] \in {"legacy", "add"}
      PROVE  InHand'
  <2> SUFFICES ASSUME NEW v \in Workers
               PROVE  /\ \A j \in removing'[v] : KindOf(j.id) = Reloading(v)' /\ pc'[v] = "remove"
                      /\ \A r \in adding'[v] : KindOf(r.id) = Reloading(v)' /\ pc'[v] \in {"legacy", "add"}
    BY <1>2 DEF InHand
  <2>1. CASE v = w
    BY <1>2, <2>1
  <2>2. CASE v # w
    BY <1>1, <2>2 DEF Typed, InHand, Others
  <2> QED
    BY <2>1, <2>2
<1> USE DEF Typed, InHand, RequestTypes
<1>3. ASSUME UNCHANGED <<removing, adding, todo>>, pc[w] \in {"toggle", "first"} PROVE InHand'
  <2>1. removing[w] = {} /\ adding[w] = {}
    BY <1>3
  <2> QED
    BY <1>2, <1>3, <2>1
<1>4. CASE WriteToggle(w) \/ SaveFirstProfile(w)
  BY <1>3, <1>4 DEF WriteToggle, SaveFirstProfile
<1>5. CASE GetJobs(w)
  <2>1. Reloading(w)' = Reloading(w) /\ pc'[w] = "remove" /\ adding[w] = {}
    BY <1>5 DEF GetJobs, Reloading
  <2>2. ASSUME NEW i \in Scheduled(Reloading(w))
        PROVE  [time |-> jobs[i], id |-> i] \in [id : JobIds, time : Times] /\ KindOf(i) = Reloading(w)
    BY DEF Scheduled, RowTypes
  <2> DEFINE all == {[time |-> jobs[i], id |-> i] : i \in Scheduled(Reloading(w))}
  <2>3. all \in SUBSET [id : JobIds, time : Times] /\ \A j \in all : KindOf(j.id) = Reloading(w)
    BY <2>2
  <2>4. removing' = [removing EXCEPT ![w] = all] /\ adding' = adding
    BY <1>5 DEF GetJobs
  <2> HIDE DEF all
  <2>5. removing' \in [Workers -> SUBSET [id : JobIds, time : Times]] /\ removing'[w] = all
    BY <2>3, <2>4
  <2> QED
    BY <1>2, <2>1, <2>3, <2>4, <2>5
<1>6. ASSUME NEW j \in removing[w], RemoveJob(w, j) PROVE InHand'
  <2>1. Reloading(w)' = Reloading(w)
    BY <1>6 DEF RemoveJob, Reloading
  <2> QED
    BY <1>2, <1>6, <2>1 DEF RemoveJob
<1>7. ASSUME NEW j \in removing[w], RemoveFails(w, j) PROVE InHand'
  BY <1>2, <1>7 DEF RemoveFails
<1>8. CASE ListEnabled(w)
  <2>1. Reloading(w)' = Reloading(w) /\ pc'[w] \in {"legacy", "add"} /\ removing[w] = {}
    BY <1>8 DEF ListEnabled, Reloading
  <2> DEFINE all == Listed(w, EnabledIn(table))
  <2>2. all \in SUBSET [id : JobIds, time : Times] /\ \A r \in all : KindOf(r.id) = Reloading(w)
    BY KindsAre DEF Listed, EnabledIn, RowTypes, Rows
  <2>3. adding' = [adding EXCEPT ![w] = all] /\ removing' = removing
    BY <1>8 DEF ListEnabled
  <2> HIDE DEF all
  <2> QED
    BY <1>2, <2>1, <2>2, <2>3
<1>9. CASE ReadLegacy(w)
  <2>1. Reloading(w)' = Reloading(w) /\ pc'[w] = "add" /\ removing[w] = {} /\ Reloading(w) = "nas"
    BY <1>9 DEF ReadLegacy, Reloading
  <2> DEFINE found == {[id |-> LegacyId, time |-> table[p].time] :
                        p \in {q \in Profiles \cap EnabledIn(table) : \A r \in Profiles : table[r] # None => q <= r}}
             all == IF ~ NoProfileIn(table) THEN found
                    ELSE IF legacy THEN {[id |-> LegacyId, time |-> LegacyTime]} ELSE {}
  <2>2. found \in SUBSET [id : JobIds, time : Times] /\ \A r \in found : r.id = LegacyId
    BY KindsAre DEF EnabledIn, RowTypes, Rows
  <2>3. all \in SUBSET [id : JobIds, time : Times] /\ \A r \in all : KindOf(r.id) = "nas"
    <3> HIDE DEF found
    <3> QED
      BY <2>2, KindsAre, IdAssumption
  <2>4. adding' = [adding EXCEPT ![w] = all] /\ removing' = removing
    BY <1>9 DEF ReadLegacy
  <2> HIDE DEF all
  <2> QED
    BY <1>2, <2>1, <2>3, <2>4
<1>10. ASSUME NEW row \in adding[w], AddJob(w, row) PROVE InHand'
  <2>1. Reloading(w)' = Reloading(w)
    BY <1>10 DEF AddJob, Reloading
  <2> QED
    BY <1>2, <1>10, <2>1 DEF AddJob
<1>11. CASE EndReload(w)
  <2>1. removing[w] = {} /\ adding[w] = {} /\ UNCHANGED <<removing, adding>>
    BY <1>11 DEF EndReload
  <2> QED
    BY <1>2, <2>1
<1> QED
  BY <1>4, <1>5, <1>6, <1>7, <1>8, <1>9, <1>10, <1>11 DEF Serve, Reload

-----------------------------------------------------------------------------
(* A lone reload *)

\* What a request of its own has achieved after its step.
RightAfter(w) ==
  \A k \in alone'[w] :
    /\ k = Reloading(w)' /\ todo'[w] # {} => Halfway(w, k)'
    /\ k \notin todo'[w] => \A i \in OfKind(k) : jobs'[i] = Want(i)'

\* A step of the reload itself, that leaves the rows and the other kind alone.
LEMMA OtherKindStays ==
  ASSUME Typed, LoneSoFar, NEW w \in Workers, NEW k \in alone[w], k \notin todo[w],
         UNCHANGED tableVars, \A i \in OfKind(k) : jobs'[i] = jobs[i]
  PROVE  \A i \in OfKind(k) : jobs'[i] = Want(i)'
<1>1. k \in Kinds /\ Frame(k)
  BY DEF Frame, tableVars, Typed, RequestTypes
<1> QED
  BY <1>1, FrameKeeps DEF LoneSoFar

LEMMA ServeRight ==
  ASSUME Typed, AloneIsAlone, LoneSoFar, NEW w \in Workers, Serve(w)
  PROVE  RightAfter(w)
<1> USE DEF Typed, RequestTypes, tableVars, historyVars
<1> DEFINE own == Reloading(w)
<1>0. ASSUME UNCHANGED <<tableVars, todo, alone>>, pc[w] \in {"reload", "remove", "legacy", "add"},
             own \in alone[w] => Halfway(w, own)',
             \A i \in JobIds : KindOf(i) # own => jobs'[i] = jobs[i]
      PROVE  RightAfter(w)
  <2>1. Reloading(w)' = Reloading(w) /\ own \in todo[w]
    BY <1>0, ReloadingIs DEF Reloading
  <2>2. ASSUME NEW k \in alone[w], k \notin todo[w] PROVE \A i \in OfKind(k) : jobs'[i] = Want(i)'
    <3>1. \A i \in OfKind(k) : jobs'[i] = jobs[i]
      BY <1>0, <2>1, <2>2 DEF OfKind
    <3> QED
      BY <1>0, <2>2, <3>1, OtherKindStays
  <2> QED
    BY <1>0, <2>1, <2>2 DEF RightAfter
<1>00. UNCHANGED tableVars => \A i : Want(i)' = Want(i)
  BY DEF Want, JobsFor, EnabledIn, NoProfileIn
<1>1. ASSUME WriteToggle(w) \/ SaveFirstProfile(w) PROVE RightAfter(w)
  <2>1. pc'[w] = "reload" /\ UNCHANGED <<todo, alone, kinds>> /\ todo[w] = kinds[w]
    BY <1>1 DEF WriteToggle, SaveFirstProfile
  <2> QED
    BY <2>1 DEF RightAfter, Halfway
<1>2. CASE GetJobs(w)
  <2>1. UNCHANGED <<tableVars, jobs, todo, alone>> /\ pc[w] = "reload" /\ pc'[w] = "remove"
    BY <1>2 DEF GetJobs
  <2>2. removing'[w] = {[time |-> jobs[i], id |-> i] : i \in Scheduled(own)}
    BY <1>2 DEF GetJobs, InHand
  <2>3. Halfway(w, own)'
    <3>1. \A k \in Kinds : Scheduled(k)' = Scheduled(k)
      BY <2>1 DEF Scheduled
    <3>2. own' = own
      BY <2>1 DEF Reloading
    <3>3. own \in Kinds
      BY ReloadingIs
    <3> QED
      BY <2>1, <2>2, <3>1, <3>2, <3>3 DEF Halfway
  <2> QED
    BY <1>0, <2>1, <2>3
<1>3. ASSUME NEW j \in removing[w], RemoveJob(w, j) PROVE RightAfter(w)
  <2>1. /\ UNCHANGED <<tableVars, todo, alone, adding>> /\ pc[w] = "remove" /\ pc'[w] = "remove"
        /\ jobs' = [jobs EXCEPT ![j.id] = None] /\ removing'[w] = removing[w] \ {j}
    BY <1>3 DEF RemoveJob, InHand
  <2>2. own' = own /\ KindOf(j.id) = own /\ j.id \in JobIds /\ own \in Kinds
    BY <2>1, ReloadingIs DEF Reloading, InHand
  <2>3. ASSUME own \in alone[w] PROVE Halfway(w, own)'
    <3>1. removing[w] = {[time |-> jobs[i], id |-> i] : i \in Scheduled(own)}
      BY <2>1, <2>3, ReloadingIs DEF LoneSoFar, Halfway
    <3>2. j.id \in Scheduled(own) /\ j = [time |-> jobs[j.id], id |-> j.id]
      BY <3>1
    <3>3. Scheduled(own)' = Scheduled(own) \ {j.id}
      BY <2>1, <2>2 DEF Scheduled, RowTypes
    <3>4. \A i \in Scheduled(own) \ {j.id} : jobs'[i] = jobs[i]
      BY <2>1 DEF Scheduled, RowTypes
    <3>5. ASSUME NEW r
          PROVE  r \in removing'[w] <=> \E i \in Scheduled(own)' : r = [time |-> jobs'[i], id |-> i]
      <4>1. r \in removing[w] <=> \E i \in Scheduled(own) : r = [time |-> jobs[i], id |-> i]
        BY <3>1
      <4>2. \A i \in Scheduled(own) : [time |-> jobs[i], id |-> i] = j <=> i = j.id
        BY <3>2
      <4>3. r \in removing'[w] <=> \E i \in Scheduled(own) \ {j.id} : r = [time |-> jobs[i], id |-> i]
        BY <2>1, <4>1, <4>2
      <4> QED
        BY <3>3, <3>4, <4>3
    <3>6. removing'[w] = {[time |-> jobs'[i], id |-> i] : i \in Scheduled(own)'}
      BY <3>5
    <3> QED
      BY <2>1, <2>2, <3>6 DEF Halfway
  <2>4. \A i \in JobIds : KindOf(i) # own => jobs'[i] = jobs[i]
    BY <2>1, <2>2 DEF RowTypes
  <2> QED
    BY <1>0, <2>1, <2>3, <2>4
<1>4. ASSUME NEW j \in removing[w], RemoveFails(w, j) PROVE RightAfter(w)
  BY <1>4 DEF RemoveFails, RightAfter
<1>5. CASE ListEnabled(w)
  <2>1. /\ UNCHANGED <<tableVars, jobs, todo, alone>> /\ pc[w] = "remove" /\ removing[w] = {}
        /\ pc'[w] = IF own = "nas" /\ NoProfileIn(table) THEN "legacy" ELSE "add"
        /\ adding'[w] = Listed(w, EnabledIn(table))
    BY <1>5 DEF ListEnabled, InHand
  <2>2. own' = own /\ own \in Kinds
    BY <2>1, ReloadingIs DEF Reloading
  <2>3. ASSUME own \in alone[w] PROVE Halfway(w, own)'
    <3>1. \A i \in OfKind(own) : jobs'[i] = None
      <4>1. {[time |-> jobs[i], id |-> i] : i \in Scheduled(own)} = {}
        BY <2>1, <2>3, ReloadingIs DEF LoneSoFar, Halfway
      <4>2. ASSUME NEW i \in Scheduled(own) PROVE FALSE
        <5> DEFINE r == [time |-> jobs[i], id |-> i]
        <5>1. r \in {}
          <6>1. r \in {[time |-> jobs[h], id |-> h] : h \in Scheduled(own)}
            BY <4>2
          <6> QED
            BY <4>1, <6>1, Zenon
        <5> QED
          BY <5>1
      <4> QED
        BY <2>1, <4>2 DEF Scheduled, OfKind
    <3>2. \A r \in adding'[w] : r.id \in EnabledIn(table) /\ KindOf(r.id) = own /\ r.time = table[r.id].time
      BY <2>1 DEF Listed
    <3>3. \A i \in EnabledIn(table) : Want(i) = table[i].time
      BY KindsAre, WantIs DEF EnabledIn
    <3>4. CASE pc'[w] = "legacy"
      <4>1. NoProfileIn(table)' /\ own = "nas"
        BY <2>1, <3>4 DEF NoProfileIn
      <4>2. adding'[w] = {}
        BY <2>1, <3>2, <3>4, <4>1, KindsAre DEF NoProfileIn, EnabledIn
      <4> QED
        BY <2>2, <3>1, <3>4, <4>1, <4>2 DEF Halfway
    <3>5. CASE pc'[w] = "add"
      <4>1. \A r \in adding'[w] : r.time = Want(r.id)'
        BY <1>00, <2>1, <3>2, <3>3
      <4>2. ASSUME NEW i \in OfKind(own)
            PROVE  jobs'[i] = Want(i)' \/ (jobs'[i] = None /\ [id |-> i, time |-> Want(i)'] \in adding'[w])
        <5>1. i \in JobIds /\ KindOf(i) = own
          BY DEF OfKind
        <5>2. CASE i \in EnabledIn(table)
          <6>1. [id |-> i, time |-> table[i].time] \in adding'[w]
            BY <2>1, <5>1, <5>2 DEF Listed
          <6> QED
            BY <1>00, <2>1, <3>1, <3>3, <5>2, <6>1
        <5>3. CASE i \in Ids /\ i \notin EnabledIn(table)
          BY <1>00, <2>1, <3>1, <5>1, <5>3, WantIs DEF EnabledIn
        <5>4. CASE i \notin Ids
          <6>1. ~ NoProfileIn(table)
            BY <2>1, <3>5, <5>1, <5>4, KindsAre
          <6> QED
            BY <1>00, <2>1, <3>1, <5>1, <5>4, <6>1, WantIs
        <5> QED
          BY <5>2, <5>3, <5>4
      <4> QED
        BY <2>2, <3>5, <4>1, <4>2 DEF Halfway, OfKind
    <3> QED
      BY <2>1, <3>4, <3>5
  <2> QED
    BY <1>0, <2>1, <2>3
<1>6. CASE ReadLegacy(w)
  <2>1. /\ UNCHANGED <<tableVars, jobs, todo, alone>> /\ pc[w] = "legacy" /\ pc'[w] = "add" /\ own = "nas"
        /\ NoProfileIn(table) =>
             adding'[w] = IF legacy THEN {[id |-> LegacyId, time |-> LegacyTime]} ELSE {}
    BY <1>6 DEF ReadLegacy, InHand
  <2>2. own' = own
    BY <2>1 DEF Reloading
  <2>3. ASSUME own \in alone[w] PROVE Halfway(w, own)'
    <3>1. NoProfileIn(table) /\ \A i \in OfKind(own) : jobs[i] = None
      BY <2>1, <2>3, ReloadingIs DEF LoneSoFar, Halfway
    <3>2. Want(LegacyId) = IF legacy THEN LegacyTime ELSE None
      BY <3>1, KindsAre, WantIs
    <3>3. \A i \in OfKind(own) : i # LegacyId => Want(i) = None
      <4> SUFFICES ASSUME NEW i \in OfKind(own), i # LegacyId PROVE Want(i) = None
        OBVIOUS
      <4>1. i \in JobIds /\ i \in Ids /\ i \in Profiles
        BY <2>1, KindsAre DEF OfKind
      <4> QED
        BY <3>1, <4>1, WantIs DEF NoProfileIn
    <3>4. \A r \in adding'[w] : r.time = Want(r.id)'
      BY <1>00, <2>1, <3>1, <3>2
    <3>5. ASSUME NEW i \in OfKind(own)
          PROVE  jobs'[i] = Want(i)' \/ (jobs'[i] = None /\ [id |-> i, time |-> Want(i)'] \in adding'[w])
      <4>1. CASE i = LegacyId /\ legacy
        BY <1>00, <2>1, <3>1, <3>2, <4>1
      <4>2. CASE i # LegacyId \/ ~ legacy
        BY <1>00, <2>1, <3>1, <3>2, <3>3, <4>2
      <4> QED
        BY <4>1, <4>2
    <3> QED
      BY <2>1, <2>2, <3>4, <3>5 DEF Halfway, OfKind
  <2> QED
    BY <1>0, <2>1, <2>3
<1>7. ASSUME NEW row \in adding[w], AddJob(w, row) PROVE RightAfter(w)
  <2>1. /\ UNCHANGED <<tableVars, todo, alone>> /\ pc[w] = "add" /\ pc'[w] = "add"
        /\ jobs' = [jobs EXCEPT ![row.id] = row.time] /\ adding'[w] = adding[w] \ {row}
    BY <1>7 DEF AddJob, InHand
  <2>2. own' = own /\ KindOf(row.id) = own /\ row.id \in JobIds
    BY <2>1 DEF Reloading, InHand
  <2>3. ASSUME own \in alone[w] PROVE Halfway(w, own)'
    <3>1. /\ \A i \in OfKind(own) :
               jobs[i] = Want(i) \/ (jobs[i] = None /\ [id |-> i, time |-> Want(i)] \in adding[w])
          /\ \A r \in adding[w] : r.time = Want(r.id)
      BY <2>1, <2>3, ReloadingIs DEF LoneSoFar, Halfway
    <3>2. ASSUME NEW i \in OfKind(own)
          PROVE  jobs'[i] = Want(i)' \/ (jobs'[i] = None /\ [id |-> i, time |-> Want(i)'] \in adding'[w])
      <4>1. CASE i = row.id
        BY <1>00, <2>1, <2>2, <3>1, <4>1 DEF RowTypes
      <4>2. CASE i # row.id
        <5>1. jobs'[i] = jobs[i]
          BY <2>1, <4>2 DEF RowTypes, OfKind
        <5>2. [id |-> i, time |-> Want(i)] # row
          BY <4>2
        <5> QED
          BY <1>00, <2>1, <3>1, <5>1, <5>2
      <4> QED
        BY <4>1, <4>2
    <3>3. \A r \in adding'[w] : r.time = Want(r.id)'
      BY <1>00, <2>1, <3>1
    <3> QED
      BY <2>1, <2>2, <3>2, <3>3 DEF Halfway, OfKind
  <2>4. \A i \in JobIds : KindOf(i) # own => jobs'[i] = jobs[i]
    BY <2>1, <2>2 DEF RowTypes
  <2> QED
    BY <1>0, <2>1, <2>3, <2>4
<1>8. CASE EndReload(w)
  <2>1. /\ UNCHANGED <<tableVars, jobs>> /\ pc[w] = "add" /\ adding[w] = {}
        /\ todo'[w] = todo[w] \ {own}
        /\ \/ alone'[w] = {}
           \/ alone' = alone /\ pc'[w] = "reload"
    BY <1>8 DEF EndReload
  <2>2. ASSUME NEW k \in alone[w], k \notin todo'[w] PROVE \A i \in OfKind(k) : jobs[i] = Want(i)
    BY <2>1, <2>2, ReloadingIs DEF LoneSoFar, Halfway
  <2>3. ASSUME NEW k \in alone[w], k \notin todo'[w] PROVE \A i \in OfKind(k) : jobs'[i] = Want(i)'
    BY <1>00, <2>1, <2>2, <2>3
  <2> QED
    BY <2>1, <2>3 DEF RightAfter, Halfway
<1> QED
  BY <1>1, <1>2, <1>3, <1>4, <1>5, <1>6, <1>7, <1>8 DEF Serve, Reload

\* A step of w leaves every kind it was not asked for alone, and takes no kind on.
LEMMA ServeNarrows ==
  ASSUME Typed, NEW w \in Workers, Serve(w)
  PROVE  /\ kinds'[w] \subseteq kinds[w] /\ alone'[w] \subseteq alone[w]
         /\ \/ kinds'[w] = kinds[w] /\ trusted' = trusted
            \/ kinds'[w] = {} /\ trusted' \subseteq trusted \ kinds[w]
            \/ /\ kinds'[w] = {} /\ trusted' = (trusted \ kinds[w]) \cup alone[w]
               /\ UNCHANGED tableVars /\ UNCHANGED jobs
               /\ todo[w] = {Reloading(w)} /\ pc[w] = "add" /\ adding[w] = {}
<1> USE DEF Typed, RequestTypes, historyVars
<1>1. ASSUME UNCHANGED historyVars PROVE kinds'[w] = kinds[w] /\ alone'[w] = alone[w] /\ trusted' = trusted
  BY <1>1
<1>2. CASE WriteToggle(w) \/ SaveFirstProfile(w) \/ GetJobs(w) \/ ListEnabled(w) \/ ReadLegacy(w)
  BY <1>1, <1>2 DEF WriteToggle, SaveFirstProfile, GetJobs, ListEnabled, ReadLegacy
<1>3. ASSUME NEW j \in removing[w], RemoveJob(w, j) PROVE UNCHANGED historyVars
  BY <1>3 DEF RemoveJob
<1>4. ASSUME NEW j \in removing[w], RemoveFails(w, j)
      PROVE  kinds'[w] = {} /\ alone'[w] = {} /\ trusted' \subseteq trusted \ kinds[w]
  BY <1>4 DEF RemoveFails
<1>5. ASSUME NEW row \in adding[w], AddJob(w, row) PROVE UNCHANGED historyVars
  BY <1>5 DEF AddJob
<1>6. ASSUME EndReload(w), todo'[w] # {} PROVE UNCHANGED historyVars
  BY <1>6 DEF EndReload
<1>7. ASSUME EndReload(w), todo'[w] = {}
      PROVE  /\ kinds'[w] = {} /\ alone'[w] = {} /\ trusted' = (trusted \ kinds[w]) \cup alone[w]
             /\ UNCHANGED tableVars /\ UNCHANGED jobs
             /\ todo[w] = {Reloading(w)} /\ pc[w] = "add" /\ adding[w] = {}
  <2>1. /\ kinds'[w] = {} /\ alone'[w] = {} /\ trusted' = (trusted \ kinds[w]) \cup alone[w]
        /\ UNCHANGED tableVars /\ UNCHANGED jobs /\ pc[w] = "add" /\ adding[w] = {}
        /\ todo'[w] = todo[w] \ {Reloading(w)}
    BY <1>7 DEF EndReload
  <2>2. Reloading(w) \in todo[w]
    BY <2>1, ReloadingIs
  <2> QED
    BY <1>7, <2>1, <2>2
<1> QED
  BY <1>1, <1>2, <1>3, <1>4, <1>5, <1>6, <1>7 DEF Serve, Reload

LEMMA ServeKeeps ==
  ASSUME Typed, AloneIsAlone, LoneSoFar, TrustedMatch, NEW w \in Workers, Serve(w)
  PROVE  IInv'
<1>1. /\ Others(w) /\ \A v \in Workers : v # w => alone'[v] = alone[v]
      /\ \A k \in Kinds \ kinds[w] : Frame(k)
  BY ServeIsLocal
<1>2. Typed'
  BY ServeRows, ServeRequest, ServeInHand DEF Typed
<1>3. AloneIsAlone'
  <2> SUFFICES ASSUME NEW v \in Workers, NEW u \in Workers, v # u
               PROVE  alone'[v] \cap kinds'[u] = {}
    BY DEF AloneIsAlone
  <2>1. alone'[v] \subseteq alone[v] /\ kinds'[u] \subseteq kinds[u]
    BY <1>1, ServeNarrows DEF Others
  <2> QED
    BY <2>1 DEF AloneIsAlone
<1>4. LoneSoFar'
  <2> SUFFICES ASSUME NEW v \in Workers, NEW k \in alone'[v]
               PROVE  /\ k = Reloading(v)' /\ todo'[v] # {} => Halfway(v, k)'
                      /\ k \notin todo'[v] => \A i \in OfKind(k) : jobs'[i] = Want(i)'
    BY DEF LoneSoFar, OfKind
  <2>1. CASE v = w
    BY <2>1, ServeRight DEF RightAfter
  <2>2. CASE v # w
    <3>1. k \in alone[v] /\ k \notin kinds[w] /\ kinds[w] \in SUBSET Kinds
      BY <1>1, <2>2 DEF AloneIsAlone, Typed, RequestTypes
    <3> QED
      BY <1>1, <2>2, <3>1, OthersStayRight
  <2> QED
    BY <2>1, <2>2
<1>5. TrustedMatch'
  <2> SUFFICES ASSUME NEW k \in trusted', \A v \in Workers : k \notin kinds'[v]
               PROVE  \A i \in OfKind(k) : jobs'[i] = Want(i)'
    BY DEF TrustedMatch, OfKind
  <2>1. \A v \in Workers : v # w => k \notin kinds[v]
    BY <1>1 DEF Others
  <2>2. ASSUME k \in trusted, k \notin kinds[w] PROVE \A i \in OfKind(k) : jobs'[i] = Want(i)'
    <3>1. Frame(k) /\ k \in Kinds
      BY <1>1, <2>2 DEF Typed, RequestTypes
    <3>2. \A i \in OfKind(k) : jobs[i] = Want(i)
      BY <2>1, <2>2 DEF TrustedMatch
    <3> QED
      BY <3>1, <3>2, FrameKeeps
  <2>3. ASSUME k \in alone[w], UNCHANGED tableVars, UNCHANGED jobs,
               todo[w] = {Reloading(w)}, pc[w] = "add", adding[w] = {}
        PROVE  \A i \in OfKind(k) : jobs'[i] = Want(i)'
    <3>1. \A i : Want(i)' = Want(i)
      BY <2>3 DEF Want, JobsFor, EnabledIn, NoProfileIn, tableVars
    <3>2. \A i \in OfKind(k) : jobs[i] = Want(i)
      BY <2>3 DEF LoneSoFar, Halfway
    <3> QED
      BY <2>3, <3>1, <3>2
  <2> QED
    BY <2>1, <2>2, <2>3, ServeNarrows
<1> QED
  BY <1>2, <1>3, <1>4, <1>5 DEF IInv

-----------------------------------------------------------------------------
(* The start, a restart, and the theorems *)

LEMMA JobsForType ==
  ASSUME table \in [Ids -> {None} \cup Rows], legacy \in BOOLEAN
  PROVE  JobsFor(table, legacy) \in [JobIds -> Times \cup {None}]
<1>1. ASSUME NEW i \in JobIds PROVE JobsFor(table, legacy)[i] \in Times \cup {None}
  BY WantIs, IdAssumption DEF Want, Rows
<1> QED
  BY <1>1 DEF JobsFor

LEMMA RestartKeeps == IInv /\ Restart => IInv'
<1> SUFFICES ASSUME IInv, Restart PROVE IInv'
  OBVIOUS
<1>1. /\ UNCHANGED <<table, legacy, requests>> /\ jobs' = JobsFor(table, legacy)
      /\ pc' = [w \in Workers |-> "idle"] /\ todo' = [w \in Workers |-> {}]
      /\ toggling' = [w \in Workers |-> None] /\ trusted' = Kinds
      /\ removing' = [w \in Workers |-> {}] /\ adding' = [w \in Workers |-> {}]
      /\ kinds' = [w \in Workers |-> {}] /\ alone' = [w \in Workers |-> {}]
  BY DEF Restart, tableVars
<1>2. RowTypes'
  BY <1>1, JobsForType DEF IInv, Typed, RowTypes
<1>3. RequestTypes' /\ InHand'
  BY <1>1 DEF IInv, Typed, RequestTypes, InHand, Places
<1>4. AloneIsAlone' /\ LoneSoFar'
  BY <1>1 DEF AloneIsAlone, LoneSoFar
<1>5. \A i \in JobIds : jobs'[i] = Want(i)'
  BY <1>1 DEF Want, JobsFor, EnabledIn, NoProfileIn
<1> QED
  BY <1>2, <1>3, <1>4, <1>5 DEF IInv, Typed, TrustedMatch, OfKind

LEMMA Inductive == Spec => []IInv
<1>1. Init => IInv
  <2> SUFFICES ASSUME Init PROVE IInv
    OBVIOUS
  <2>1. RowTypes
    BY JobsForType DEF Init, RowTypes
  <2>2. RequestTypes /\ InHand
    BY RequestAssumption DEF Init, RequestTypes, InHand, Places
  <2>3. AloneIsAlone /\ LoneSoFar /\ TrustedMatch
    BY DEF Init, AloneIsAlone, LoneSoFar, TrustedMatch, OfKind, Want
  <2> QED
    BY <2>1, <2>2, <2>3 DEF IInv, Typed
<1>2. IInv /\ [Next]_vars => IInv'
  <2> SUFFICES ASSUME IInv, [Next]_vars PROVE IInv'
    OBVIOUS
  <2> USE DEF IInv
  <2>1. CASE \/ \E i \in Ids, row \in Rows : SaveRow(i, row)
             \/ Import
             \/ \E enabled \in BOOLEAN : SaveSettings(enabled)
             \/ \E w \in Pool, s \in Schedules : ReadToggle(w, s)
             \/ \E w \in Pool, gone \in SUBSET Schedules : DeleteRows(w, "schedule", gone)
             \/ \E w \in Pool, p \in Profiles : DeleteRows(w, "nas", {p})
    <3>1. PICK w \in Workers, place \in Places, reloads \in SUBSET Kinds : Asked(w, place, reloads)
      BY <2>1, RequestIsAsked DEF Typed
    <3> QED
      BY <3>1, RequestKeeps
  <2>2. ASSUME NEW w \in Workers, Serve(w) PROVE IInv'
    BY <2>2, ServeKeeps
  <2>3. CASE Restart
    BY <2>3, RestartKeeps
  <2>4. CASE UNCHANGED vars
    BY <2>4 DEF vars, tableVars, workerVars, historyVars, Typed, RowTypes, RequestTypes, InHand,
      AloneIsAlone, LoneSoFar, TrustedMatch, Halfway, Want, JobsFor, EnabledIn, NoProfileIn,
      Reloading, OfKind, Scheduled
  <2> QED
    BY <2>1, <2>2, <2>3, <2>4 DEF Next, NoMoreRequests
<1> QED
  BY <1>1, <1>2, PTL DEF Spec

\* Whatever the requests and however their steps interleave, the rows, the job
\* store and what each rebuild has in hand keep their shape, and a worker is busy
\* exactly as long as its request still has a reload to do.
THEOREM JobsTypeCorrect == Spec => []TypeOK
<1>1. IInv => TypeOK
  BY DEF IInv, Typed, RowTypes, RequestTypes, InHand, Places, TypeOK
<1> QED
  BY <1>1, Inductive, PTL

\* reload_schedules and reload_nas_monitor, when no request overlaps them with a
\* reload of the same kind, find every job they remove still there, and leave the
\* jobs of their kind as the table has them, for any number of rows and threads.
THEOREM LoneReloadsHeal == Spec => []LoneReloadHeals
<1>1. IInv => LoneReloadHeals
  <2> SUFFICES ASSUME IInv PROVE LoneReloadHeals
    OBVIOUS
  <2> USE DEF IInv
  <2>1. ASSUME NEW w \in Workers, pc[w] = "remove", Reloading(w) \in alone[w], NEW j \in removing[w]
        PROVE  jobs[j.id] # None
    <3>1. todo[w] # {}
      BY <2>1 DEF Typed, RequestTypes
    <3>2. j \in {[time |-> jobs[i], id |-> i] : i \in Scheduled(Reloading(w))}
      BY <2>1, <3>1 DEF LoneSoFar, Halfway
    <3> QED
      BY <3>2 DEF Scheduled
  <2>2. ASSUME NEW k \in trusted, BusyWith(k) = {}, NEW i \in JobIds, KindOf(i) = k
        PROVE  jobs[i] = JobsFor(table, legacy)[i]
    <3>1. \A w \in Workers : k \notin kinds[w]
      BY <2>2 DEF BusyWith, Busy, Typed, RequestTypes
    <3> QED
      BY <2>2, <3>1 DEF TrustedMatch, OfKind, Want
  <2> QED
    BY <2>1, <2>2 DEF LoneReloadHeals
<1> QED
  BY <1>1, Inductive, PTL
=============================================================================
