------------------------ MODULE ConfigurationProofs ------------------------
(***************************************************************************)
(* Proofs about Configuration: whatever the forms, the pages, the exports  *)
(* and the imports do in whatever order, references hold, schedules keep   *)
(* their group, an untouched form keeps its group and a page changes no    *)
(* target.                                                                 *)
(***************************************************************************)
EXTENDS Configuration, FiniteSetTheorems, WellFoundedInduction, TLAPS

(***************************************************************************)
(* The highest of a finite set                                             *)
(***************************************************************************)

LEMMA GreatestExists ==
  ASSUME NEW S \in SUBSET Nat, IsFiniteSet(S), S # {}
  PROVE  \E n \in S : \A k \in S : k <= n
<1> DEFINE Topless == {U \in FiniteSubsetsOf(Nat) : U # {} /\ ~ \E n \in U : \A k \in U : k <= n}
<1>1. SUFFICES ASSUME Topless # {} PROVE FALSE
  BY DEF FiniteSubsetsOf
<1>2. IsWellFoundedOn(StrictSubsetOrdering(Nat), FiniteSubsetsOf(Nat))
  BY FS_StrictSubsetOrderingWellFounded
<1> HIDE DEF Topless
<1>3. Topless \subseteq FiniteSubsetsOf(Nat)
  BY DEF Topless
<1>4. PICK U \in Topless : \A V \in Topless : ~ (<<V, U>> \in StrictSubsetOrdering(Nat))
  BY <1>1, <1>2, <1>3, WFMin
<1>5. U \in SUBSET Nat /\ IsFiniteSet(U) /\ U # {}
  BY <1>4 DEF Topless, FiniteSubsetsOf
<1>6. PICK x \in U : TRUE
  BY <1>5
<1> DEFINE V == U \ {x}
<1>7. V \in SUBSET Nat /\ IsFiniteSet(V) /\ V # U
  BY <1>5, <1>6, FS_RemoveElement
<1>8. V \notin Topless
  BY <1>4, <1>5, <1>7 DEF StrictSubsetOrdering
<1>9. V = {} \/ \E n \in V : \A k \in V : k <= n
  BY <1>7, <1>8 DEF Topless, FiniteSubsetsOf
<1>10. \E n \in U : \A k \in U : k <= n
  <2>1. CASE V = {}
    BY <2>1, <1>5, <1>6
  <2>2. ASSUME NEW n \in V, \A k \in V : k <= n PROVE \E m \in U : \A k \in U : k <= m
    <3>1. n \in U /\ n \in Nat /\ x \in Nat
      BY <1>5, <1>6, <2>2
    <3>2. CASE x <= n
      BY <3>1, <3>2, <2>2
    <3>3. CASE n < x
      BY <3>1, <3>3, <2>2, <1>5
    <3> QED
      BY <3>1, <3>2, <3>3
  <2> QED
    BY <1>9, <2>1, <2>2
<1> QED
  BY <1>4, <1>10 DEF Topless

LEMMA HighestIs ==
  ASSUME NEW S \in SUBSET Nat, IsFiniteSet(S)
  PROVE  Highest(S) \in Nat /\ \A k \in S : k <= Highest(S)
<1>1. CASE S = {}
  BY <1>1 DEF Highest
<1>2. CASE S # {}
  BY <1>2, GreatestExists DEF Highest
<1> QED
  BY <1>1, <1>2

LEMMA HigherIs ==
  ASSUME NEW m \in Nat, NEW n \in Nat
  PROVE  Higher(m, n) \in Nat /\ m <= Higher(m, n) /\ n <= Higher(m, n)
BY DEF Higher

LEMMA SomeAreFinite ==
  ASSUME NEW S \in SUBSET GroupIds
  PROVE  S \in SUBSET Nat /\ IsFiniteSet(S)
<1>1. GroupIds \in SUBSET Nat /\ IsFiniteSet(GroupIds)
  BY BoundAssumption, FS_Interval DEF GroupIds
<1> QED
  BY <1>1, FS_Subset

LEMMA ImageFinite ==
  ASSUME NEW S, IsFiniteSet(S), NEW f, DOMAIN f = S
  PROVE  IsFiniteSet({f[x] : x \in S})
<1> DEFINE T == {f[x] : x \in S}
           h == [x \in S |-> f[x]]
<1>1. h \in Surjection(S, T)
  BY DEF Surjection
<1> QED
  BY <1>1, FS_Surjection

(***************************************************************************)
(* The types                                                               *)
(***************************************************************************)

\* The rows of a table of groups, and of group_containers.
Table(gs, b) == gs \in [GroupIds -> Nat \cup {None}] /\ \A g \in GroupIds : Has(gs, g) => gs[g] \in 1 .. b

Rows(is) ==
  /\ is \subseteq Items /\ IsFiniteSet(is)
  /\ \A i, j \in is : i.id = j.id => i = j
  /\ \A i \in is : i.name = None => i.cid \in Ids

Choice(s, b) == s # None => s.target \in GroupIds /\ s.chosen \in 1 .. b

ExportType ==
  /\ export \in [pc : {"idle", "containers", "schedules"}, groups : {export.groups},
                 items : {export.items}, torn : SUBSET {"form", "import"}]
  /\ export.pc # "idle" => Table(export.groups, born) /\ Rows(export.items)

BackupType == backup # None => Table(backup.groups, born) /\ Rows(backup.items) /\ Choice(backup.schedule, born)

PageType ==
  /\ page \in [pc : {"idle", "groups", "enrich"}, listing : {page.listing}, todo : {page.todo}]
  /\ page.pc # "enrich" => page.todo = {}
  /\ \A t \in page.todo : t.id \in Nat /\ Listed(page.listing, t.cid)
  /\ \A t, u \in page.todo : t.id = u.id => t = u

Types ==
  /\ Table(groups, born) /\ Rows(items) /\ Choice(schedule, born)
  /\ groupSeq \in Nat /\ itemSeq \in Nat /\ born \in Nat /\ changes \in 0 .. MaxChanges
  /\ \A g \in GroupIds : Has(groups, g) => g <= groupSeq
  /\ \A i \in items : i.id <= itemSeq
  /\ docker \in [Names -> Ids \cup {None}]
  /\ \A c \in shown : c.id \in GroupIds /\ c.group \in 1 .. born
  /\ ExportType /\ BackupType /\ PageType

LEMMA TypesGive == Types => TypeOK
BY DEF Types, TypeOK, Table, Rows, Choice, ExportType, PageType, Present

LEMMA InitTypes == Init => Types
<1> SUFFICES ASSUME Init PROVE Types
  OBVIOUS
<1> USE BoundAssumption, RefAssumption
<1>1. docker \in [Names -> Ids \cup {None}] /\ changes \in 0 .. MaxChanges /\ born \in Nat /\ groupSeq \in Nat
  BY DEF Init
<1>2. ExportType /\ BackupType /\ PageType /\ Choice(schedule, born)
  BY DEF Init, ExportType, BackupType, PageType, Choice
<1>3. Table(groups, born) /\ \A g \in GroupIds : Has(groups, g) => g <= groupSeq
  BY DEF Init, Table, Has, GroupIds
<1>4. Rows(items) /\ itemSeq \in Nat /\ \A i \in items : i.id <= itemSeq
  <2>1. CASE items = {}
    BY <2>1, FS_EmptySet DEF Init, Rows
  <2>2. ASSUME NEW id \in Ids, items = {[id |-> 1, group |-> 1, cid |-> id, name |-> None]}
        PROVE  Rows(items) /\ itemSeq \in Nat /\ \A i \in items : i.id <= itemSeq
    <3>1. IsFiniteSet(items) /\ itemSeq = 1
      BY <2>2, FS_Singleton DEF Init
    <3> QED
      BY <2>2, <3>1 DEF Rows, Items, GroupIds, Refs
  <2> QED
    BY <2>1, <2>2 DEF Init
<1>5. \A c \in shown : c.id \in GroupIds /\ c.group \in 1 .. born
  BY <1>3 DEF Init, Present, Table
<1> QED
  BY <1>1, <1>2, <1>3, <1>4, <1>5 DEF Types

\* What the form writes is rows, after those there were.
LEMMA ReplacedIsRows ==
  ASSUME Types, NEW g \in GroupIds, NEW selection \in Selections, NEW listing \in Listings
  PROVE  /\ Rows(Replaced(g, selection, listing))
         /\ NextItem + Len(selection) - 1 \in Nat /\ itemSeq <= NextItem + Len(selection) - 1
         /\ \A i \in Replaced(g, selection, listing) : i.id <= NextItem + Len(selection) - 1
         /\ \A i \in Replaced(g, selection, listing) : i.id <= itemSeq => i \in items
         /\ \A i \in Replaced(g, selection, listing) : i.group # g => i \in items
<1> DEFINE row(k) == [id |-> NextItem + k - 1, group |-> g, cid |-> Filled(listing, selection[k]).cid,
                      name |-> Filled(listing, selection[k]).name]
           f == [k \in DOMAIN selection |-> row(k)]
           old == items \ ItemsOf(g)
           new == {row(k) : k \in DOMAIN selection}
<1>1. selection \in Seq(Refs) /\ itemSeq \in Nat /\ Rows(items) /\ \A i \in items : i.id <= itemSeq
  BY SelectionAssumption DEF Types
<1>2. Len(selection) \in Nat /\ DOMAIN selection = 1 .. Len(selection)
  BY <1>1
<1>3. listing \in [Names -> Ids \cup {None}]
  BY DEF Listings, Types
<1>4. \A k \in DOMAIN selection : Filled(listing, selection[k]).cid \in Refs /\ Filled(listing, selection[k]).name \in Refs
  BY <1>1, <1>3 DEF Filled, Refs
<1>5. \A k \in DOMAIN selection :
        /\ row(k) \in Items /\ row(k).name # None /\ row(k).group = g
        /\ row(k).id = itemSeq + k
  BY <1>1, <1>2, <1>4, RefAssumption DEF Items, NextItem
<1>6. IsFiniteSet(new)
  <2>1. IsFiniteSet(DOMAIN selection)
    BY <1>2, FS_Interval
  <2>2. new = {f[k] : k \in DOMAIN selection}
    OBVIOUS
  <2> HIDE DEF f
  <2>3. DOMAIN f = DOMAIN selection
    BY DEF f
  <2> QED
    BY <2>1, <2>2, <2>3, ImageFinite
<1>7. IsFiniteSet(old)
  BY <1>1, FS_Subset DEF Rows
<1>8. \A i \in new : \E k \in DOMAIN selection : i = row(k)
  OBVIOUS
<1>9. \A i \in old : i \in items /\ i.group # g
  BY DEF ItemsOf
<1>10. Replaced(g, selection, listing) = old \cup new
  BY DEF Replaced
<1> HIDE DEF row, old, new, f
<1>11. IsFiniteSet(old \cup new)
  BY <1>6, <1>7, FS_Union
<1>12. \A i \in new : i \in Items /\ i.id > itemSeq /\ i.id <= itemSeq + Len(selection)
                      /\ i.group = g /\ i.name # None
  BY <1>1, <1>2, <1>5, <1>8
<1>13. \A i, j \in new : i.id = j.id => i = j
  <2> SUFFICES ASSUME NEW i \in new, NEW j \in new, i.id = j.id PROVE i = j
    OBVIOUS
  <2>1. PICK k \in DOMAIN selection : i = row(k)
    BY <1>8
  <2>2. PICK l \in DOMAIN selection : j = row(l)
    BY <1>8
  <2>3. k = l
    BY <1>1, <1>2, <1>5, <2>1, <2>2
  <2> QED
    BY <2>1, <2>2, <2>3
<1>14. \A i \in old : i \in Items /\ i.id \in Nat /\ i.id <= itemSeq /\ (i.name = None => i.cid \in Ids)
  BY <1>1, <1>9 DEF Rows, Items
<1>15. \A i, j \in old : i.id = j.id => i = j
  BY <1>1, <1>9 DEF Rows
<1>16. Rows(old \cup new)
  <2>1. \A i, j \in old \cup new : i.id = j.id => i = j
    BY <1>1, <1>12, <1>13, <1>14, <1>15
  <2> QED
    BY <2>1, <1>11, <1>12, <1>14 DEF Rows
<1>17. NextItem + Len(selection) - 1 = itemSeq + Len(selection)
  BY <1>1, <1>2 DEF NextItem
<1>18. NextItem + Len(selection) - 1 \in Nat /\ itemSeq <= NextItem + Len(selection) - 1
  BY <1>1, <1>2, <1>17
<1>19. \A i \in old \cup new : i.id <= itemSeq + Len(selection)
  BY <1>1, <1>2, <1>12, <1>14
<1>20. \A i \in old \cup new : (i.id <= itemSeq => i \in items) /\ (i.group # g => i \in items)
  <2>1. \A i \in new : ~ (i.id <= itemSeq) /\ i.group = g
    BY <1>1, <1>12 DEF Items
  <2> QED
    BY <1>9, <2>1
<1> QED
  BY <1>10, <1>16, <1>17, <1>18, <1>19, <1>20

\* Rows that are left stay rows.
LEMMA FewerRows ==
  ASSUME NEW S, Rows(S), NEW T \in SUBSET S
  PROVE  Rows(T)
BY FS_Subset DEF Rows

\* set_group_container_name leaves every row but for its name.
Renamed(t, i) == IF i.id = t.id THEN [i EXCEPT !.name = Named(page.listing, t.cid)] ELSE i

LEMMA NamedIsRow ==
  ASSUME Types, NEW t \in page.todo, NEW i \in items
  PROVE  /\ Renamed(t, i) \in Items
         /\ Renamed(t, i).id = i.id /\ Renamed(t, i).group = i.group /\ Renamed(t, i).cid = i.cid
         /\ Renamed(t, i).name = None => i.name = None
         /\ i.id = t.id => Renamed(t, i).name \in Names /\ page.listing[Renamed(t, i).name] = t.cid
         /\ i.id # t.id => Renamed(t, i) = i
<1>1. i \in Items
  BY DEF Types, Rows
<1>2. Named(page.listing, t.cid) \in Names /\ page.listing[Named(page.listing, t.cid)] = t.cid
  BY DEF Types, PageType, Listed, Named
<1> QED
  BY <1>1, <1>2, RefAssumption DEF Renamed, Items, Refs

LEMMA SetNameRows ==
  ASSUME Types, NEW t \in page.todo, SetName(t)
  PROVE  /\ items' = {Renamed(t, i) : i \in items}
         /\ Rows(items')
<1>1. items' = {Renamed(t, i) : i \in items}
  BY DEF SetName, Renamed
<1> DEFINE f == [i \in items |-> Renamed(t, i)]
<1>2. items' = {f[i] : i \in items} /\ DOMAIN f = items
  BY <1>1
<1>3. IsFiniteSet(items)
  BY DEF Types, Rows
<1> HIDE DEF f
<1>4. IsFiniteSet(items')
  BY <1>2, <1>3, ImageFinite
<1>5. \A j \in items' : \E i \in items : j = Renamed(t, i)
  BY <1>1
<1>6. items' \subseteq Items /\ \A j \in items' : j.name = None => j.cid \in Ids
  BY <1>5, NamedIsRow DEF Types, Rows
<1>7. \A j, k \in items' : j.id = k.id => j = k
  BY <1>5, NamedIsRow DEF Types, Rows
<1> QED
  BY <1>1, <1>4, <1>6, <1>7 DEF Rows

LEMMA LaterStill ==
  ASSUME Types, born' \in Nat, born <= born'
  PROVE  /\ \A gs : Table(gs, born) => Table(gs, born')
         /\ \A s : Choice(s, born) => Choice(s, born')
         /\ \A c \in shown : c.id \in GroupIds /\ c.group \in 1 .. born'
<1>1. \A k \in 1 .. born : k \in 1 .. born'
  BY DEF Types
<1> QED
  BY <1>1 DEF Types, Table, Choice

\* A write changes the export's history alone, and no file and no page.
LEMMA WriteTypes ==
  ASSUME Types, NEW by \in {"form", "import"}, Write(by), born' \in Nat, born <= born', UNCHANGED page
  PROVE  ExportType' /\ BackupType' /\ PageType' /\ docker' \in [Names -> Ids \cup {None}]
         /\ changes' \in 0 .. MaxChanges
<1>1. docker' = docker /\ backup' = backup /\ changes' = changes + 1 /\ changes < MaxChanges
  BY DEF Write
<1>2. export' = [export EXCEPT !.torn = IF export.pc = "idle" THEN {} ELSE @ \cup {by}]
  BY DEF Write, Tear
<1>3. ExportType'
  BY <1>2, LaterStill DEF Types, ExportType
<1>4. BackupType' /\ PageType'
  BY <1>1, LaterStill DEF Types, BackupType, PageType, Listed
<1> QED
  BY <1>1, <1>3, <1>4, BoundAssumption DEF Types

LEMMA TypesStep == Types /\ [Next]_vars => Types'
<1> SUFFICES ASSUME Types, [Next]_vars PROVE Types'
  OBVIOUS
<1>t. /\ Table(groups, born) /\ Rows(items) /\ Choice(schedule, born)
      /\ groupSeq \in Nat /\ itemSeq \in Nat /\ born \in Nat /\ changes \in 0 .. MaxChanges
      /\ \A g \in GroupIds : Has(groups, g) => g <= groupSeq
      /\ \A i \in items : i.id <= itemSeq
      /\ docker \in [Names -> Ids \cup {None}]
      /\ \A c \in shown : c.id \in GroupIds /\ c.group \in 1 .. born
      /\ ExportType /\ BackupType /\ PageType
  BY DEF Types
<1>g. GroupIds \subseteq Nat
  BY BoundAssumption DEF GroupIds
<1>1. ASSUME NEW selection \in Selections, NEW listing \in Listings, CreateGroup(selection, listing)
      PROVE  Types'
  <2>1. born' = born + 1 /\ born' \in Nat /\ born <= born'
    BY <1>1, <1>t DEF CreateGroup
  <2>2. ExportType' /\ BackupType' /\ PageType' /\ docker' \in [Names -> Ids \cup {None}]
        /\ changes' \in 0 .. MaxChanges
    BY <1>1, <2>1, WriteTypes DEF CreateGroup
  <2>3. NextGroup \in GroupIds /\ groupSeq' = NextGroup /\ NextGroup = groupSeq + 1
    BY <1>1, <1>t DEF CreateGroup, NextGroup, Higher
  <2>4. groups' = [groups EXCEPT ![NextGroup] = born'] /\ UNCHANGED schedule
    BY <1>1 DEF CreateGroup
  <2>5. Table(groups', born') /\ Choice(schedule', born')
    <3>1. Table(groups, born') /\ born' \in 1 .. born'
      BY <1>t, <2>1, LaterStill
    <3> QED
      BY <1>t, <2>1, <2>3, <2>4, <3>1, LaterStill DEF Table, Has
  <2>6. \A g \in GroupIds : Has(groups', g) => g <= groupSeq'
    BY <1>g, <1>t, <2>3, <2>4 DEF Has, Table
  <2>7. Rows(items') /\ itemSeq' \in Nat /\ \A i \in items' : i.id <= itemSeq'
    BY <1>1, <2>3, ReplacedIsRows DEF CreateGroup
  <2>8. \A c \in shown' : c.id \in GroupIds /\ c.group \in 1 .. born'
    <3>1. shown' = shown \cup {[id |-> NextGroup, group |-> born', old |-> FALSE]}
      BY <1>1 DEF CreateGroup
    <3>2. born' \in 1 .. born'
      BY <1>t, <2>1
    <3> QED
      BY <2>1, <2>3, <3>1, <3>2, LaterStill
  <2> QED
    BY <1>t, <2>1, <2>2, <2>3, <2>5, <2>6, <2>7, <2>8 DEF Types
<1>2. ASSUME NEW selection \in Selections, NEW listing \in Listings, NEW g \in GroupIds,
             UpdateGroup(g, selection, listing)
      PROVE  Types'
  <2>1. UNCHANGED <<groups, schedule, groupSeq, page, born, shown>>
    BY <1>2 DEF UpdateGroup, historyVars
  <2>2. ExportType' /\ BackupType' /\ PageType' /\ docker' \in [Names -> Ids \cup {None}]
        /\ changes' \in 0 .. MaxChanges
    BY <1>2, <1>t, <2>1, WriteTypes DEF UpdateGroup
  <2>7. Rows(items') /\ itemSeq' \in Nat /\ \A i \in items' : i.id <= itemSeq'
    BY <1>2, ReplacedIsRows DEF UpdateGroup
  <2> QED
    BY <1>t, <2>1, <2>2, <2>7 DEF Types
<1>3. ASSUME NEW g \in GroupIds, DeleteGroup(g) PROVE Types'
  <2>1. UNCHANGED <<groupSeq, itemSeq, page, born, shown>>
    BY <1>3 DEF DeleteGroup, historyVars
  <2>2. ExportType' /\ BackupType' /\ PageType' /\ docker' \in [Names -> Ids \cup {None}]
        /\ changes' \in 0 .. MaxChanges
    BY <1>3, <1>t, <2>1, WriteTypes DEF DeleteGroup
  <2>3. Rows(items') /\ \A i \in items' : i.id <= itemSeq
    BY <1>3, <1>t, FewerRows DEF DeleteGroup
  <2>4. Table(groups', born) /\ \A h \in GroupIds : Has(groups', h) => h <= groupSeq
    BY <1>3, <1>t DEF DeleteGroup, Table, Has
  <2>5. Choice(schedule', born)
    BY <1>3, <1>t DEF DeleteGroup, Choice
  <2> QED
    BY <1>t, <2>1, <2>2, <2>3, <2>4, <2>5 DEF Types
<1>4. ASSUME NEW choice \in shown, SaveSchedule(choice) PROVE Types'
  <2>1. UNCHANGED <<groups, items, groupSeq, itemSeq, page, born, shown>>
    BY <1>4 DEF SaveSchedule, historyVars
  <2>2. ExportType' /\ BackupType' /\ PageType' /\ docker' \in [Names -> Ids \cup {None}]
        /\ changes' \in 0 .. MaxChanges
    BY <1>4, <1>t, <2>1, WriteTypes DEF SaveSchedule
  <2>3. Choice(schedule', born)
    BY <1>4, <1>t DEF SaveSchedule, Choice
  <2> QED
    BY <1>t, <2>1, <2>2, <2>3 DEF Types
<1>5. CASE DeleteSchedule
  <2>1. UNCHANGED <<groups, items, groupSeq, itemSeq, page, born, shown>> /\ schedule' = None
    BY <1>5 DEF DeleteSchedule, historyVars
  <2>2. ExportType' /\ BackupType' /\ PageType' /\ docker' \in [Names -> Ids \cup {None}]
        /\ changes' \in 0 .. MaxChanges
    BY <1>5, <1>t, <2>1, WriteTypes DEF DeleteSchedule
  <2> QED
    BY <1>t, <2>1, <2>2 DEF Types, Choice
<1>6. CASE ListContainers \/ ListGroups \/ Rendered
  <2>1. UNCHANGED <<groups, items, schedule, groupSeq, itemSeq, docker, backup, export, changes, born, shown>>
    BY <1>6 DEF ListContainers, ListGroups, Rendered, tables, historyVars
  <2>2. PageType'
    <3>1. CASE ListContainers \/ Rendered
      BY <3>1 DEF ListContainers, Rendered, PageType
    <3>2. CASE ListGroups
      <4>1. \A i, j \in items : i.id = j.id => i = j
        BY <1>t DEF Rows
      <4> QED
        <5> DEFINE Nameless == {i \in items : Has(groups, i.group) /\ i.name = None /\ Listed(page.listing, i.cid)}
                   T == {[id |-> i.id, cid |-> i.cid] : i \in Nameless}
        <5>1. page' = [page EXCEPT !.pc = "enrich", !.todo = T]
          BY <3>2 DEF ListGroups
        <5>2. \A t \in T : t.id \in Nat /\ Listed(page.listing, t.cid)
          BY <1>t DEF Rows, Items
        <5>3. \A t, u \in T : t.id = u.id => t = u
          BY <4>1
        <5> HIDE DEF T
        <5>4. page'.todo = T /\ page'.listing = page.listing /\ page'.pc = "enrich"
              /\ page' \in [pc : {"idle", "groups", "enrich"}, listing : {page'.listing}, todo : {page'.todo}]
          BY <5>1, <1>t DEF PageType
        <5> QED
          BY <5>2, <5>3, <5>4 DEF PageType, Listed
    <3> QED
      BY <1>6, <3>1, <3>2
  <2> QED
    BY <1>t, <2>1, <2>2 DEF Types, ExportType, BackupType
<1>7. ASSUME NEW t \in page.todo, SetName(t) PROVE Types'
  <2>1. UNCHANGED <<groups, schedule, groupSeq, itemSeq, docker, backup, changes, born, shown>>
    BY <1>7 DEF SetName, historyVars
  <2>2. items' = {Renamed(t, i) : i \in items} /\ Rows(items')
    BY <1>7, SetNameRows
  <2>3. \A i \in items' : i.id <= itemSeq
    BY <1>7, <1>t, <2>2, NamedIsRow
  <2>4. PageType'
    BY <1>7, <1>t DEF SetName, PageType
  <2>5. ExportType'
    BY <1>7, <1>t, <2>1 DEF SetName, Tear, ExportType
  <2> QED
    BY <1>t, <2>1, <2>2, <2>3, <2>4, <2>5 DEF Types, BackupType
<1>8. CASE ExportGroups \/ ExportContainers \/ ExportSchedules
  <2>1. UNCHANGED <<groups, items, schedule, groupSeq, itemSeq, docker, page, changes, born, shown>>
    BY <1>8 DEF ExportGroups, ExportContainers, ExportSchedules, tables, historyVars
  <2>2. Rows({})
    BY FS_EmptySet DEF Rows
  <2>3. CASE ExportGroups
    <3>1. ExportType' /\ BackupType'
      BY <2>3, <1>t, <2>1, <2>2 DEF ExportGroups, ExportType, BackupType
    <3> QED
      BY <3>1, <1>t, <2>1 DEF Types, PageType
  <2>4. CASE ExportContainers
    <3>1. ExportType' /\ BackupType'
      BY <2>4, <1>t, <2>1, <2>2 DEF ExportContainers, ExportType, BackupType
    <3> QED
      BY <3>1, <1>t, <2>1 DEF Types, PageType
  <2>5. CASE ExportSchedules
    <3>1. ExportType' /\ BackupType'
      BY <2>5, <1>t, <2>1, <2>2 DEF ExportSchedules, ExportType, BackupType
    <3> QED
      BY <3>1, <1>t, <2>1 DEF Types, PageType
  <2> QED
    BY <1>8, <2>3, <2>4, <2>5
<1>9. CASE Import
  <2>1. /\ backup # None /\ groups' = backup.groups /\ items' = backup.items /\ schedule' = backup.schedule
        /\ UNCHANGED <<born, page>>
        /\ groupSeq' = Higher(groupSeq, Highest({g \in GroupIds : Has(backup.groups, g)}))
        /\ itemSeq' = Higher(itemSeq, Highest({i.id : i \in backup.items}))
        /\ shown' = OldForms \cup {[id |-> g, group |-> backup.groups[g], old |-> FALSE] :
                                 g \in {h \in GroupIds : Has(backup.groups, h)}}
    BY <1>9 DEF Import, RestoredFrom
  <2>2. ExportType' /\ BackupType' /\ PageType' /\ docker' \in [Names -> Ids \cup {None}]
        /\ changes' \in 0 .. MaxChanges
    BY <1>9, <1>t, <2>1, WriteTypes DEF Import
  <2>3. Table(backup.groups, born) /\ Rows(backup.items) /\ Choice(backup.schedule, born)
    BY <1>t, <2>1 DEF BackupType
  <2>4. groupSeq' \in Nat /\ \A g \in GroupIds : Has(groups', g) => g <= groupSeq'
    <3> DEFINE P == {g \in GroupIds : Has(backup.groups, g)}
    <3>1. Highest(P) \in Nat /\ \A g \in P : g <= Highest(P)
      BY SomeAreFinite, HighestIs
    <3>2. groupSeq' = Higher(groupSeq, Highest(P)) /\ \A g \in GroupIds : Has(groups', g) => g \in P
      BY <2>1
    <3> HIDE DEF P
    <3>3. groupSeq' \in Nat /\ Highest(P) <= groupSeq'
      BY <1>t, <3>1, <3>2, HigherIs
    <3> QED
      BY <1>g, <3>1, <3>2, <3>3
  <2>5. itemSeq' \in Nat /\ \A i \in items' : i.id <= itemSeq'
    <3> DEFINE f == [i \in backup.items |-> i.id]
               Q == {i.id : i \in backup.items}
    <3>1. Q = {f[i] : i \in backup.items} /\ DOMAIN f = backup.items
      OBVIOUS
    <3>2. Q \in SUBSET Nat
      BY <2>3 DEF Rows, Items
    <3>3. itemSeq' = Higher(itemSeq, Highest(Q)) /\ \A i \in items' : i.id \in Q
      BY <2>1
    <3> HIDE DEF f, Q
    <3>4. IsFiniteSet(Q)
      BY <2>3, <3>1, ImageFinite DEF Rows
    <3>5. Highest(Q) \in Nat /\ \A k \in Q : k <= Highest(Q)
      BY <3>2, <3>4, HighestIs
    <3>6. itemSeq' \in Nat /\ Highest(Q) <= itemSeq'
      BY <1>t, <3>3, <3>5, HigherIs
    <3>7. \A k \in Q : k <= itemSeq'
      BY <3>2, <3>5, <3>6
    <3> QED
      BY <3>3, <3>6, <3>7
  <2>6. \A c \in shown' : c.id \in GroupIds /\ c.group \in 1 .. born'
    BY <1>t, <2>1, <2>3 DEF Table, OldForms
  <2> QED
    BY <1>t, <2>1, <2>2, <2>3, <2>4, <2>5, <2>6 DEF Types
<1>10. CASE Reinstall
  <2>1. /\ groups' = [g \in GroupIds |-> None] /\ items' = {} /\ schedule' = None
        /\ groupSeq' = 0 /\ itemSeq' = 0 /\ shown' = OldForms
        /\ export' = [pc |-> "idle", groups |-> None, items |-> {}, torn |-> {}]
        /\ page' = [pc |-> "idle", listing |-> None, todo |-> {}]
        /\ UNCHANGED <<docker, backup, changes, born>>
    BY <1>10 DEF Reinstall
  <2>2. Table(groups', born) /\ Rows(items') /\ Choice(schedule', born) /\ \A g \in GroupIds : ~ Has(groups', g)
    BY <2>1, FS_EmptySet DEF Table, Rows, Choice, Has
  <2>3. ExportType' /\ PageType' /\ BackupType'
    BY <2>1, <1>t DEF ExportType, PageType, BackupType
  <2>4. \A c \in shown' : c.id \in GroupIds /\ c.group \in 1 .. born
    BY <1>t, <2>1 DEF OldForms
  <2> QED
    BY <1>t, <2>1, <2>2, <2>3, <2>4 DEF Types
<1>11. ASSUME NEW n \in Names, NEW id \in Ids \cup {None}, DockerChanges(n, id) PROVE Types'
  <2>1. UNCHANGED <<groups, items, schedule, groupSeq, itemSeq, backup, export, page, born, shown>>
    BY <1>11 DEF DockerChanges, tables, historyVars
  <2>2. docker' \in [Names -> Ids \cup {None}] /\ changes' \in 0 .. MaxChanges
    BY <1>11, <1>t, BoundAssumption DEF DockerChanges
  <2> QED
    BY <1>t, <2>1, <2>2 DEF Types, ExportType, PageType, BackupType
<1>12. CASE UNCHANGED vars
  BY <1>12, <1>t DEF vars, tables, historyVars, Types, ExportType, PageType, BackupType, Listed
<1> QED
  BY <1>1, <1>2, <1>3, <1>4, <1>5, <1>6, <1>7, <1>8, <1>9, <1>10, <1>11, <1>12 DEF Next

LEMMA AlwaysTypes == Spec => []Types
BY InitTypes, TypesStep, PTL DEF Spec

\* The tables, the file and the page keep their shape, ids stay unique and within
\* the sequences: the whole of what the forms, the import and the pages write.
THEOREM ConfigurationTypeCorrect == Spec => []TypeOK
BY AlwaysTypes, TypesGive, PTL

(***************************************************************************)
(* References                                                              *)
(***************************************************************************)

Refers(gs, is) == \A i \in is : Has(gs, i.group)
Aims(gs, s) == s # None => s.late \/ Has(gs, s.target)

\* An export amid which nothing was written has what there is; so its references hold.
RefInv ==
  /\ tornIn = {} => Refers(groups, items) /\ Aims(groups, schedule)
  /\ export.pc # "idle" /\ export.torn = {} => export.groups = groups
  /\ tornIn = {} /\ export.pc # "idle" /\ export.torn = {} => Refers(export.groups, export.items)
  /\ tornIn = {} /\ backup # None /\ backup.torn = {} =>
       Refers(backup.groups, backup.items) /\ Aims(backup.groups, backup.schedule)

LEMMA InitRefInv == Init => RefInv
<1> SUFFICES ASSUME Init PROVE RefInv
  OBVIOUS
<1>1. Refers(groups, items)
  BY BoundAssumption, RefAssumption DEF Init, Refers, Has, GroupIds
<1> QED
  BY <1>1 DEF Init, RefInv, Aims

\* A write tears the export that it falls into, whatever the export has read.
LEMMA TornByWrite ==
  ASSUME Types, NEW by \in {"form", "import"}, Tear(by)
  PROVE  export'.pc # "idle" => by \in export'.torn /\ export.torn \subseteq export'.torn
                                /\ export'.groups = export.groups /\ export.pc # "idle"
BY DEF Types, ExportType, Tear

LEMMA RefInvWrites ==
  ASSUME Types, RefInv, UNCHANGED <<backup, tornIn>>, Tear("form"),
         tornIn = {} => Refers(groups', items') /\ Aims(groups', schedule')
  PROVE  RefInv'
<1>1. export'.pc # "idle" => export'.torn # {}
  BY TornByWrite
<1> QED
  BY <1>1 DEF RefInv

LEMMA RefInvStep == Types /\ RefInv /\ [Next]_vars => RefInv'
<1> SUFFICES ASSUME Types, RefInv, [Next]_vars PROVE RefInv'
  OBVIOUS
<1>g. GroupIds \subseteq Nat /\ groupSeq \in Nat
  BY BoundAssumption DEF GroupIds, Types
<1>r. tornIn = {} => Refers(groups, items) /\ Aims(groups, schedule)
  BY DEF RefInv
<1>t. groups \in [GroupIds -> Nat \cup {None}] /\ (\A i \in items : i.group \in GroupIds)
      /\ (schedule # None => schedule.target \in GroupIds)
  BY DEF Types, Table, Rows, Choice, Items
<1>1. ASSUME NEW selection \in Selections, NEW listing \in Listings, CreateGroup(selection, listing)
      PROVE  RefInv'
  <2>1. /\ NextGroup \in GroupIds /\ groups' = [groups EXCEPT ![NextGroup] = born'] /\ born' = born + 1
        /\ items' = Replaced(NextGroup, selection, listing)
        /\ UNCHANGED <<schedule, backup, tornIn>> /\ Tear("form")
    BY <1>1 DEF CreateGroup, Write
  <2>2. \A g \in GroupIds : Has(groups, g) \/ g = NextGroup => Has(groups', g)
    BY <1>t, <2>1, RefAssumption DEF Types, Has
  <2>3. \A i \in items' : i.group # NextGroup => i \in items
    BY <2>1, ReplacedIsRows
  <2>4. \A i \in items' : i.group \in GroupIds
    BY <2>1, ReplacedIsRows DEF Rows, Items
  <2>5. tornIn = {} => Refers(groups', items') /\ Aims(groups', schedule')
    BY <1>r, <1>t, <2>1, <2>2, <2>3, <2>4 DEF Refers, Aims
  <2> QED
    BY <2>1, <2>5, RefInvWrites
<1>2. ASSUME NEW selection \in Selections, NEW listing \in Listings, NEW g \in GroupIds,
             UpdateGroup(g, selection, listing)
      PROVE  RefInv'
  <2>1. /\ Has(groups, g) \/ selection = << >>
        /\ items' = Replaced(g, selection, listing)
        /\ UNCHANGED <<groups, schedule, backup, tornIn>> /\ Tear("form")
    BY <1>2 DEF UpdateGroup, Write, historyVars
  <2>2. \A i \in items' : i.group # g => i \in items
    BY <2>1, ReplacedIsRows
  <2>3. selection = << >> => items' \subseteq items
    BY <2>1 DEF Replaced
  <2>4. tornIn = {} => Refers(groups', items') /\ Aims(groups', schedule')
    BY <1>r, <2>1, <2>2, <2>3 DEF Refers, Aims
  <2> QED
    BY <2>1, <2>4, RefInvWrites
<1>3. ASSUME NEW g \in GroupIds, DeleteGroup(g) PROVE RefInv'
  <2>1. /\ groups' = [groups EXCEPT ![g] = None] /\ items' = items \ ItemsOf(g)
        /\ schedule' = IF schedule # None /\ schedule.target = g THEN None ELSE schedule
        /\ UNCHANGED <<backup, tornIn>> /\ Tear("form")
    BY <1>3 DEF DeleteGroup, Write, historyVars
  <2>2. \A h \in GroupIds : Has(groups, h) /\ h # g => Has(groups', h)
    BY <1>t, <2>1 DEF Has
  <2>3. tornIn = {} => Refers(groups', items') /\ Aims(groups', schedule')
    BY <1>r, <1>t, <2>1, <2>2 DEF Refers, Aims, ItemsOf
  <2> QED
    BY <2>1, <2>3, RefInvWrites
<1>4. ASSUME NEW choice \in shown, SaveSchedule(choice) PROVE RefInv'
  <2>1. /\ schedule' = [target |-> choice.id, chosen |-> choice.group, late |-> ~ Has(groups, choice.id),
                     old |-> choice.old]
        /\ UNCHANGED <<groups, items, backup, tornIn>> /\ Tear("form")
    BY <1>4 DEF SaveSchedule, Write, historyVars
  <2>2. schedule'.late \/ Has(groups, schedule'.target)
    BY <2>1
  <2>3. tornIn = {} => Refers(groups', items') /\ Aims(groups', schedule')
    BY <1>r, <2>1, <2>2 DEF Refers, Aims
  <2> QED
    BY <2>1, <2>3, RefInvWrites
<1>5. CASE DeleteSchedule
  <2>1. schedule' = None /\ UNCHANGED <<groups, items, backup, tornIn>> /\ Tear("form")
    BY <1>5 DEF DeleteSchedule, Write, historyVars
  <2>2. tornIn = {} => Refers(groups', items') /\ Aims(groups', schedule')
    BY <1>r, <2>1 DEF Refers, Aims
  <2> QED
    BY <2>1, <2>2, RefInvWrites
<1>6. CASE ListContainers \/ ListGroups \/ Rendered
  BY <1>6 DEF ListContainers, ListGroups, Rendered, tables, historyVars, RefInv
<1>7. ASSUME NEW t \in page.todo, SetName(t) PROVE RefInv'
  <2>1. UNCHANGED <<groups, schedule, backup, tornIn>> /\ Tear("form")
    BY <1>7 DEF SetName, historyVars
  <2>2. items' = {Renamed(t, i) : i \in items}
    BY <1>7, SetNameRows
  <2>3. \A i \in items : Renamed(t, i).group = i.group
    BY NamedIsRow
  <2>4. tornIn = {} => Refers(groups', items') /\ Aims(groups', schedule')
    BY <1>r, <2>1, <2>2, <2>3 DEF Refers, Aims
  <2> QED
    BY <2>1, <2>4, RefInvWrites
<1>8. CASE ExportGroups
  BY <1>8 DEF ExportGroups, tables, historyVars, RefInv, Refers
<1>9. CASE ExportContainers
  BY <1>9 DEF ExportContainers, tables, historyVars, RefInv, Types, ExportType
<1>10. CASE ExportSchedules
  BY <1>10 DEF ExportSchedules, tables, historyVars, RefInv, Types, ExportType
<1>11. CASE Import
  <2>1. /\ backup # None /\ groups' = backup.groups /\ items' = backup.items /\ schedule' = backup.schedule
        /\ tornIn' = tornIn \cup backup.torn /\ Tear("import") /\ backup' = backup
    BY <1>11 DEF Import, RestoredFrom, Write
  <2>2. export'.pc # "idle" => export'.torn # {}
    BY <2>1, TornByWrite
  <2> QED
    BY <2>1, <2>2 DEF RefInv
<1>12. CASE Reinstall
  BY <1>12 DEF Reinstall, RefInv, Refers, Aims
<1>13. ASSUME NEW n \in Names, NEW id \in Ids \cup {None}, DockerChanges(n, id) PROVE RefInv'
  BY <1>13 DEF DockerChanges, tables, historyVars, RefInv
<1>14. CASE UNCHANGED vars
  BY <1>14 DEF vars, tables, historyVars, RefInv
<1> QED
  BY <1>1, <1>2, <1>3, <1>4, <1>5, <1>6, <1>7, <1>8, <1>9, <1>10, <1>11, <1>12, <1>13, <1>14 DEF Next

\* No container row and no schedule loses its group but by a backup torn while it
\* was written, or by a form sent after the group was deleted: the deletes take
\* along what refers to the group, and untorn backups carry whole references.
THEOREM ReferencesAlwaysHold == Spec => []ReferencesHold
<1>1. RefInv => ReferencesHold
  BY DEF RefInv, ReferencesHold, Refers, Aims
<1> QED
  BY <1>1, InitTypes, TypesStep, InitRefInv, RefInvStep, PTL DEF Spec

(***************************************************************************)
(* The group of a schedule                                                 *)
(***************************************************************************)

\* In these rows of groups the schedule's group is the one chosen for it.
Fits(gs, s) == s # None /\ ~ s.old /\ Has(gs, s.target) => gs[s.target] = s.chosen

\* No schedule was restored that an id still to be given, or a mixture, may mislead.
Intact == ~ exposed /\ "import" \notin tornIn

\* Ids are never given twice: what was read or chosen under an id, or is shown by a
\* form that is not an old one, is what there is under it, or is gone.
KeepInv ==
  Intact =>
    /\ schedule # None /\ ~ schedule.old => schedule.target <= groupSeq
    /\ Fits(groups, schedule)
    /\ \A c \in shown : ~ c.old => c.id <= groupSeq /\ (Has(groups, c.id) => groups[c.id] = c.group)
    /\ export.pc # "idle" /\ "import" \notin export.torn =>
         /\ \A g \in GroupIds : Has(export.groups, g) => g <= groupSeq
         /\ \A g \in GroupIds : Has(export.groups, g) /\ Has(groups, g) => groups[g] = export.groups[g]
         /\ \A c \in shown : ~ c.old /\ Has(export.groups, c.id) => export.groups[c.id] = c.group
         /\ Fits(export.groups, schedule)
    /\ backup # None /\ "import" \notin backup.torn => Fits(backup.groups, backup.schedule)

LEMMA InitKeepInv == Init => KeepInv
<1> SUFFICES ASSUME Init PROVE KeepInv
  OBVIOUS
<1>1. \A g \in Present : g <= groupSeq
  BY BoundAssumption DEF Init, Present, Has, GroupIds
<1> QED
  BY <1>1 DEF Init, KeepInv, Fits, Present

LEMMA KeepInvStep == Types /\ KeepInv /\ [Next]_vars => KeepInv'
<1> SUFFICES ASSUME Types, KeepInv, [Next]_vars, Intact' PROVE KeepInv'
  BY DEF KeepInv
<1>g. GroupIds \subseteq Nat /\ groupSeq \in Nat
  BY BoundAssumption DEF GroupIds, Types
<1>t. groups \in [GroupIds -> Nat \cup {None}] /\ (schedule # None => schedule.target \in GroupIds)
      /\ (\A g \in GroupIds : Has(groups, g) => g <= groupSeq) /\ (\A c \in shown : c.id \in GroupIds)
      /\ (export.pc # "idle" => export.groups \in [GroupIds -> Nat \cup {None}])
  BY DEF Types, Table, Choice, ExportType
<1>e. \A by \in {"form", "import"} : Tear(by) =>
        (export'.pc # "idle" => by \in export'.torn /\ export.torn \subseteq export'.torn
                                /\ export'.groups = export.groups /\ export.pc # "idle")
  BY TornByWrite
<1>1. ASSUME NEW selection \in Selections, NEW listing \in Listings, CreateGroup(selection, listing)
      PROVE  KeepInv'
  <2>1. /\ NextGroup \in GroupIds /\ groups' = [groups EXCEPT ![NextGroup] = born']
        /\ shown' = shown \cup {[id |-> NextGroup, group |-> born', old |-> FALSE]}
        /\ UNCHANGED <<schedule, backup, tornIn, exposed>> /\ Tear("form")
    BY <1>1 DEF CreateGroup, Write
  <2>2. NextGroup = groupSeq + 1 /\ groupSeq' = groupSeq + 1
    BY <1>1, <1>g DEF CreateGroup, NextGroup, Higher
  <2>3. /\ groups'[NextGroup] = born'
        /\ \A g \in GroupIds : g <= groupSeq => groups'[g] = groups[g] /\ g <= groupSeq' /\ g # NextGroup
    <3>1. \A g \in GroupIds : g <= groupSeq => g <= groupSeq' /\ g # NextGroup
      BY <1>g, <2>2
    <3> QED
      BY <1>t, <2>1, <3>1
  <2>4. Intact
    BY <2>1 DEF Intact
  <2>5. schedule # None /\ ~ schedule.old => schedule.target <= groupSeq' /\ schedule.target <= groupSeq
    BY <1>t, <2>3, <2>4 DEF KeepInv
  <2>6. Fits(groups', schedule')
    BY <1>t, <2>1, <2>3, <2>4, <2>5 DEF KeepInv, Fits, Has
  <2>7. \A c \in shown' : ~ c.old => c.id <= groupSeq' /\ (Has(groups', c.id) => groups'[c.id] = c.group)
    <3>1. \A c \in shown : ~ c.old => c.id <= groupSeq' /\ (Has(groups', c.id) => groups'[c.id] = c.group)
      BY <1>t, <2>3, <2>4 DEF KeepInv, Has
    <3>2. NextGroup <= groupSeq'
      BY <1>g, <2>2
    <3>3. \A c \in shown' : c \in shown \/ (c.id = NextGroup /\ c.group = born')
      BY <2>1
    <3> QED
      BY <2>3, <3>1, <3>2, <3>3
  <2>8. ASSUME export'.pc # "idle", "import" \notin export'.torn
        PROVE  /\ \A g \in GroupIds : Has(export'.groups, g) => g <= groupSeq'
               /\ \A g \in GroupIds : Has(export'.groups, g) /\ Has(groups', g) => groups'[g] = export'.groups[g]
               /\ \A c \in shown' : ~ c.old /\ Has(export'.groups, c.id) => export'.groups[c.id] = c.group
               /\ Fits(export'.groups, schedule')
    <3>1. export.pc # "idle" /\ "import" \notin export.torn /\ export'.groups = export.groups
      BY <1>e, <2>1, <2>8
    <3>2. \A g \in GroupIds : Has(export.groups, g) => g <= groupSeq /\ g # NextGroup
      BY <2>3, <2>4, <3>1 DEF KeepInv
    <3>3. \A c \in shown' : ~ c.old /\ Has(export.groups, c.id) => c \in shown
      BY <2>1, <3>2
    <3>4. \A g \in GroupIds : Has(export.groups, g) /\ Has(groups', g) => groups'[g] = export.groups[g]
      BY <2>3, <2>4, <3>1, <3>2 DEF KeepInv, Has
    <3> QED
      BY <2>1, <2>3, <2>4, <3>1, <3>2, <3>3, <3>4 DEF KeepInv
  <2> QED
    BY <2>1, <2>4, <2>5, <2>6, <2>7, <2>8 DEF KeepInv
<1>2. ASSUME NEW selection \in Selections, NEW listing \in Listings, NEW g \in GroupIds,
             UpdateGroup(g, selection, listing)
      PROVE  KeepInv'
  <2>1. UNCHANGED <<groups, schedule, groupSeq, shown, backup, tornIn, exposed>> /\ Tear("form")
    BY <1>2 DEF UpdateGroup, Write, historyVars
  <2> QED
    BY <1>e, <2>1 DEF KeepInv, Intact
<1>3. ASSUME NEW g \in GroupIds, DeleteGroup(g) PROVE KeepInv'
  <2>1. /\ groups' = [groups EXCEPT ![g] = None]
        /\ schedule' = IF schedule # None /\ schedule.target = g THEN None ELSE schedule
        /\ UNCHANGED <<groupSeq, shown, backup, tornIn, exposed>> /\ Tear("form")
    BY <1>3 DEF DeleteGroup, Write, historyVars
  <2>2. Intact
    BY <2>1 DEF Intact
  <2>3. \A h \in GroupIds : Has(groups', h) => Has(groups, h) /\ groups'[h] = groups[h]
    BY <1>t, <2>1 DEF Has
  <2>4. schedule' = None \/ schedule' = schedule
    BY <2>1
  <2>5. Fits(groups', schedule')
    BY <1>t, <2>2, <2>3, <2>4 DEF KeepInv, Fits
  <2>6. \A c \in shown : ~ c.old => c.id <= groupSeq /\ (Has(groups', c.id) => groups'[c.id] = c.group)
    BY <1>t, <2>2, <2>3 DEF KeepInv
  <2>7. ASSUME export'.pc # "idle", "import" \notin export'.torn
        PROVE  /\ \A h \in GroupIds : Has(export'.groups, h) => h <= groupSeq
               /\ \A h \in GroupIds : Has(export'.groups, h) /\ Has(groups', h) => groups'[h] = export'.groups[h]
               /\ \A c \in shown : ~ c.old /\ Has(export'.groups, c.id) => export'.groups[c.id] = c.group
               /\ Fits(export'.groups, schedule')
    <3>1. export.pc # "idle" /\ "import" \notin export.torn /\ export'.groups = export.groups
      BY <1>e, <2>1, <2>7
    <3> QED
      BY <2>2, <2>3, <2>4, <3>1 DEF KeepInv, Fits
  <2> QED
    BY <2>1, <2>2, <2>4, <2>5, <2>6, <2>7 DEF KeepInv
<1>4. ASSUME NEW choice \in shown, SaveSchedule(choice) PROVE KeepInv'
  <2>1. /\ schedule' = [target |-> choice.id, chosen |-> choice.group, late |-> ~ Has(groups, choice.id),
                     old |-> choice.old]
        /\ UNCHANGED <<groups, groupSeq, shown, backup, tornIn, exposed>> /\ Tear("form")
    BY <1>4 DEF SaveSchedule, Write, historyVars
  <2>2. schedule'.target = choice.id /\ schedule'.chosen = choice.group /\ schedule'.old = choice.old
    BY <2>1
  <2>3. Intact
    BY <2>1 DEF Intact
  <2>4. (~ schedule'.old => schedule'.target <= groupSeq) /\ Fits(groups, schedule')
    BY <2>2, <2>3 DEF KeepInv, Fits
  <2>5. ASSUME export'.pc # "idle", "import" \notin export'.torn
        PROVE  export'.groups = export.groups /\ export.pc # "idle" /\ "import" \notin export.torn
               /\ Fits(export.groups, schedule')
    <3>1. export.pc # "idle" /\ "import" \notin export.torn /\ export'.groups = export.groups
      BY <1>e, <2>1, <2>5
    <3> QED
      BY <2>2, <2>3, <3>1 DEF KeepInv, Fits
  <2> QED
    BY <2>1, <2>3, <2>4, <2>5 DEF KeepInv
<1>5. CASE DeleteSchedule
  <2>1. schedule' = None /\ UNCHANGED <<groups, groupSeq, shown, backup, tornIn, exposed>> /\ Tear("form")
    BY <1>5 DEF DeleteSchedule, Write, historyVars
  <2> QED
    BY <1>e, <2>1 DEF KeepInv, Intact, Fits
<1>6. CASE ListContainers \/ ListGroups \/ Rendered
  BY <1>6 DEF ListContainers, ListGroups, Rendered, tables, historyVars, KeepInv, Intact
<1>7. ASSUME NEW t \in page.todo, SetName(t) PROVE KeepInv'
  <2>1. UNCHANGED <<groups, schedule, groupSeq, shown, backup, tornIn, exposed>> /\ Tear("form")
    BY <1>7 DEF SetName, historyVars
  <2> QED
    BY <1>e, <2>1 DEF KeepInv, Intact
<1>8. CASE ExportGroups
  BY <1>8, <1>t DEF ExportGroups, tables, historyVars, KeepInv, Intact
<1>9. CASE ExportContainers
  BY <1>9 DEF ExportContainers, tables, historyVars, KeepInv, Intact, Types, ExportType
<1>10. CASE ExportSchedules
  <2>1. /\ UNCHANGED <<groups, schedule, groupSeq, shown, tornIn, exposed>> /\ export'.pc = "idle"
        /\ backup'.groups = export.groups /\ backup'.schedule = schedule /\ backup'.torn = export.torn
        /\ export.pc # "idle"
    BY <1>10 DEF ExportSchedules, tables, historyVars
  <2> QED
    BY <2>1 DEF KeepInv, Intact
<1>11. CASE Import
  <2>1. /\ backup # None /\ groups' = backup.groups /\ schedule' = backup.schedule
        /\ tornIn' = tornIn \cup backup.torn /\ Tear("import") /\ backup' = backup
        /\ exposed' = (exposed \/ (backup.schedule # None /\ backup.schedule.target > groupSeq'))
        /\ shown' = OldForms \cup {[id |-> g, group |-> backup.groups[g], old |-> FALSE] :
                                 g \in {h \in GroupIds : Has(backup.groups, h)}}
    BY <1>11 DEF Import, RestoredFrom, Write
  <2>2. Types'
    BY TypesStep
  <2>3. Intact /\ "import" \notin backup.torn
    BY <2>1 DEF Intact
  <2>4. Fits(groups', schedule')
    BY <2>1, <2>3 DEF KeepInv
  <2>5. schedule' # None => schedule'.target <= groupSeq'
    <3>1. schedule' # None => schedule'.target \in Nat
      BY <1>g, <2>2 DEF Types, Choice
    <3>2. schedule' # None => ~ (schedule'.target > groupSeq')
      BY <2>1 DEF Intact
    <3>3. groupSeq' \in Nat
      BY <2>2 DEF Types
    <3> QED
      BY <3>1, <3>2, <3>3
  <2>6. \A c \in shown' : ~ c.old => c.id <= groupSeq' /\ (Has(groups', c.id) => groups'[c.id] = c.group)
    <3>1. \A g \in GroupIds : Has(groups', g) => g <= groupSeq'
      BY <2>2 DEF Types
    <3> QED
      BY <2>1, <3>1 DEF OldForms
  <2>7. export'.pc # "idle" => "import" \in export'.torn
    BY <1>e, <2>1
  <2>8. backup' # None /\ "import" \notin backup'.torn => Fits(backup'.groups, backup'.schedule)
    BY <2>1, <2>3 DEF KeepInv
  <2> QED
    BY <2>4, <2>5, <2>6, <2>7, <2>8 DEF KeepInv
<1>12. CASE Reinstall
  BY <1>12 DEF Reinstall, OldForms, KeepInv, Intact, Fits
<1>13. ASSUME NEW n \in Names, NEW id \in Ids \cup {None}, DockerChanges(n, id) PROVE KeepInv'
  BY <1>13 DEF DockerChanges, tables, historyVars, KeepInv, Intact
<1>14. CASE UNCHANGED vars
  BY <1>14 DEF vars, tables, historyVars, KeepInv, Intact
<1> QED
  BY <1>1, <1>2, <1>3, <1>4, <1>5, <1>6, <1>7, <1>8, <1>9, <1>10, <1>11, <1>12, <1>13, <1>14 DEF Next

\* Whatever is deleted, created, exported and restored, a schedule never comes to
\* control another group than the one chosen: AUTOINCREMENT and the restored
\* sequences keep an id from being given twice while a schedule may hold it.  What
\* the property excepts is a schedule saved by a form that an import or a new
\* installation has overtaken, one restored without its group, and torn backups.
THEOREM SchedulesAlwaysKeepTheirGroup == Spec => []SchedulesKeepTheirGroup
<1>1. Types /\ KeepInv => SchedulesKeepTheirGroup
  BY DEF KeepInv, Intact, SchedulesKeepTheirGroup, Fits
<1> QED
  BY <1>1, InitTypes, TypesStep, InitKeepInv, KeepInvStep, PTL DEF Spec

(***************************************************************************)
(* What a page changes                                                     *)
(***************************************************************************)

\* As long as nothing is restored and no container changes, what a page still has
\* to write is of rows that are as it read them, or gone.
PageInv ==
  steady =>
    /\ page.pc # "idle" => page.listing \in Listings
    /\ \A t \in page.todo :
         /\ t.id <= itemSeq
         /\ \A i \in items : i.id = t.id => i.cid = t.cid /\ i.name = None

LEMMA PageInvStep == Types /\ PageInv /\ [Next]_vars => PageInv'
<1> SUFFICES ASSUME Types, PageInv, [Next]_vars, steady' PROVE PageInv'
  BY DEF PageInv
<1>t. /\ itemSeq \in Nat /\ \A i \in items : i.id \in Nat /\ i.id <= itemSeq
      /\ \A i, j \in items : i.id = j.id => i = j
      /\ page.pc # "enrich" => page.todo = {}
      /\ \A t, u \in page.todo : t.id = u.id => t = u
  BY DEF Types, Rows, Items, PageType
<1>1. ASSUME NEW selection \in Selections, NEW listing \in Listings, NEW g \in GroupIds,
             items' = Replaced(g, selection, listing), itemSeq' = NextItem + Len(selection) - 1,
             UNCHANGED <<docker, page, steady>>
      PROVE  PageInv'
  <2>1. itemSeq <= itemSeq' /\ itemSeq' \in Nat /\ \A i \in items' : i.id <= itemSeq => i \in items
    BY <1>1, ReplacedIsRows
  <2>2. ASSUME NEW t \in page.todo
        PROVE  t.id <= itemSeq' /\ \A i \in items' : i.id = t.id => i.cid = t.cid /\ i.name = None
    <3>1. t.id <= itemSeq
      BY <1>1, <2>2 DEF PageInv
    <3>2. t.id <= itemSeq'
      BY <1>t, <2>1, <2>2, <3>1 DEF Types, PageType
    <3>3. \A i \in items' : i.id = t.id => i \in items
      BY <2>1, <3>1
    <3> QED
      BY <1>1, <3>2, <3>3 DEF PageInv
  <2> QED
    BY <1>1, <2>2 DEF PageInv, Listings
<1>2. ASSUME NEW selection \in Selections, NEW listing \in Listings, CreateGroup(selection, listing)
      PROVE  PageInv'
  BY <1>1, <1>2 DEF CreateGroup, Write
<1>3. ASSUME NEW selection \in Selections, NEW listing \in Listings, NEW g \in GroupIds,
             UpdateGroup(g, selection, listing)
      PROVE  PageInv'
  BY <1>1, <1>3 DEF UpdateGroup, Write
<1>4. ASSUME NEW g \in GroupIds, DeleteGroup(g) PROVE PageInv'
  BY <1>4 DEF DeleteGroup, Write, PageInv, Listings
<1>5. ASSUME NEW choice \in shown, SaveSchedule(choice) PROVE PageInv'
  BY <1>5 DEF SaveSchedule, Write, PageInv, Listings
<1>6. CASE DeleteSchedule
  BY <1>6 DEF DeleteSchedule, Write, PageInv, Listings
<1>7. CASE ListContainers
  BY <1>7 DEF ListContainers, PageInv, Listings
<1>8. CASE ListGroups
  <2>1. page'.pc = "enrich" /\ page'.listing = page.listing /\ page.pc = "groups"
        /\ UNCHANGED <<items, itemSeq, docker, steady>>
    BY <1>8 DEF ListGroups, tables, Types, PageType
  <2>2. \A t \in page'.todo : \E i \in items : i.name = None /\ t.id = i.id /\ t.cid = i.cid
    BY <1>8 DEF ListGroups, Types, PageType
  <2> QED
    BY <1>t, <2>1, <2>2 DEF PageInv, Listings
<1>9. ASSUME NEW t \in page.todo, SetName(t) PROVE PageInv'
  <2>1. UNCHANGED <<itemSeq, docker, steady>> /\ page'.pc = page.pc /\ page'.listing = page.listing
        /\ page'.todo = page.todo \ {t}
    BY <1>9 DEF SetName, Types, PageType
  <2>2. items' = {Renamed(t, i) : i \in items}
    BY <1>9, SetNameRows
  <2>3. \A u \in page'.todo : u \in page.todo /\ u.id # t.id
    BY <1>t, <1>9, <2>1
  <2>4. \A j \in items' : j.id # t.id => j \in items
    BY <1>9, <2>2, NamedIsRow
  <2> QED
    BY <2>1, <2>3, <2>4 DEF PageInv, Listings
<1>10. CASE Rendered
  BY <1>10 DEF Rendered
<1>11. CASE ExportGroups \/ ExportContainers \/ ExportSchedules
  BY <1>11 DEF ExportGroups, ExportContainers, ExportSchedules, tables, PageInv, Listings
<1>12. CASE Import
  BY <1>12 DEF Import, RestoredFrom
<1>13. CASE Reinstall
  BY <1>13 DEF Reinstall
<1>14. ASSUME NEW n \in Names, NEW id \in Ids \cup {None}, DockerChanges(n, id) PROVE PageInv'
  BY <1>14 DEF DockerChanges
<1>15. CASE UNCHANGED vars
  BY <1>15 DEF vars, tables, PageInv, Listings
<1> QED
  BY <1>2, <1>3, <1>4, <1>5, <1>6, <1>7, <1>8, <1>9, <1>10, <1>11, <1>12, <1>13, <1>14, <1>15 DEF Next

LEMMA InitPageInv == Init => PageInv
BY DEF Init, PageInv

\* The name a page gives to a row is that of the container the row's id denotes.
LEMMA NamingKeepsTarget ==
  ASSUME Types, PageInv, steady, NEW t \in page.todo, NEW i \in items
  PROVE  Denotes(RefOf(Renamed(t, i))) = Denotes(RefOf(i))
<1>1. CASE i.id # t.id
  BY <1>1, NamedIsRow
<1>2. CASE i.id = t.id
  <2>1. i.cid = t.cid /\ i.name = None /\ page.listing \in Listings
    BY <1>2 DEF PageInv, Types, PageType
  <2>2. t.cid \in Ids
    BY <2>1 DEF Types, Rows
  <2>3. Renamed(t, i).name \in Names /\ page.listing[Renamed(t, i).name] = t.cid
    BY <1>2, NamedIsRow
  <2>4. page.listing = docker
    BY <2>1, <2>2, <2>3, RefAssumption DEF Listings, Refs
  <2>5. RefOf(Renamed(t, i)) = Renamed(t, i).name /\ Denotes(RefOf(Renamed(t, i))) = t.cid
    BY <2>3, <2>4, RefAssumption DEF RefOf, Denotes, Refs
  <2>6. RefOf(i) = t.cid /\ t.cid \in Running
    BY <2>1, <2>2, <2>3, <2>4, RefAssumption DEF RefOf, Running, Refs
  <2> QED
    BY <2>2, <2>5, <2>6, RefAssumption DEF Denotes
<1> QED
  BY <1>1, <1>2

\* Only SetName writes rows for a page.
LEMMA PageWrites ==
  ASSUME Types, [Next]_vars, steady', page'.todo # page.todo, items' # items
  PROVE  \E t \in page.todo : SetName(t)
<1>1. ASSUME NEW selection \in Selections, NEW listing \in Listings PROVE ~ CreateGroup(selection, listing)
  BY DEF CreateGroup
<1>2. ASSUME NEW selection \in Selections, NEW listing \in Listings, NEW g \in GroupIds
      PROVE  ~ UpdateGroup(g, selection, listing)
  BY DEF UpdateGroup
<1>3. ASSUME NEW g \in GroupIds PROVE ~ DeleteGroup(g)
  BY DEF DeleteGroup
<1>4. /\ \A choice \in shown : ~ SaveSchedule(choice)
      /\ ~ DeleteSchedule /\ ~ ListContainers /\ ~ ListGroups /\ ~ Rendered
      /\ ~ ExportGroups /\ ~ ExportContainers /\ ~ ExportSchedules
  BY DEF SaveSchedule, DeleteSchedule, ListContainers, ListGroups, Rendered, ExportGroups, ExportContainers,
         ExportSchedules, tables
<1>5. ~ Import /\ ~ Reinstall
  BY DEF Import, RestoredFrom, Reinstall
<1>6. \A n \in Names, id \in Ids \cup {None} : ~ DockerChanges(n, id)
  BY DEF DockerChanges
<1>7. ~ UNCHANGED vars
  BY DEF vars, tables
<1> QED
  BY <1>1, <1>2, <1>3, <1>4, <1>5, <1>6, <1>7 DEF Next

LEMMA PagesStep ==
  ASSUME Types, PageInv, [Next]_vars, steady, steady', page'.todo # page.todo, items' # items
  PROVE  {<<i.id, Denotes(RefOf(i))>> : i \in items} = {<<i.id, Denotes(RefOf(i))>> : i \in items'}
<1>1. PICK t \in page.todo : SetName(t)
  BY PageWrites
<1>2. items' = {Renamed(t, i) : i \in items}
  BY <1>1, SetNameRows
<1>3. \A i \in items : Renamed(t, i).id = i.id /\ Denotes(RefOf(Renamed(t, i))) = Denotes(RefOf(i))
  BY NamingKeepsTarget, NamedIsRow
<1> HIDE DEF Denotes, RefOf, Renamed
<1> QED
  BY <1>2, <1>3

\* enrich_groups writes names long after it read the rows: the row under the id it
\* names is the one it read, so the run's container stays the same.
THEOREM PagesNeverChangeTarget == Spec => PagesChangeNoTarget
<1>1. Types /\ PageInv /\ [Next]_vars =>
        [steady /\ steady' /\ page'.todo # page.todo /\ items' # items =>
           {<<i.id, Denotes(RefOf(i))>> : i \in items} = {<<i.id, Denotes(RefOf(i))>> : i \in items'}]_vars
  BY PagesStep
<1> QED
  BY <1>1, InitTypes, TypesStep, InitPageInv, PageInvStep, PTL DEF Spec, PagesChangeNoTarget

(***************************************************************************)
(* The form                                                                *)
(***************************************************************************)

LEMMA FormKeeps ==
  ASSUME Types, NEW g \in Present, NEW listing \in Listings, NEW i \in ItemsOf(g),
         i.name \notin Ids, Denotes(RefOf(i)) # None
  PROVE  \E ref \in Checked(listing, g) : Denotes(ref) = Denotes(RefOf(i))
<1>1. i \in items /\ i.cid \in Refs /\ i.name \in Names \cup {None} /\ (i.name = None => i.cid \in Ids)
  BY DEF ItemsOf, Types, Rows, Items, Refs
<1>2. listing = docker \/ \A n \in Names : listing[n] = None
  BY DEF Listings
<1>3. None \notin Names /\ None \notin Ids /\ None \notin Refs /\ Names \cap Ids = {}
  BY RefAssumption DEF Refs
<1>4. CASE i.name = None
  <2>1. RefOf(i) = i.cid /\ i.cid \in Ids /\ Denotes(RefOf(i)) = i.cid /\ i.cid \in Running
    BY <1>1, <1>3, <1>4 DEF RefOf, Denotes
  <2>2. CASE Listed(listing, i.cid)
    <3>1. Named(listing, i.cid) \in Names /\ listing[Named(listing, i.cid)] = i.cid
      BY <2>2 DEF Listed, Named
    <3>2. Named(listing, i.cid) \in Selected(listing, g)
      BY <1>4, <2>2 DEF Selected
    <3>3. Named(listing, i.cid) \in Checked(listing, g)
      BY <1>3, <2>1, <3>1, <3>2 DEF Checked
    <3>4. listing = docker
      BY <1>2, <1>3, <2>1, <3>1
    <3>5. Denotes(Named(listing, i.cid)) = i.cid
      BY <3>1, <3>4 DEF Denotes
    <3> QED
      BY <2>1, <3>3, <3>5
  <2>3. CASE ~ Listed(listing, i.cid)
    <3>1. i \in Missing(listing, g)
      BY <1>3, <1>4, <2>3 DEF Missing
    <3> QED
      BY <3>1 DEF Checked
  <2> QED
    BY <2>2, <2>3
<1>5. CASE i.name \in Names
  <2>1. RefOf(i) = i.name /\ Denotes(RefOf(i)) = docker[i.name]
    BY <1>3, <1>5 DEF RefOf, Denotes
  <2>2. CASE listing = docker
    <3>1. i.name \in Selected(listing, g)
      BY <1>3, <1>5, <2>1 DEF Selected
    <3> QED
      BY <1>5, <2>1, <2>2, <3>1 DEF Checked
  <2>3. CASE \A n \in Names : listing[n] = None
    <3>1. i \in Missing(listing, g)
      BY <1>1, <1>3, <1>5, <2>3 DEF Missing, Listed
    <3> QED
      BY <3>1 DEF Checked
  <2> QED
    BY <1>2, <2>2, <2>3
<1> QED
  BY <1>1, <1>4, <1>5

\* Opening a group's form and sending it as it is drops no container that a run of
\* the group would act on, be the list of containers whole or empty.
THEOREM UntouchedFormsKeepGroups == Spec => []UntouchedFormKeepsGroup
<1>1. Types => UntouchedFormKeepsGroup
  BY FormKeeps DEF UntouchedFormKeepsGroup
<1> QED
  BY <1>1, AlwaysTypes, PTL
============================================================================
