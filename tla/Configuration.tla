--------------------------- MODULE Configuration ---------------------------
(***************************************************************************)
(* The rows of groups, group_containers and schedules as the forms, the    *)
(* pages, the export and the import of the application treat them, in      *)
(* threads of their own, while containers are renamed and recreated.  A    *)
(* group names its containers by name or by id; a schedule names its group *)
(* by id, which no foreign key holds.  The export reads table by table     *)
(* without a transaction, and its file may be restored anywhere later.     *)
(* A form's write is one transaction and one step; the positions, delays   *)
(* and options it writes have no part in the references.                   *)
(*                                                                         *)
(* One schedule stands for all; the NAS profiles, webhooks and settings of *)
(* a backup refer to nothing here and are left out.                        *)
(***************************************************************************)
EXTENDS Naturals, Sequences, FiniteSets

CONSTANTS
  Names, Ids,   \* of Docker containers
  Selections,   \* bound: what a group form may select, in order
  None,         \* no row, no name, no container, no file
  MaxChanges    \* bound: how many writes and changes there are

Refs == Names \cup Ids

ASSUME RefAssumption == Names \cap Ids = {} /\ None \notin Refs \cup Nat
ASSUME SelectionAssumption == Selections \subseteq Seq(Refs)
ASSUME BoundAssumption == MaxChanges \in Nat

VARIABLES
  groups,    \* the group rows: a number that tells each group ever created
  items,     \* group_containers
  schedule,  \* a schedule of a group: the group's id, and history: which group it was,
             \* whether its form was late or old
  groupSeq, itemSeq,  \* sqlite_sequence: the highest ids ever given
  docker,    \* the container of each name
  backup,    \* the file of the last export
  export,    \* the export in progress: what it has read
  page,      \* a page in progress: its place, its list of containers, its writes
  changes,
  born,      \* history: how many groups were ever created
  shown,     \* history: the groups that an open form may offer, and whether it is an old one
  steady,    \* history: no container changed and nothing was restored since the page began
  tornIn,    \* history: what tore the backups that were restored: forms, imports
  exposed    \* history: a schedule was restored whose group's id is still to be given

tables == <<groups, items, schedule, groupSeq, itemSeq>>
historyVars == <<born, shown, tornIn, exposed>>
vars == <<tables, docker, backup, export, page, changes, steady, historyVars>>

GroupIds == 1 .. MaxChanges + 1
Has(gs, g) == gs[g] # None
Present == {g \in GroupIds : Has(groups, g)}
ItemsOf(g) == {i \in items : i.group = g}

Highest(S) == IF S = {} THEN 0 ELSE CHOOSE n \in S : \A k \in S : k <= n
Higher(m, n) == IF m < n THEN n ELSE m

-----------------------------------------------------------------------------
(* Names and ids *)

\* _container_ref: what a run calls the container.
RefOf(item) == IF item.name # None THEN item.name ELSE item.cid

Running == {docker[n] : n \in Names} \ {None}
Denotes(ref) == IF ref \in Names THEN docker[ref] ELSE IF ref \in Running THEN ref ELSE None

\* with_docker_containers: all containers, or none when Docker does not answer.
Listings == {docker, [n \in Names |-> None]}

Named(listing, id) == CHOOSE n \in Names : listing[n] = id
Listed(listing, id) == \E n \in Names : listing[n] = id

\* What the form makes of a selected ref.
Filled(listing, ref) ==
  [name |-> ref, cid |-> IF ref \in Names /\ listing[ref] # None THEN listing[ref] ELSE ref]

\* Seeded fault: the ids of deleted groups are given again.
NextGroupReused == Highest(Present) + 1

\* AUTOINCREMENT.
NextGroup == groupSeq + 1

\* Seeded fault: the ids of deleted rows are given again.
NextItemReused == Highest({i.id : i \in items}) + 1

NextItem == itemSeq + 1

Init ==
  /\ docker \in {d \in [Names -> Ids \cup {None}] :
                   \A m, n \in Names : d[m] = d[n] => m = n \/ d[m] = None}
  \* a group of an older release, which knew no names, or no group yet
  /\ \/ groups = [g \in GroupIds |-> None] /\ items = {} /\ born = 0
     \/ /\ groups = [g \in GroupIds |-> IF g = 1 THEN 1 ELSE None] /\ born = 1
        /\ \E id \in Ids : items = {[id |-> 1, group |-> 1, cid |-> id, name |-> None]}
  /\ schedule = None
  /\ groupSeq = born /\ itemSeq = Cardinality(items)
  /\ shown = {[id |-> g, group |-> groups[g], old |-> FALSE] : g \in Present}
  /\ backup = None
  /\ export = [pc |-> "idle", groups |-> None, items |-> {}, torn |-> {}]
  /\ page = [pc |-> "idle", listing |-> None, todo |-> {}]
  /\ changes = 0 /\ steady = FALSE
  /\ tornIn = {} /\ exposed = FALSE

\* What is written amid an export tears it.
Tear(by) == export' = [export EXCEPT !.torn = IF export.pc = "idle" THEN {} ELSE @ \cup {by}]

\* A write to the three tables.
Write(by) ==
  /\ changes < MaxChanges
  /\ changes' = changes + 1
  /\ Tear(by)
  /\ UNCHANGED <<docker, backup>>

-----------------------------------------------------------------------------
(* The forms *)

\* _replace_group_containers for the rows the form sends.
Replaced(g, selection, listing) ==
  (items \ ItemsOf(g)) \cup
    {[id |-> NextItem + k - 1, group |-> g, cid |-> Filled(listing, selection[k]).cid,
      name |-> Filled(listing, selection[k]).name] : k \in DOMAIN selection}

\* UNIQUE (group_id, container_id)
Distinct(selection, listing) ==
  \A j, k \in DOMAIN selection :
    Filled(listing, selection[j]).cid = Filled(listing, selection[k]).cid => j = k

CreateGroup(selection, listing) ==
  /\ NextGroup \in GroupIds /\ Distinct(selection, listing)
  /\ Write("form")
  /\ born' = born + 1
  /\ groups' = [groups EXCEPT ![NextGroup] = born']
  /\ items' = Replaced(NextGroup, selection, listing)
  /\ groupSeq' = Higher(groupSeq, NextGroup) /\ itemSeq' = NextItem + Len(selection) - 1
  /\ shown' = shown \cup {[id |-> NextGroup, group |-> born', old |-> FALSE]}
  /\ UNCHANGED <<schedule, page, steady, tornIn, exposed>>

\* The form of a group that is gone by now fails on the foreign key, as one
\* transaction, unless it selects nothing.
UpdateGroup(g, selection, listing) ==
  /\ g <= groupSeq /\ Distinct(selection, listing)
  /\ Has(groups, g) \/ selection = << >>
  /\ Write("form")
  /\ items' = Replaced(g, selection, listing)
  /\ itemSeq' = NextItem + Len(selection) - 1
  /\ UNCHANGED <<groups, schedule, groupSeq, page, steady, historyVars>>

\* Seeded fault: the schedules of the group are left.
DeleteGroupOnly(g) ==
  /\ Has(groups, g)
  /\ Write("form")
  /\ groups' = [groups EXCEPT ![g] = None]
  /\ items' = items \ ItemsOf(g)
  /\ UNCHANGED <<schedule, groupSeq, itemSeq, page, steady, historyVars>>

\* delete_group: its containers go by cascade, its schedules in the same transaction.
DeleteGroup(g) ==
  /\ Has(groups, g)
  /\ Write("form")
  /\ groups' = [groups EXCEPT ![g] = None]
  /\ items' = items \ ItemsOf(g)
  /\ schedule' = IF schedule # None /\ schedule.target = g THEN None ELSE schedule
  /\ UNCHANGED <<groupSeq, itemSeq, page, steady, historyVars>>

\* create_schedule and update_schedule: the form offers the groups there were when
\* it was opened, and nobody looks whether the one chosen is still there, or whether
\* its id is that of another group by now.
SaveSchedule(choice) ==
  /\ choice \in shown
  /\ Write("form")
  /\ schedule' = [target |-> choice.id, chosen |-> choice.group,
                  late |-> ~ Has(groups, choice.id), old |-> choice.old]
  /\ UNCHANGED <<groups, items, groupSeq, itemSeq, page, steady, historyVars>>

DeleteSchedule ==
  /\ schedule # None
  /\ Write("form")
  /\ schedule' = None
  /\ UNCHANGED <<groups, items, groupSeq, itemSeq, page, steady, historyVars>>

\* Seeded fault: the rows of an older release are selected by their id.
SelectedByRef(listing, g) == {RefOf(i) : i \in ItemsOf(g)}

\* group_selection: what the form of a group knows to be selected ...
Selected(listing, g) ==
  {IF i.name = None /\ Listed(listing, i.cid) THEN Named(listing, i.cid) ELSE RefOf(i) : i \in ItemsOf(g)}

\* ... missing_group_containers: the rows it adds to the containers of the list ...
Missing(listing, g) ==
  {i \in ItemsOf(g) : ~ Listed(listing, i.cid) /\ (i.name \in Names => listing[i.name] = None)}

\* ... and so the boxes that are checked when it is opened.
Checked(listing, g) ==
  {n \in Selected(listing, g) \cap Names : listing[n] # None} \cup {RefOf(i) : i \in Missing(listing, g)}

-----------------------------------------------------------------------------
(* The pages: enrich_groups gives the rows of an older release their names *)

ListContainers ==
  /\ page.pc = "idle"
  /\ \E listing \in Listings : page' = [pc |-> "groups", listing |-> listing, todo |-> {}]
  /\ steady' = TRUE
  /\ UNCHANGED <<tables, docker, backup, export, changes, historyVars>>

\* list_groups; its reads, one for each group, are taken together.
ListGroups ==
  /\ page.pc = "groups"
  /\ LET Nameless == {i \in items : Has(groups, i.group) /\ i.name = None /\ Listed(page.listing, i.cid)}
     IN  page' = [page EXCEPT !.pc = "enrich", !.todo = {[id |-> i.id, cid |-> i.cid] : i \in Nameless}]
  /\ UNCHANGED <<tables, docker, backup, export, changes, steady, historyVars>>

\* set_group_container_name, of whatever row has the id by now.
SetName(t) ==
  /\ page.pc = "enrich" /\ t \in page.todo
  /\ items' = {IF i.id = t.id THEN [i EXCEPT !.name = Named(page.listing, t.cid)] ELSE i : i \in items}
  /\ page' = [page EXCEPT !.todo = @ \ {t}]
  /\ Tear("form")
  /\ UNCHANGED <<groups, schedule, groupSeq, itemSeq, docker, backup, changes, steady, historyVars>>

Rendered ==
  /\ page.pc = "enrich" /\ page.todo = {}
  /\ page' = [pc |-> "idle", listing |-> None, todo |-> {}]
  /\ steady' = FALSE
  /\ UNCHANGED <<tables, docker, backup, export, changes, historyVars>>

-----------------------------------------------------------------------------
(* Export and import *)

ExportGroups ==
  /\ export.pc = "idle"
  /\ export' = [pc |-> "containers", groups |-> groups, items |-> {}, torn |-> {}]
  /\ UNCHANGED <<tables, docker, backup, page, changes, steady, historyVars>>

ExportContainers ==
  /\ export.pc = "containers"
  /\ export' = [export EXCEPT !.pc = "schedules", !.items = items]
  /\ UNCHANGED <<tables, docker, backup, page, changes, steady, historyVars>>

ExportSchedules ==
  /\ export.pc = "schedules"
  /\ backup' = [groups |-> export.groups, items |-> export.items, schedule |-> schedule,
                torn |-> export.torn]
  /\ export' = [pc |-> "idle", groups |-> None, items |-> {}, torn |-> {}]
  /\ UNCHANGED <<tables, docker, page, changes, steady, historyVars>>

\* The forms opened so far stay open when all rows are replaced.
OldForms == {[id |-> f.id, group |-> f.group, old |-> TRUE] : f \in shown}

RestoredFrom(b) ==
  /\ groups' = b.groups /\ items' = b.items /\ schedule' = b.schedule
  /\ shown' = OldForms \cup
       {[id |-> g, group |-> b.groups[g], old |-> FALSE] : g \in {h \in GroupIds : Has(b.groups, h)}}
  /\ steady' = FALSE
  /\ tornIn' = tornIn \cup b.torn
  /\ exposed' = (exposed \/ (b.schedule # None /\ b.schedule.target > groupSeq'))
  /\ UNCHANGED <<born, page>>

\* Seeded fault: the restored rows do not move the sequences on.
ImportKeepsSequences ==
  /\ backup # None
  /\ Write("import")
  /\ UNCHANGED <<groupSeq, itemSeq>>
  /\ RestoredFrom(backup)

\* import_configuration: one transaction without foreign keys, rows under the ids
\* of the file.
Import ==
  /\ backup # None
  /\ Write("import")
  /\ groupSeq' = Higher(groupSeq, Highest({g \in GroupIds : Has(backup.groups, g)}))
  /\ itemSeq' = Higher(itemSeq, Highest({i.id : i \in backup.items}))
  /\ RestoredFrom(backup)

\* The application is installed anew; the file of the backup is what is left, and
\* the forms that browsers have open.
Reinstall ==
  /\ groups' = [g \in GroupIds |-> None] /\ items' = {} /\ schedule' = None
  /\ groupSeq' = 0 /\ itemSeq' = 0
  /\ export' = [pc |-> "idle", groups |-> None, items |-> {}, torn |-> {}]
  /\ page' = [pc |-> "idle", listing |-> None, todo |-> {}]
  /\ shown' = OldForms /\ steady' = FALSE
  /\ UNCHANGED <<docker, backup, changes, born, tornIn, exposed>>

\* A container is created, removed, renamed, or created anew under its name.
DockerChanges(n, id) ==
  /\ changes < MaxChanges /\ changes' = changes + 1
  /\ docker' = [m \in Names |-> IF m = n THEN id ELSE IF docker[m] = id THEN None ELSE docker[m]]
  /\ steady' = FALSE
  /\ UNCHANGED <<tables, backup, export, page, historyVars>>

Next ==
  \/ \E selection \in Selections, listing \in Listings :
       \/ CreateGroup(selection, listing)
       \/ \E g \in GroupIds : UpdateGroup(g, selection, listing)
  \/ \E g \in GroupIds : DeleteGroup(g)
  \/ \E choice \in shown : SaveSchedule(choice)
  \/ DeleteSchedule
  \/ ListContainers \/ ListGroups \/ (\E t \in page.todo : SetName(t)) \/ Rendered
  \/ ExportGroups \/ ExportContainers \/ ExportSchedules \/ Import
  \/ Reinstall
  \/ \E n \in Names, id \in Ids \cup {None} : DockerChanges(n, id)

Spec == Init /\ [][Next]_vars

-----------------------------------------------------------------------------
(* Properties *)

Items == [id : Nat, group : GroupIds, cid : Refs, name : Refs \cup {None}]

TypeOK ==
  /\ groups \in [GroupIds -> Nat \cup {None}] /\ items \subseteq Items
  /\ \A i, j \in items : i.id = j.id => i = j
  /\ \A g \in Present : g <= groupSeq /\ groups[g] <= born
  /\ \A i \in items : i.id <= itemSeq
  /\ schedule # None => schedule.target \in GroupIds /\ schedule.chosen \in 1 .. born
  /\ docker \in [Names -> Ids \cup {None}]
  /\ export.pc \in {"idle", "containers", "schedules"}
  /\ page.pc \in {"idle", "groups", "enrich"} /\ changes \in 0 .. MaxChanges

\* A container row without a group, and a schedule without one, come from a backup
\* that was written into while it was exported - or the schedule was saved by a
\* form opened before the group was deleted, as create_schedule does not look.
ReferencesHold ==
  tornIn = {} =>
    /\ \A i \in items : Has(groups, i.group)
    /\ schedule # None => schedule.late \/ Has(groups, schedule.target)

\* A schedule never comes to control another group than the one chosen for it,
\* whatever is deleted, created and restored, unless it was restored without its
\* group where that group's id had never been given, or from a backup amid whose
\* export another one was restored, or saved by a form opened before an import or a
\* new installation: the id such a form sends is taken for that of today's group.
SchedulesKeepTheirGroup ==
  schedule # None /\ ~ schedule.old /\ Has(groups, schedule.target) /\ ~ exposed /\ "import" \notin tornIn
    => groups[schedule.target] = schedule.chosen

\* The form of a group, sent as it was opened, drops no container that a run of the
\* group would act on, whether Docker answered or not - unless the group has it
\* under its id, as a form does that was sent while the container was missing.
UntouchedFormKeepsGroup ==
  \A g \in Present, listing \in Listings :
    LET Kept == {Denotes(ref) : ref \in Checked(listing, g)}
    IN  \A i \in ItemsOf(g) : i.name \notin Ids /\ Denotes(RefOf(i)) # None => Denotes(RefOf(i)) \in Kept

\* Looking at a page changes the name of rows, never the container a run will act
\* on, even when the rows were replaced since the page read them - unless a
\* container was renamed or a backup restored meanwhile.
PagesChangeNoTarget ==
  [][steady /\ steady' /\ page'.todo # page.todo /\ items' # items =>
       {<<i.id, Denotes(RefOf(i))>> : i \in items} = {<<i.id, Denotes(RefOf(i))>> : i \in items'}]_vars
=============================================================================
