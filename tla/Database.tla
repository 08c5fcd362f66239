------------------------------ MODULE Database ------------------------------
(***************************************************************************)
(* init_db of app/database.py with its migrations and backup, and the      *)
(* backup and transaction of import_configuration.  The process may be     *)
(* stopped between any two statements.  SQLite commits DDL and the         *)
(* statements of executescript at once; the rows a migration writes wait   *)
(* for the end of its "with conn".  In WAL mode what is committed reaches  *)
(* the database file only with a checkpoint, at the latest when the last   *)
(* connection is closed: the file that a backup copies may be behind.      *)
(* Two backups are taken to be more than a second apart (their names).     *)
(***************************************************************************)
EXTENDS Naturals, FiniteSets

CONSTANTS
  Last,      \* SCHEMA_VERSION
  Size,      \* DDL statements of a migration
  None,      \* no transaction, or the rest of a copy that was cut off
  MaxStops,  \* bound: how often the process is stopped
  MaxWrites  \* bound: how often the user writes or imports

ASSUME VersionAssumption == Last \in Nat \ {0} /\ Size \in Nat \ {0}
ASSUME BoundAssumption == MaxStops \in Nat /\ MaxWrites \in Nat

Objects == (1 .. Last) \X (1 .. Size)
ObjectsOf(v) == {v} \X (1 .. Size)

\* What the database holds; data counts the writes of the user.
Contents ==
  [schema : SUBSET Objects, versions : SUBSET (1 .. Last), configured : BOOLEAN,
   profiles : Nat, linked : BOOLEAN, data : 0 .. MaxWrites + 1]

ASSUME NoneAssumption == None \notin Contents

VARIABLES
  db,        \* what is committed
  main,      \* what the database file holds
  tx,        \* what the open transaction would commit, or None
  pc,        \* the place in init_db; "serving" after it
  version,   \* the migration in progress
  copy,      \* what has been copied so far, or None
  backups,   \* the files in backups/: first and last part
  importing, \* import_configuration: idle, copying, replacing
  stops, writes,
  original,  \* history: the database before the first start
  whole,     \* history: its file held all of it
  quiet      \* history: nothing was written or checkpointed since the import began

startVars == <<pc, version>>
boundVars == <<stops, writes>>
historyVars == <<original, whole, quiet>>
vars == <<db, main, tx, startVars, copy, backups, importing, boundVars, historyVars>>

Current(c) == IF c.versions = {} THEN 0 ELSE CHOOSE v \in c.versions : \A w \in c.versions : w <= v

\* The database an older release has left: no version recorded with whatever of
\* the base tables and columns it had, or the schema of a version.  Its file may
\* lack the last write.
Init ==
  /\ db \in {c \in [schema : SUBSET Objects, versions : {1 .. v : v \in 0 .. Last},
                    configured : BOOLEAN, profiles : {0, 1}, linked : {FALSE}, data : {1}] :
               /\ Current(c) = 0 => c.schema \subseteq ObjectsOf(1)
               /\ Current(c) > 0 => c.schema = UNION {ObjectsOf(v) : v \in c.versions}
               /\ Current(c) < Last => c.profiles = 0
               /\ c.configured => c.schema # {}}
  /\ main \in {db, [db EXCEPT !.data = 0]}
  /\ tx = None /\ pc = "stopped" /\ version = 0
  /\ copy = None /\ backups = {} /\ importing = "idle"
  /\ stops = 0 /\ writes = 0
  /\ original = db /\ whole = (main = db) /\ quiet = TRUE

-----------------------------------------------------------------------------
(* The backup *)

\* shutil.copy2 of the database file, whoever writes to it meanwhile.
BeginCopy == copy' = main
EndCopy == backups' = backups \cup {[first |-> copy, last |-> main]} /\ copy' = None

Holds(b, c) == b.first = c /\ b.last = c

-----------------------------------------------------------------------------
(* init_db *)

\* The ledger is created if need be, and the version read.  The connection stays
\* open beyond the backup.
Start ==
  /\ pc = "stopped"
  /\ IF Current(db) < Last
       THEN pc' = "backup" /\ version' = Current(db) + 1
       ELSE pc' = "defaults" /\ version' = Last
  /\ UNCHANGED <<db, main, tx, copy, backups, importing, boundVars, historyVars>>

\* Seeded fault: the start goes on without a copy.
BackupLater ==
  /\ pc = "backup"
  /\ pc' = "schema"
  /\ UNCHANGED <<db, main, tx, version, copy, backups, importing, boundVars, historyVars>>

Backup ==
  /\ pc = "backup"
  /\ BeginCopy
  /\ pc' = "copying"
  /\ UNCHANGED <<db, main, tx, version, backups, importing, boundVars, historyVars>>

BackedUp ==
  /\ pc = "copying"
  /\ EndCopy
  /\ pc' = "schema"
  /\ UNCHANGED <<db, main, tx, version, importing, boundVars, historyVars>>

Missing == ObjectsOf(version) \ db.schema

\* CREATE TABLE IF NOT EXISTS or _ensure_column, in the order of the script.
Create(o) ==
  /\ pc = "schema" /\ o \in Missing /\ \A p \in Missing : o[2] <= p[2]
  /\ db' = [db EXCEPT !.schema = @ \cup {o}]
  /\ UNCHANGED <<main, tx, startVars, copy, backups, importing, boundVars, historyVars>>

SchemaDone ==
  /\ pc = "schema" /\ Missing = {}
  /\ pc' = IF version = Last /\ db.profiles = 0 /\ db.configured THEN "profile" ELSE "record"
  /\ UNCHANGED <<db, main, tx, version, copy, backups, importing, boundVars, historyVars>>

\* Seeded fault: the statement commits on its own.
InsertProfileAtOnce ==
  /\ pc = "profile"
  /\ db' = [db EXCEPT !.profiles = 1]
  /\ tx' = db'
  /\ pc' = "link"
  /\ UNCHANGED <<main, version, copy, backups, importing, boundVars, historyVars>>

\* The legacy NAS settings become the profile "Default NAS" ...
InsertProfile ==
  /\ pc = "profile"
  /\ tx' = [db EXCEPT !.profiles = 1]
  /\ pc' = "link"
  /\ UNCHANGED <<db, main, version, copy, backups, importing, boundVars, historyVars>>

\* ... of every group and schedule that requires the NAS.
LinkProfile ==
  /\ pc = "link"
  /\ tx' = [tx EXCEPT !.linked = TRUE]
  /\ pc' = "record"
  /\ UNCHANGED <<db, main, version, copy, backups, importing, boundVars, historyVars>>

\* Seeded fault: the version is recorded as the last one at once.
RecordedLast(c) == [c EXCEPT !.versions = 1 .. Last]

Recorded(c) == [c EXCEPT !.versions = @ \cup {version}]

RecordVersion ==
  /\ pc = "record"
  /\ tx' = IF tx = None THEN Recorded(db) ELSE Recorded(tx)
  /\ pc' = "commit"
  /\ UNCHANGED <<db, main, version, copy, backups, importing, boundVars, historyVars>>

\* Seeded fault: the connection is closed without a commit.
ForgetCommit ==
  /\ pc = "commit"
  /\ tx' = None
  /\ IF version < Last
       THEN pc' = "schema" /\ version' = version + 1
       ELSE pc' = "defaults" /\ UNCHANGED version
  /\ UNCHANGED <<db, main, copy, backups, importing, boundVars, historyVars>>

CommitMigration ==
  /\ pc = "commit"
  /\ db' = tx /\ tx' = None
  /\ IF version < Last
       THEN pc' = "schema" /\ version' = version + 1
       ELSE pc' = "defaults" /\ UNCHANGED version
  /\ UNCHANGED <<main, copy, backups, importing, boundVars, historyVars>>

\* _ensure_default_settings adds what is missing, and the last connection closes.
EnsureDefaults ==
  /\ pc = "defaults"
  /\ pc' = "serving"
  /\ main' = db
  /\ UNCHANGED <<db, tx, version, copy, backups, importing, boundVars, historyVars>>

InitDb ==
  \/ Start \/ Backup \/ BackedUp \/ SchemaDone \/ InsertProfile \/ LinkProfile
  \/ RecordVersion \/ CommitMigration \/ EnsureDefaults
  \/ \E o \in Objects : Create(o)

-----------------------------------------------------------------------------
(* While the application serves *)

\* Something changes, the profile may be deleted or created among the rest; the
\* deletion of a profile takes its links with it.
Written(c) ==
  {[c EXCEPT !.data = writes + 2, !.profiles = n, !.linked = @ /\ n = 1] : n \in {0, 1}}

\* Any other handler or thread: edits, runs, checks.
Write ==
  /\ pc = "serving" /\ writes + 1 < MaxWrites
  /\ db' \in Written(db)
  /\ writes' = writes + 1
  /\ quiet' = FALSE
  /\ UNCHANGED <<main, tx, startVars, copy, backups, importing, stops, original, whole>>

\* The last connection closes, or the log is long enough.
Checkpoint ==
  /\ pc = "serving" /\ main # db
  /\ main' = db
  /\ quiet' = FALSE
  /\ UNCHANGED <<db, tx, startVars, copy, backups, importing, boundVars, original, whole>>

\* import_configuration, once the payload is valid ...
BeginImport ==
  /\ pc = "serving" /\ importing = "idle" /\ writes < MaxWrites
  /\ BeginCopy
  /\ importing' = "copying"
  /\ quiet' = (main = db)
  /\ UNCHANGED <<db, main, tx, startVars, backups, boundVars, original, whole>>

\* Seeded fault: the rows are replaced while they are copied.
ImportOverCopy ==
  /\ importing = "copying"
  /\ importing' = "replacing" /\ copy' = None
  /\ UNCHANGED <<db, main, tx, startVars, backups, boundVars, historyVars>>

ImportCopied ==
  /\ importing = "copying"
  /\ EndCopy
  /\ importing' = "replacing"
  /\ UNCHANGED <<db, main, tx, startVars, boundVars, historyVars>>

\* ... replaces everything in one transaction, or fails at a row and changes nothing.
ImportReplaces ==
  /\ importing = "replacing"
  /\ db' \in Written(db)
  /\ writes' = writes + 1
  /\ importing' = "idle"
  /\ UNCHANGED <<main, tx, startVars, copy, backups, stops, historyVars>>

ImportFails ==
  /\ importing = "replacing"
  /\ importing' = "idle"
  /\ UNCHANGED <<db, main, tx, startVars, copy, backups, boundVars, historyVars>>

\* An open transaction is lost; what is committed is not, and stays where it is.  A
\* copy that is cut off stays in backups/, too.
Stop ==
  /\ pc # "stopped" /\ stops < MaxStops
  /\ stops' = stops + 1
  /\ pc' = "stopped" /\ version' = 0
  /\ tx' = None /\ importing' = "idle" /\ copy' = None
  /\ backups' = IF copy = None THEN backups ELSE backups \cup {[first |-> copy, last |-> None]}
  /\ UNCHANGED <<db, main, writes, historyVars>>

Import == BeginImport \/ ImportCopied \/ ImportReplaces \/ ImportFails

Rest == pc = "serving" /\ UNCHANGED vars

Next == InitDb \/ Write \/ Checkpoint \/ Import \/ Stop \/ Rest

Spec == Init /\ [][Next]_vars

\* init_db goes on, and the process is not stopped for ever (MaxStops).
FairSpec == Spec /\ WF_vars(InitDb)

-----------------------------------------------------------------------------
(* Properties *)

TypeOK ==
  /\ db \in Contents /\ main \in Contents /\ (tx # None => tx \in Contents)
  /\ pc \in {"stopped", "backup", "copying", "schema", "profile", "link", "record", "commit", "defaults", "serving"}
  /\ version \in 0 .. Last /\ importing \in {"idle", "copying", "replacing"}
  /\ copy # None <=> pc = "copying" \/ importing = "copying"
  /\ stops \in 0 .. MaxStops /\ writes \in 0 .. MaxWrites

\* docs/ARCHITECTURE.md:36, "Schema changes use explicit ordered migrations": a
\* version is recorded only when the schema of that version and of all before it
\* is there, wherever the process was stopped.
RecordedIsThere ==
  \A v \in db.versions : \A w \in 1 .. v : w \in db.versions /\ ObjectsOf(w) \subseteq db.schema

\* README.md:76, "Before a pending migration is applied, the current database is
\* backed up": as soon as a start has changed the database, a complete copy of
\* what it was is in backups/ - if its file was not behind the log to begin with.
BackedUpBeforeChange ==
  whole /\ (db.schema # original.schema \/ db.versions # original.versions)
    => \E b \in backups : Holds(b, original)

\* An import leaves a copy of what it replaces, if nobody writes and nothing is
\* checkpointed while it runs.
ImportLeavesCopy ==
  [][importing = "replacing" /\ db' # db /\ quiet => \E b \in backups : Holds(b, db)]_vars

Versions == INSTANCE Upgrade WITH
  version <- Current(db), configured <- db.configured,
  profiles <- db.profiles, linked <- db.linked

\* The statements, transactions and restarts amount to the upgrade of Upgrade.
ImplementsUpgrade == Versions!Spec

\* A start completes at the last version, whatever an earlier one has left.
StartCompletes == <>(pc = "serving" /\ Current(db) = Last)
=============================================================================
