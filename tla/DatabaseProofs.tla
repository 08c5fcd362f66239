--------------------------- MODULE DatabaseProofs ---------------------------
(***************************************************************************)
(* Proofs of the safety of Database, and that it implements Upgrade, for   *)
(* any number of versions, statements, stops, writes and imports.          *)
(***************************************************************************)
EXTENDS Database, FiniteSetTheorems, TLAPS

Migrating == {"backup", "copying", "schema", "profile", "link", "record", "commit"}

Typed ==
  /\ db \in Contents /\ main \in Contents /\ (tx # None => tx \in Contents)
  /\ pc \in Migrating \cup {"stopped", "defaults", "serving"}
  /\ version \in 0 .. Last /\ importing \in {"idle", "copying", "replacing"}
  /\ copy # None => copy \in Contents
  /\ copy # None <=> pc = "copying" \/ importing = "copying"
  /\ stops \in 0 .. MaxStops /\ writes \in 0 .. MaxWrites

\* The versions recorded are the first ones, and their schema is there.
Ordered ==
  /\ Current(db) \in 0 .. Last /\ db.versions = 1 .. Current(db)
  /\ \A v \in db.versions : ObjectsOf(v) \subseteq db.schema

\* What each place of init_db knows of the version and the database.
Located ==
  /\ pc \in Migrating => version = Current(db) + 1
  /\ pc \in {"profile", "link", "record", "commit"} => ObjectsOf(version) \subseteq db.schema
  /\ pc \in {"defaults", "serving"} => Current(db) = Last
  /\ importing # "idle" => pc = "serving" /\ writes < MaxWrites

Carries == version = Last /\ db.profiles = 0 /\ db.configured

\* What the transaction would commit, and where there is one.
Pending ==
  /\ pc \notin {"link", "record", "commit"} => tx = None
  /\ pc \in {"profile", "link"} => Carries
  /\ pc = "record" => (tx # None <=> Carries)
  /\ tx # None =>
       /\ tx.schema = db.schema /\ tx.configured = db.configured
       /\ tx.versions = IF pc = "commit" THEN db.versions \cup {version} ELSE db.versions
       /\ IF Carries THEN tx.profiles = 1 /\ (pc # "link" => tx.linked = TRUE)
                     ELSE tx.profiles = db.profiles /\ tx.linked = db.linked
  /\ pc \in {"link", "commit"} => tx # None

\* Before the first change: the database is as it was, and a migration that is
\* due has not begun.  After it there is a copy.
CopiedFirst ==
  whole =>
    \/ \E b \in backups : Holds(b, original)
    \/ /\ db.schema = original.schema /\ db.versions = original.versions
       /\ Current(db) < Last =>
            /\ db = original /\ main = original
            /\ pc \in {"stopped", "backup", "copying"}
            /\ pc = "copying" => copy = original

\* An import over a quiet database has it copied.
ImportCopies ==
  quiet =>
    /\ importing = "copying" => main = db /\ copy = db
    /\ importing = "replacing" => \E b \in backups : Holds(b, db)

IInv == Typed /\ Ordered /\ Located /\ Pending /\ CopiedFirst /\ ImportCopies

-----------------------------------------------------------------------------
(* Versions *)

\* The current version is the last one recorded.
LEMMA CurrentIs ==
  ASSUME NEW c, NEW n \in Nat, c.versions = 1 .. n
  PROVE  Current(c) = n
<1>1. CASE n = 0
  BY <1>1 DEF Current
<1>2. CASE n > 0
  <2>1. n \in c.versions /\ \A w \in c.versions : w <= n
    BY <1>2
  <2>2. \A v \in c.versions : (\A w \in c.versions : w <= v) => v = n
    BY <2>1
  <2> QED
    BY <2>1, <2>2 DEF Current
<1> QED
  BY <1>1, <1>2

LEMMA SameVersions ==
  ASSUME NEW c, NEW d, c.versions = d.versions
  PROVE  Current(c) = Current(d)
BY DEF Current

LEMMA ObjectsAreThere ==
  ASSUME NEW v \in 1 .. Last
  PROVE  ObjectsOf(v) \subseteq Objects
BY VersionAssumption DEF ObjectsOf, Objects

\* What the user writes touches neither schema nor versions.
LEMMA WrittenIs ==
  ASSUME Typed, writes < MaxWrites, NEW c \in Written(db)
  PROVE  c \in Contents /\ c.schema = db.schema /\ c.versions = db.versions
<1> USE BoundAssumption DEF Typed, Contents
<1>1. PICK n \in {0, 1} :
        c = [db EXCEPT !.data = writes + 2, !.profiles = n, !.linked = db.linked /\ n = 1]
  BY DEF Written
<1>2. writes + 2 \in 0 .. MaxWrites + 1 /\ n \in Nat
  OBVIOUS
<1>3. (db.linked /\ n = 1) \in BOOLEAN
  OBVIOUS
<1>4. c.schema = db.schema /\ c.versions = db.versions /\ c.configured = db.configured
  BY <1>1
<1>5. c \in Contents
  BY <1>1, <1>2, <1>3
<1> QED
  BY <1>4, <1>5

-----------------------------------------------------------------------------
(* Steps that leave the database alone *)

\* Only a statement, a commit, a write and an import change what is committed.
LEMMA StepOfDb ==
  ASSUME [Next]_vars
  PROVE  \/ db' = db
         \/ \E o \in Objects : Create(o)
         \/ CommitMigration \/ Write \/ ImportReplaces
BY DEF Next, InitDb, Start, Backup, BackedUp, SchemaDone, InsertProfile, LinkProfile, RecordVersion,
       EnsureDefaults, Checkpoint, Import, BeginImport, ImportCopied, ImportFails, Stop, Rest, vars

-----------------------------------------------------------------------------
(* Types *)

LEMMA InitTyped == Init => Typed
<1> SUFFICES ASSUME Init PROVE Typed
  OBVIOUS
<1> USE VersionAssumption, BoundAssumption
<1>1. db \in Contents
  <2>1. db \in [schema : SUBSET Objects, versions : {1 .. v : v \in 0 .. Last},
               configured : BOOLEAN, profiles : {0, 1}, linked : {FALSE}, data : {1}]
    BY DEF Init
  <2>2. {1 .. v : v \in 0 .. Last} \subseteq SUBSET (1 .. Last)
    OBVIOUS
  <2>3. {1} \subseteq 0 .. MaxWrites + 1 /\ {0, 1} \subseteq Nat
    OBVIOUS
  <2> QED
    BY <2>1, <2>2, <2>3 DEF Contents
<1>2. main \in Contents
  BY <1>1 DEF Init, Contents
<1> QED
  BY <1>1, <1>2 DEF Init, Typed

LEMMA StepTyped ==
  ASSUME Typed, Ordered, Located, Pending, [Next]_vars
  PROVE  Typed'
<1> USE VersionAssumption, BoundAssumption, NoneAssumption
    DEF Typed, Migrating, startVars, boundVars, historyVars, BeginCopy, EndCopy
<1>1. CASE Start
  BY <1>1 DEF Start, Ordered, Located
<1>2. CASE Backup
  BY <1>2 DEF Backup, Located
<1>3. CASE BackedUp
  BY <1>3 DEF BackedUp, Located
<1>4. ASSUME NEW o \in Objects, Create(o) PROVE Typed'
  <2>1. db' \in Contents
    BY <1>4 DEF Create, Contents
  <2> QED
    BY <1>4, <2>1 DEF Create
<1>5. CASE SchemaDone
  BY <1>5 DEF SchemaDone, Located
<1>6. CASE InsertProfile
  <2>1. tx' \in Contents
    BY <1>6 DEF InsertProfile, Contents
  <2> QED
    BY <1>6, <2>1 DEF InsertProfile, Located
<1>7. CASE LinkProfile
  <2>1. tx' \in Contents
    BY <1>7 DEF LinkProfile, Contents, Pending
  <2> QED
    BY <1>7, <2>1 DEF LinkProfile, Located
<1>8. CASE RecordVersion
  <2>1. version \in 1 .. Last
    BY <1>8 DEF RecordVersion, Ordered, Located
  <2>2. \A c \in Contents : Recorded(c) \in Contents
    BY <2>1 DEF Recorded, Contents
  <2>3. tx' \in Contents
    BY <1>8, <2>2 DEF RecordVersion
  <2> QED
    BY <1>8, <2>3 DEF RecordVersion, Located
<1>9. CASE CommitMigration
  BY <1>9 DEF CommitMigration, Located, Pending
<1>10. CASE EnsureDefaults
  BY <1>10 DEF EnsureDefaults, Located
<1>11. CASE Write
  BY <1>11, WrittenIs DEF Write
<1>12. CASE Checkpoint
  BY <1>12 DEF Checkpoint
<1>13. CASE BeginImport
  BY <1>13 DEF BeginImport
<1>14. CASE ImportCopied
  BY <1>14 DEF ImportCopied, Located
<1>15. CASE ImportReplaces
  BY <1>15, WrittenIs DEF ImportReplaces, Located
<1>16. CASE ImportFails
  BY <1>16 DEF ImportFails, Located
<1>17. CASE Stop
  BY <1>17 DEF Stop
<1>18. CASE UNCHANGED vars
  BY <1>18 DEF vars
<1> QED
  BY <1>1, <1>2, <1>3, <1>4, <1>5, <1>6, <1>7, <1>8, <1>9, <1>10, <1>11,
     <1>12, <1>13, <1>14, <1>15, <1>16, <1>17, <1>18 DEF Next, InitDb, Import, Rest

-----------------------------------------------------------------------------
(* Versions are recorded in order, with their schema *)

LEMMA InitOrdered == Init => Ordered
<1> SUFFICES ASSUME Init PROVE Ordered
  OBVIOUS
<1>1. PICK n \in 0 .. Last : db.versions = 1 .. n
  BY VersionAssumption DEF Init
<1>2. Current(db) = n
  BY <1>1, CurrentIs
<1>3. n > 0 => db.schema = UNION {ObjectsOf(v) : v \in db.versions}
  BY <1>2 DEF Init
<1> QED
  BY <1>1, <1>2, <1>3, VersionAssumption DEF Ordered

LEMMA StepOrdered ==
  ASSUME Typed, Ordered, Located, Pending, [Next]_vars
  PROVE  Ordered'
<1>1. ASSUME db'.versions = db.versions, db.schema \subseteq db'.schema PROVE Ordered'
  <2>1. Current(db') = Current(db)
    BY <1>1, SameVersions
  <2> QED
    BY <1>1, <2>1 DEF Ordered
<1>2. ASSUME NEW o \in Objects, Create(o) PROVE Ordered'
  BY <1>1, <1>2 DEF Create, Typed, Contents
<1>3. CASE Write \/ ImportReplaces
  BY <1>1, <1>3, WrittenIs, BoundAssumption DEF Write, ImportReplaces, Typed, Located
<1>4. CASE CommitMigration
  <2>1. /\ version = Current(db) + 1 /\ ObjectsOf(version) \subseteq db.schema
        /\ db'.schema = db.schema /\ db'.versions = db.versions \cup {version}
    BY <1>4 DEF CommitMigration, Located, Pending, Migrating
  <2>2. db'.versions = 1 .. version /\ version \in 0 .. Last
    BY <2>1, VersionAssumption DEF Ordered, Typed
  <2>3. Current(db') = version
    BY <2>2, CurrentIs, VersionAssumption
  <2> QED
    BY <2>1, <2>2, <2>3 DEF Ordered
<1>5. CASE db' = db
  BY <1>1, <1>5
<1> QED
  BY <1>2, <1>3, <1>4, <1>5, StepOfDb

-----------------------------------------------------------------------------
(* The places of init_db *)

LEMMA InitLocated == Init => Located /\ Pending
BY DEF Init, Located, Pending, Migrating

LEMMA StepLocated ==
  ASSUME Typed, Ordered, Located, Pending, [Next]_vars
  PROVE  Located'
<1> USE VersionAssumption, BoundAssumption
    DEF Typed, Located, Migrating, startVars, boundVars, historyVars
<1>1. ASSUME UNCHANGED <<db, version, importing, writes>>, pc' = pc PROVE Located'
  BY <1>1
<1>2. CASE Start
  BY <1>2 DEF Start, Ordered
<1>3. CASE Backup \/ BackedUp
  BY <1>3 DEF Backup, BackedUp, EndCopy
<1>4. ASSUME NEW o \in Objects, Create(o) PROVE Located'
  <2>1. db'.versions = db.versions
    BY <1>4 DEF Create, Contents
  <2>2. Current(db') = Current(db)
    BY <2>1, SameVersions
  <2> QED
    BY <1>4, <2>2 DEF Create
<1>5. CASE SchemaDone
  BY <1>5 DEF SchemaDone, Missing
<1>6. CASE InsertProfile \/ LinkProfile \/ RecordVersion
  BY <1>6 DEF InsertProfile, LinkProfile, RecordVersion
<1>7. CASE CommitMigration
  <2>1. db'.versions = db.versions \cup {version}
    BY <1>7 DEF CommitMigration, Pending
  <2>2. db'.versions = 1 .. version
    BY <1>7, <2>1 DEF CommitMigration, Ordered
  <2>3. Current(db') = version
    BY <2>2, CurrentIs
  <2> QED
    BY <1>7, <2>3 DEF CommitMigration
<1>8. CASE EnsureDefaults
  BY <1>8 DEF EnsureDefaults
<1>9. CASE Write \/ ImportReplaces
  <2>1. db'.versions = db.versions
    BY <1>9, WrittenIs DEF Write, ImportReplaces
  <2>2. Current(db') = Current(db)
    BY <2>1, SameVersions
  <2> QED
    BY <1>9, <2>2 DEF Write, ImportReplaces
<1>10. CASE Checkpoint
  BY <1>10 DEF Checkpoint
<1>11. CASE BeginImport \/ ImportCopied \/ ImportFails
  BY <1>11 DEF BeginImport, ImportCopied, ImportFails
<1>12. CASE Stop
  BY <1>12 DEF Stop
<1>13. CASE UNCHANGED vars
  BY <1>13 DEF vars
<1> QED
  BY <1>2, <1>3, <1>4, <1>5, <1>6, <1>7, <1>8, <1>9, <1>10, <1>11, <1>12, <1>13
     DEF Next, InitDb, Import, Rest

\* Nothing but the migration opens a transaction, and nothing else changes the
\* database while it is open.
LEMMA StepPending ==
  ASSUME Typed, Ordered, Located, Pending, [Next]_vars
  PROVE  Pending'
<1> USE NoneAssumption DEF Typed, Located, Migrating, Pending, Carries, startVars, boundVars, historyVars
<1>1. CASE Start \/ Backup \/ BackedUp
  BY <1>1 DEF Start, Backup, BackedUp
<1>2. ASSUME NEW o \in Objects, Create(o) PROVE Pending'
  BY <1>2 DEF Create
<1>3. CASE SchemaDone
  BY <1>3 DEF SchemaDone
<1>4. CASE InsertProfile
  <2>1. /\ tx'.schema = db.schema /\ tx'.configured = db.configured
        /\ tx'.versions = db.versions /\ tx'.profiles = 1
    BY <1>4 DEF InsertProfile, Contents
  <2>2. tx' # None
    <3>1. tx' \in Contents
      BY <1>4 DEF InsertProfile, Contents
    <3> QED
      BY <3>1
  <2> QED
    BY <1>4, <2>1, <2>2 DEF InsertProfile
<1>5. CASE LinkProfile
  <2>1. /\ tx'.schema = tx.schema /\ tx'.configured = tx.configured
        /\ tx'.versions = tx.versions /\ tx'.profiles = tx.profiles /\ tx'.linked = TRUE
    BY <1>5 DEF LinkProfile, Contents
  <2>2. tx' # None
    <3>1. tx' \in Contents
      BY <1>5 DEF LinkProfile, Contents
    <3> QED
      BY <3>1
  <2> QED
    BY <1>5, <2>1, <2>2 DEF LinkProfile
<1>6. CASE RecordVersion
  <2> DEFINE base == IF tx = None THEN db ELSE tx
  <2>1. base \in Contents /\ tx' = Recorded(base)
    BY <1>6 DEF RecordVersion
  <2>2. version \in 1 .. Last
    BY <1>6, VersionAssumption DEF RecordVersion, Ordered
  <2>3. /\ tx'.schema = base.schema /\ tx'.configured = base.configured
        /\ tx'.versions = base.versions \cup {version}
        /\ tx'.profiles = base.profiles /\ tx'.linked = base.linked
        /\ tx' \in Contents
    BY <2>1, <2>2 DEF Recorded, Contents
  <2>4. tx' # None
    BY <2>3
  <2> QED
    BY <1>6, <2>3, <2>4 DEF RecordVersion
<1>7. CASE CommitMigration
  BY <1>7 DEF CommitMigration
<1>8. CASE EnsureDefaults
  BY <1>8 DEF EnsureDefaults
<1>9. CASE Write \/ ImportReplaces
  BY <1>9 DEF Write, ImportReplaces
<1>10. CASE Checkpoint
  BY <1>10 DEF Checkpoint
<1>11. CASE BeginImport \/ ImportCopied \/ ImportFails
  BY <1>11 DEF BeginImport, ImportCopied, ImportFails
<1>12. CASE Stop
  BY <1>12 DEF Stop
<1>13. CASE UNCHANGED vars
  BY <1>13 DEF vars
<1> QED
  BY <1>1, <1>2, <1>3, <1>4, <1>5, <1>6, <1>7, <1>8, <1>9, <1>10, <1>11, <1>12, <1>13
     DEF Next, InitDb, Import, Rest

-----------------------------------------------------------------------------
(* The copies *)

LEMMA InitCopied == Init => CopiedFirst /\ ImportCopies
BY DEF Init, CopiedFirst, ImportCopies

\* A copy that is complete stays in backups/.
LEMMA BackupsStay ==
  ASSUME [Next]_vars
  PROVE  backups \subseteq backups'
BY DEF Next, InitDb, Start, Backup, BackedUp, EndCopy, SchemaDone, InsertProfile, LinkProfile,
       RecordVersion, CommitMigration, EnsureDefaults, Create, Write, Checkpoint, Import,
       BeginImport, ImportCopied, ImportReplaces, ImportFails, Stop, Rest, vars

LEMMA StepCopied ==
  ASSUME Typed, Ordered, Located, Pending, CopiedFirst, [Next]_vars
  PROVE  CopiedFirst'
<1>1. whole' = whole /\ original' = original
  BY DEF Next, InitDb, Start, Backup, BackedUp, SchemaDone, InsertProfile, LinkProfile,
         RecordVersion, CommitMigration, EnsureDefaults, Create, Write, Checkpoint, Import,
         BeginImport, ImportCopied, ImportReplaces, ImportFails, Stop, Rest, vars, historyVars
<1>2. CASE \E b \in backups : Holds(b, original)
  BY <1>1, <1>2, BackupsStay DEF CopiedFirst, Holds
<1>3. CASE ~ whole
  BY <1>1, <1>3 DEF CopiedFirst
<1>4. CASE Current(db) = Last /\ whole /\ ~ \E b \in backups : Holds(b, original)
  <2>1. db'.schema = db.schema /\ db'.versions = db.versions
    <3>1. pc \notin Migrating
      <4>1. pc \in Migrating => version = Last + 1
        BY <1>4 DEF Located
      <4>2. version \in 0 .. Last
        BY DEF Typed
      <4> QED
        BY <4>1, <4>2, VersionAssumption
    <3>2. ~ CommitMigration /\ \A o \in Objects : ~ Create(o)
      BY <3>1 DEF CommitMigration, Create, Migrating
    <3>3. Write \/ ImportReplaces => writes < MaxWrites /\ db' \in Written(db)
      BY BoundAssumption DEF Write, ImportReplaces, Located, Typed
    <3> QED
      BY <3>2, <3>3, StepOfDb, WrittenIs
  <2>2. Current(db') = Last
    BY <1>4, <2>1, SameVersions
  <2> QED
    BY <1>1, <1>4, <2>1, <2>2, VersionAssumption DEF CopiedFirst
<1>5. CASE Current(db) < Last /\ whole /\ ~ \E b \in backups : Holds(b, original)
  <2>1. /\ db = original /\ main = original /\ pc \in {"stopped", "backup", "copying"}
        /\ pc = "copying" => copy = original
    BY <1>5 DEF CopiedFirst
  <2>2. CASE BackedUp
    <3> DEFINE new == [first |-> copy, last |-> main]
    <3>1. new \in backups' /\ new.first = original /\ new.last = original
      BY <2>1, <2>2 DEF BackedUp, EndCopy
    <3> QED
      BY <1>1, <3>1 DEF CopiedFirst, Holds
  <2>3. ASSUME UNCHANGED <<db, main>>, pc' \in {"stopped", "backup", "copying"},
               pc' = "copying" => copy' = original
        PROVE  CopiedFirst'
    BY <1>1, <2>1, <2>3 DEF CopiedFirst
  <2>4. CASE Start \/ Backup \/ Stop \/ UNCHANGED vars
    BY <1>5, <2>1, <2>3, <2>4, VersionAssumption
       DEF Start, Backup, BeginCopy, Stop, vars, startVars, Ordered
  <2>5. importing = "idle" /\ pc # "serving"
    BY <2>1 DEF Located, Typed
  <2>6. \/ BackedUp \/ Start \/ Backup \/ Stop \/ UNCHANGED vars
    BY <2>1, <2>5 DEF Next, InitDb, SchemaDone, InsertProfile, LinkProfile, RecordVersion,
                  CommitMigration, EnsureDefaults, Create, Write, Checkpoint, Import, BeginImport,
                  ImportCopied, ImportReplaces, ImportFails, Rest
  <2> QED
    BY <2>2, <2>4, <2>6
<1> QED
  BY <1>2, <1>3, <1>4, <1>5, VersionAssumption DEF Ordered

LEMMA StepImportCopies ==
  ASSUME Typed, Located, ImportCopies, [Next]_vars
  PROVE  ImportCopies'
<1> USE DEF ImportCopies, historyVars, boundVars, startVars
<1>1. ASSUME UNCHANGED <<db, main, copy, importing, quiet>> PROVE ImportCopies'
  BY <1>1, BackupsStay
<1>2. CASE ~ quiet' \/ importing' = "idle"
  BY <1>2
<1>3. CASE BeginImport
  BY <1>3 DEF BeginImport, BeginCopy
<1>4. CASE ImportCopied
  <2> SUFFICES ASSUME quiet PROVE \E b \in backups' : Holds(b, db)
    BY <1>4 DEF ImportCopied, Holds
  <2> DEFINE new == [first |-> copy, last |-> main]
  <2>1. new \in backups' /\ new.first = db /\ new.last = db
    BY <1>4 DEF ImportCopied, EndCopy
  <2> QED
    BY <2>1 DEF Holds
<1>5. CASE Write \/ Checkpoint \/ ImportReplaces \/ ImportFails \/ Stop
  BY <1>2, <1>5 DEF Write, Checkpoint, ImportReplaces, ImportFails, Stop
<1>6. CASE UNCHANGED vars
  BY <1>1, <1>6 DEF vars
<1>7. CASE InitDb
  <2>1. importing' = importing
    BY <1>7 DEF InitDb, Start, Backup, BackedUp, SchemaDone, InsertProfile, LinkProfile,
                RecordVersion, CommitMigration, EnsureDefaults, Create
  <2>2. pc # "serving"
    BY <1>7 DEF InitDb, Start, Backup, BackedUp, SchemaDone, InsertProfile, LinkProfile,
                RecordVersion, CommitMigration, EnsureDefaults, Create
  <2> QED
    BY <1>2, <2>1, <2>2 DEF Located
<1> QED
  BY <1>3, <1>4, <1>5, <1>6, <1>7 DEF Next, Import, Rest

LEMMA Inductive == Spec => []IInv
<1>1. Init => IInv
  BY InitTyped, InitOrdered, InitLocated, InitCopied DEF IInv
<1>2. IInv /\ [Next]_vars => IInv'
  BY StepTyped, StepOrdered, StepLocated, StepPending, StepCopied, StepImportCopies DEF IInv
<1> QED
  BY <1>1, <1>2, PTL DEF Spec

-----------------------------------------------------------------------------
(* The theorems *)

\* The database, its file, the transaction and the places of init_db and of the
\* import keep their types, for any number of versions and statements.
THEOREM DatabaseTypeCorrect == Spec => []TypeOK
<1>1. IInv => TypeOK
  BY DEF IInv, Typed, Migrating, TypeOK
<1> QED
  BY <1>1, Inductive, PTL

\* A version that is recorded is there with its schema and with all versions
\* before it, wherever and however often the process was stopped.
THEOREM VersionsAreThere == Spec => []RecordedIsThere
<1>1. IInv => RecordedIsThere
  <2> SUFFICES ASSUME IInv, NEW v \in db.versions, NEW w \in 1 .. v
               PROVE  w \in db.versions /\ ObjectsOf(w) \subseteq db.schema
    BY DEF RecordedIsThere
  <2>1. w \in db.versions
    BY VersionAssumption DEF IInv, Ordered
  <2> QED
    BY <2>1 DEF IInv, Ordered
<1> QED
  BY <1>1, Inductive, PTL

\* No start has changed a database of which backups/ does not hold a copy, unless
\* its file was behind the write-ahead log from the beginning.
THEOREM NoChangeWithoutCopy == Spec => []BackedUpBeforeChange
<1>1. IInv => BackedUpBeforeChange
  BY DEF IInv, CopiedFirst, BackedUpBeforeChange
<1> QED
  BY <1>1, Inductive, PTL

\* An import that nobody disturbs replaces only what backups/ holds a copy of.
THEOREM ImportsAreCopied == Spec => ImportLeavesCopy
<1>1. IInv /\ [Next]_vars
        => [importing = "replacing" /\ db' # db /\ quiet => \E b \in backups : Holds(b, db)]_vars
  BY DEF IInv, ImportCopies
<1> QED
  BY <1>1, Inductive, PTL DEF Spec, ImportLeavesCopy

-----------------------------------------------------------------------------
(* The refinement *)

LEMMA InitUpgrades == Init => Versions!Init
<1> SUFFICES ASSUME Init PROVE Versions!Init
  OBVIOUS
<1>1. Typed /\ Ordered
  BY InitTyped, InitOrdered
<1>2. /\ db.configured \in BOOLEAN /\ db.linked = FALSE /\ db.profiles \in Nat
      /\ Current(db) < Last => db.profiles = 0
  BY <1>1 DEF Init, Typed, Contents
<1> QED
  BY <1>1, <1>2 DEF Versions!Init, Ordered

LEMMA NextUpgrades ==
  ASSUME IInv, IInv', [Next]_vars
  PROVE  [Versions!Next]_(Versions!vars)
<1> USE DEF IInv
<1>1. ASSUME db'.versions = db.versions, db'.configured = db.configured,
             db'.profiles = db.profiles, db'.linked = db.linked
      PROVE  UNCHANGED Versions!vars
  BY <1>1, SameVersions DEF Versions!vars
<1>2. CASE db' = db
  BY <1>1, <1>2
<1>3. ASSUME NEW o \in Objects, Create(o) PROVE UNCHANGED Versions!vars
  BY <1>1, <1>3 DEF Create, Typed, Contents
<1>4. CASE CommitMigration
  <2>1. /\ version = Current(db) + 1 /\ db' = tx /\ tx # None /\ pc = "commit"
        /\ db'.configured = db.configured /\ db'.versions = db.versions \cup {version}
    BY <1>4 DEF CommitMigration, Located, Pending, Migrating
  <2>2. Current(db') = version /\ version \in 0 .. Last
    <3>1. db.versions = 1 .. Current(db) /\ Current(db) \in Nat /\ version \in 0 .. Last
      BY VersionAssumption DEF Ordered, Typed
    <3>2. db'.versions = 1 .. version
      BY <2>1, <3>1
    <3> QED
      BY <3>1, <3>2, CurrentIs
  <2>3. IF Carries THEN db'.profiles = 1 /\ db'.linked = TRUE
                   ELSE db'.profiles = db.profiles /\ db'.linked = db.linked
    BY <2>1 DEF Pending
  <2>4. Versions!Migrate
    BY <2>1, <2>2, <2>3, VersionAssumption
       DEF Versions!Migrate, Versions!CarryOver, Carries, Ordered
  <2> QED
    BY <2>4 DEF Versions!Next
<1>5. CASE Write \/ ImportReplaces
  <2>1. db' \in Contents /\ db'.versions = db.versions
    BY <1>5, WrittenIs, BoundAssumption DEF Write, ImportReplaces, Located, Typed
  <2>2. Current(db') = Last /\ Current(db) = Last
    BY <1>5, <2>1, SameVersions DEF Write, ImportReplaces, Located
  <2>3. Versions!Use
    BY <2>1, <2>2 DEF Versions!Use, Contents
  <2> QED
    BY <2>3 DEF Versions!Next
<1> QED
  BY <1>2, <1>3, <1>4, <1>5, StepOfDb

\* With any number of statements, stops, writes and imports, init_db does what
\* Upgrade promises.
THEOREM UpgradesAsPromised == Spec => ImplementsUpgrade
<1>1. IInv /\ IInv' /\ [Next]_vars => [Versions!Next]_(Versions!vars)
  BY NextUpgrades
<1> QED
  BY <1>1, Inductive, InitUpgrades, PTL DEF Spec, ImplementsUpgrade, Versions!Spec

-----------------------------------------------------------------------------
(* Towards StartCompletes *)

\* The steps of one version, at most, and of all versions after v.
Round == Size + 6
Ahead(v) == (Last - v) * Round

\* How many steps init_db has before it at most.
StepsLeft ==
  CASE pc = "stopped" -> Ahead(0) + 3
    [] pc = "backup" -> Ahead(version) + Size + 8
    [] pc = "copying" -> Ahead(version) + Size + 7
    [] pc = "schema" -> Ahead(version) + Cardinality(Missing) + 6
    [] pc = "profile" -> Ahead(version) + 5
    [] pc = "link" -> Ahead(version) + 4
    [] pc = "record" -> Ahead(version) + 3
    [] pc = "commit" -> Ahead(version) + 2
    [] pc = "defaults" -> 1
    [] OTHER -> 0

LEMMA OneRoundLess ==
  ASSUME NEW n \in Nat \ {0}, NEW k \in Nat
  PROVE  n * k \in Nat /\ (n - 1) * k \in Nat /\ (n - 1) * k = n * k - k
OBVIOUS

LEMMA NoMoreRounds ==
  ASSUME NEW m \in Nat, NEW n \in Nat, m <= n, NEW k \in Nat
  PROVE  m * k \in Nat /\ n * k \in Nat /\ m * k <= n * k
<1> DEFINE d == n - m
<1>1. d \in Nat /\ n = m + d
  OBVIOUS
<1>2. m * k \in Nat /\ d * k \in Nat
  BY <1>1
<1> HIDE DEF d
<1>3. (m + d) * k = m * k + d * k
  BY <1>1
<1>4. n * k = m * k + d * k
  BY <1>1, <1>3
<1> QED
  BY <1>2, <1>4

LEMMA AheadIs ==
  ASSUME NEW v \in 0 .. Last
  PROVE  /\ Round \in Nat /\ Ahead(v) \in Nat /\ Ahead(0) \in Nat
         /\ v > 0 => Ahead(v) <= Ahead(0) - Round
         /\ v < Last => Ahead(v + 1) = Ahead(v) - Round
<1>1. Round \in Nat /\ Last \in Nat \ {0}
  BY VersionAssumption DEF Round
<1>2. Ahead(v) \in Nat /\ Ahead(0) \in Nat
  <2>1. Last - v \in Nat /\ Last - 0 \in Nat
    BY <1>1
  <2> QED
    BY <1>1, <2>1, NoMoreRounds DEF Ahead
<1>3. ASSUME v < Last PROVE Ahead(v + 1) = Ahead(v) - Round
  <2>1. Last - v \in Nat \ {0} /\ Last - (v + 1) = (Last - v) - 1
    BY <1>1, <1>3
  <2> QED
    BY <1>1, <2>1, OneRoundLess DEF Ahead
<1>4. ASSUME v > 0 PROVE Ahead(v) <= Ahead(0) - Round
  <2>1. Last - v \in Nat /\ Last - 1 \in Nat /\ Last - v <= Last - 1
    BY <1>1, <1>4
  <2>2. (Last - v) * Round <= (Last - 1) * Round
    BY <1>1, <2>1, NoMoreRounds
  <2>3. (Last - 1) * Round = Last * Round - Round
    BY <1>1, OneRoundLess
  <2>4. Last - 0 = Last
    BY <1>1
  <2>5. Ahead(0) = Last * Round
    BY <2>4 DEF Ahead
  <2> QED
    BY <2>2, <2>3, <2>5 DEF Ahead
<1> QED
  BY <1>1, <1>2, <1>3, <1>4

\* A version lacks at most all of its objects, and one less once one is created.
LEMMA MissingAre ==
  ASSUME NEW S, NEW v
  PROVE  /\ Cardinality(ObjectsOf(v) \ S) \in 0 .. Size
         /\ ObjectsOf(v) \subseteq S => Cardinality(ObjectsOf(v) \ S) = 0
         /\ \A o \in ObjectsOf(v) \ S :
               Cardinality(ObjectsOf(v) \ (S \cup {o})) = Cardinality(ObjectsOf(v) \ S) - 1
<1>1. IsFiniteSet({v}) /\ Cardinality({v}) = 1
  BY FS_Singleton
<1>2. IsFiniteSet(1 .. Size) /\ Cardinality(1 .. Size) = Size /\ Size \in Nat
  BY VersionAssumption, FS_Interval
<1>3. IsFiniteSet(ObjectsOf(v)) /\ Cardinality(ObjectsOf(v)) = Size
  <2>1. /\ IsFiniteSet({v} \X (1 .. Size))
        /\ Cardinality({v} \X (1 .. Size)) = Cardinality({v}) * Cardinality(1 .. Size)
    BY <1>1, <1>2, FS_Product
  <2>2. Cardinality({v}) * Cardinality(1 .. Size) = 1 * Size
    BY <1>1, <1>2
  <2> QED
    BY <1>2, <2>1, <2>2 DEF ObjectsOf
<1>4. ObjectsOf(v) \ S \in SUBSET ObjectsOf(v)
  OBVIOUS
<1>5. IsFiniteSet(ObjectsOf(v) \ S) /\ Cardinality(ObjectsOf(v) \ S) <= Size
  BY <1>3, <1>4, FS_Subset
<1>6. Cardinality(ObjectsOf(v) \ S) \in 0 .. Size
  BY <1>2, <1>5, FS_CardinalityType
<1>7. ASSUME ObjectsOf(v) \subseteq S PROVE Cardinality(ObjectsOf(v) \ S) = 0
  <2>1. ObjectsOf(v) \ S = {}
    BY <1>7
  <2> QED
    BY <2>1, FS_EmptySet
<1>8. ASSUME NEW o \in ObjectsOf(v) \ S
      PROVE  Cardinality(ObjectsOf(v) \ (S \cup {o})) = Cardinality(ObjectsOf(v) \ S) - 1
  <2>1. ObjectsOf(v) \ (S \cup {o}) = (ObjectsOf(v) \ S) \ {o}
    OBVIOUS
  <2> QED
    BY <1>5, <2>1, FS_RemoveElement
<1> QED
  BY <1>6, <1>7, <1>8

LEMMA StartCounts ==
  ASSUME IInv, IInv', InitDb
  PROVE  StepsLeft' < StepsLeft
<1> USE VersionAssumption DEF StepsLeft
<1>1. /\ version \in 0 .. Last /\ (pc \in Migrating => version > 0)
      /\ Current(db) \in 0 .. Last /\ db \in Contents
  BY DEF IInv, Typed, Ordered, Located
<1>2. Round \in Nat /\ Ahead(version) \in Nat /\ Ahead(0) \in Nat /\ Round = Size + 6
  BY <1>1, AheadIs DEF Round
<1>3. Cardinality(Missing) \in 0 .. Size /\ (Missing = {} => Cardinality(Missing) = 0)
  BY MissingAre DEF Missing
<1>4. CASE Start
  <2>1. CASE Current(db) < Last
    <3>1. Ahead(version') <= Ahead(0) - Round /\ Ahead(version') \in Nat
      BY <1>1, <1>4, <2>1, AheadIs DEF Start
    <3> QED
      BY <1>2, <1>4, <2>1, <3>1 DEF Start
  <2>2. CASE ~ (Current(db) < Last)
    BY <1>2, <1>4, <2>2 DEF Start
  <2> QED
    BY <2>1, <2>2
<1>5. CASE Backup \/ InsertProfile \/ LinkProfile \/ RecordVersion \/ EnsureDefaults
  BY <1>2, <1>5 DEF Backup, InsertProfile, LinkProfile, RecordVersion, EnsureDefaults
<1>6. CASE BackedUp
  <2>1. Cardinality(Missing)' = Cardinality(Missing)
    BY <1>6 DEF BackedUp, Missing
  <2> QED
    BY <1>2, <1>3, <1>6, <2>1 DEF BackedUp
<1>7. CASE SchemaDone
  BY <1>2, <1>3, <1>7 DEF SchemaDone
<1>8. ASSUME NEW o \in Objects, Create(o) PROVE StepsLeft' < StepsLeft
  <2>1. /\ pc = "schema" /\ UNCHANGED <<pc, version>> /\ o \in Missing
        /\ db'.schema = db.schema \cup {o}
    BY <1>1, <1>8 DEF Create, startVars, Contents
  <2>2. Cardinality(Missing)' = Cardinality(Missing) - 1
    BY <2>1, MissingAre DEF Missing
  <2> QED
    BY <1>2, <1>3, <2>1, <2>2
<1>9. CASE CommitMigration
  <2>1. CASE version < Last
    <3>1. /\ pc = "commit" /\ pc' = "schema" /\ version' = version + 1
      BY <1>9, <2>1 DEF CommitMigration
    <3>2. Ahead(version') = Ahead(version) - Round
      BY <1>1, <2>1, <3>1, AheadIs
    <3>3. Cardinality(Missing)' \in 0 .. Size
      BY MissingAre DEF Missing
    <3>4. Ahead(version') \in Nat
      BY <1>1, <2>1, <3>1, AheadIs
    <3> QED
      BY <1>2, <3>1, <3>2, <3>3, <3>4
  <2>2. CASE ~ (version < Last)
    BY <1>2, <1>9, <2>2 DEF CommitMigration
  <2> QED
    BY <2>1, <2>2
<1> QED
  BY <1>4, <1>5, <1>6, <1>7, <1>8, <1>9 DEF InitDb

\* However many versions and statements, and whatever an earlier start has left: a
\* start is over after a bounded number of steps, each of which brings it closer to
\* its end, and only a stop - of which there are MaxStops - sends it back.
THEOREM StartsAreBounded ==
  Spec => /\ [](StepsLeft \in 0 .. Ahead(0) + 3)
          /\ [][IF InitDb THEN StepsLeft' < StepsLeft
                          ELSE StepsLeft' = StepsLeft \/ stops' = stops + 1]_vars
<1>1. IInv => StepsLeft \in 0 .. Ahead(0) + 3
  <2> SUFFICES ASSUME IInv PROVE StepsLeft \in 0 .. Ahead(0) + 3
    OBVIOUS
  <2>1. /\ version \in 0 .. Last /\ (pc \in Migrating => version > 0)
        /\ pc \in Migrating \cup {"stopped", "defaults", "serving"}
    BY DEF IInv, Typed, Ordered, Located
  <2>2. /\ Ahead(version) \in Nat /\ Ahead(0) \in Nat /\ Size \in Nat
        /\ version > 0 => Ahead(version) <= Ahead(0) - (Size + 6)
    BY <2>1, AheadIs, VersionAssumption DEF Round
  <2>3. Cardinality(Missing) \in 0 .. Size
    BY MissingAre DEF Missing
  <2> QED
    BY <2>1, <2>2, <2>3 DEF StepsLeft, Migrating
<1>2. IInv /\ IInv' /\ [Next]_vars
        => [IF InitDb THEN StepsLeft' < StepsLeft
                      ELSE StepsLeft' = StepsLeft \/ stops' = stops + 1]_vars
  <2>1. ASSUME IInv, IInv', InitDb PROVE StepsLeft' < StepsLeft
    BY <2>1, StartCounts
  <2>2. ASSUME IInv, Write \/ Checkpoint \/ Import \/ Rest PROVE StepsLeft' = StepsLeft
    <3>1. pc = "serving" /\ pc' = "serving"
      BY <2>2 DEF Write, Checkpoint, Import, BeginImport, ImportCopied, ImportReplaces, ImportFails,
                  Rest, vars, startVars, IInv, Located
    <3> QED
      BY <3>1 DEF StepsLeft
  <2>3. ASSUME Stop PROVE stops' = stops + 1
    BY <2>3 DEF Stop
  <2> QED
    BY <2>1, <2>2, <2>3 DEF Next
<1> QED
  BY <1>1, <1>2, Inductive, PTL DEF Spec
=============================================================================
