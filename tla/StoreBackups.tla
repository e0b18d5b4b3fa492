---------------------------- MODULE StoreBackups ----------------------------
(***************************************************************************)
(* Schema migrations, backup sets and restores of a data directory.        *)
(*                                                                         *)
(* A data directory is an SQLite database and the content-addressed files  *)
(* its content_object rows name.  Operators migrate it to the schema of    *)
(* the installed release, back it up into a new directory, restore a set   *)
(* into a new directory and make a restored directory the active one,      *)
(* while evidence is still saved.  Migrations, backups and evidence take   *)
(* the writer lease, a restore does not.  A process may die at any step,   *)
(* releases are installed and withdrawn, and a file may go bad.            *)
(*                                                                         *)
(* Abstractions: a database is the number of its applied migrations, the   *)
(* contents it names and the backup sets it records; a digest is its       *)
(* content; temporary and staging directories have unique names and are    *)
(* visible to nobody else, so they are state of the process.               *)
(***************************************************************************)
EXTENDS Integers, FiniteSets

CONSTANTS
    Process,
    Content,
    Dir,             \* paths of backup sets and restored directories
    Packaged,        \* number of migrations of the newest release
    ContentVersion,  \* the migration that creates content_object
    BackupDir,       \* whether backup_dir is configured
    MaxCrashes, MaxRot, MaxInstalls,  \* bounds on faults and releases
    None

ASSUME StoreAssumption ==
    /\ Packaged \in Nat \ {0}
    /\ ContentVersion \in 1 .. Packaged
    /\ BackupDir \in BOOLEAN
    /\ {MaxCrashes, MaxRot, MaxInstalls} \subseteq Nat
    /\ None \notin Dir \cup Content \cup Process

VARIABLES
    release,  \* number of migrations the installed release packages
    db,       \* the active database
    cas,      \* the files of the active data directory
    dirs,     \* the published backup sets and restored directories
    proc,     \* what each process is doing
    writer,   \* the holder of writer.lock
    rotted,   \* history: the files that went bad, and where
    crashes, installs

bounds == <<crashes, installs>>
vars == <<release, db, cas, dirs, proc, writer, rotted, crashes, installs>>

Versions == 0 .. Packaged
Releases == ContentVersion .. Packaged
Database == [exists : BOOLEAN, applied : Versions, refs : SUBSET Content,
             sets : SUBSET Dir]
Health   == {"absent", "good", "bad"}
Set      == [db : Database, manifest : SUBSET Content,
             objects : [Content -> Health]]

ASSUME NoneAssumption == None \notin Set

NoDatabase == [exists |-> FALSE, applied |-> 0, refs |-> {}, sets |-> {}]
NoObjects  == [c \in Content |-> "absent"]
Idle == [pc |-> "idle", goal |-> None, target |-> None, source |-> None,
         record |-> FALSE, staged |-> None, content |-> None]

Steps == {"idle", "put", "migrate", "apply", "snapshot", "copy", "verify",
          "publish", "record", "open"}
ProcessRecord == [pc : Steps, goal : Dir \cup {None}, target : Dir \cup {None},
                  source : Dir \cup {None}, record : BOOLEAN,
                  staged : Set \cup {None}, content : Content \cup {None}]

TypeOK ==
    /\ release \in Releases
    /\ db \in Database
    /\ db.refs # {} => db.applied >= ContentVersion
    /\ cas \in [Content -> Health]
    /\ dirs \in [Dir -> Set \cup {None}]
    /\ proc \in [Process -> ProcessRecord]
    /\ writer \in Process \cup {None}
    /\ crashes \in 0 .. MaxCrashes /\ installs \in 0 .. MaxInstalls

Init ==
    /\ release \in Releases
    /\ db = NoDatabase /\ cas = NoObjects
    /\ dirs = [d \in Dir |-> None]
    /\ proc = [p \in Process |-> Idle]
    /\ writer = None /\ rotted = {}
    /\ crashes = 0 /\ installs = 0

-----------------------------------------------------------------------------
(* Leaving an operation: the staging directory is removed, the lease       *)
(* released.                                                               *)
Leave(p) ==
    /\ proc' = [proc EXCEPT ![p] = Idle]
    /\ writer' = IF writer = p THEN None ELSE writer

(* _referenced_content needs the table.                                    *)
Listable(database) == database.applied >= ContentVersion

-----------------------------------------------------------------------------
(* Mutant: the row is written before the file.                             *)
StoredLater(c) == cas

(* put_stream publishes the file, or keeps the one that is there.          *)
Stored(c) == [cas EXCEPT ![c] = "good"]

(* Evidence: the file first, then the row.  An existing file is verified.  *)
Put(p, c) ==
    /\ writer = None /\ proc[p].pc = "idle"
    /\ Listable(db)
    /\ cas[c] # "bad"
    /\ cas' = Stored(c)
    /\ proc' = [proc EXCEPT ![p].pc = "put", ![p].content = c]
    /\ writer' = p
    /\ UNCHANGED <<release, db, dirs, rotted, bounds>>

InsertRow(p) ==
    /\ proc[p].pc = "put"
    /\ db' = [db EXCEPT !.refs = @ \cup {proc[p].content}]
    /\ Leave(p)
    /\ UNCHANGED <<release, cas, dirs, rotted, bounds>>

-----------------------------------------------------------------------------
(* migrate, alone or as the first step of a backup into goal.              *)

BeginMigrate(p, goal) ==
    /\ writer = None /\ proc[p].pc = "idle"
    /\ proc' = [proc EXCEPT ![p].pc = "migrate", ![p].goal = goal]
    /\ writer' = p
    /\ UNCHANGED <<release, db, cas, dirs, rotted, bounds>>

Pending == db.applied < release

(* Mutant: any set will do for a backup.                                   *)
NeedsBackupOnce == /\ db.exists /\ Pending
                   /\ \A d \in Dir : dirs[d] = None

NeedsBackup == db.exists /\ Pending

(* validate: an applied migration the release does not package is an       *)
(* error; a pending one asks for a backup directory.                       *)
MigrateRefused(p) ==
    /\ proc[p].pc = "migrate"
    /\ db.applied > release \/ (NeedsBackup /\ ~BackupDir)
    /\ Leave(p)
    /\ UNCHANGED <<release, db, cas, dirs, rotted, bounds>>

(* create_pre_migration_backup chooses a name of its own.                  *)
PreMigrationBackup(p, d) ==
    /\ proc[p].pc = "migrate"
    /\ db.applied <= release /\ NeedsBackup /\ BackupDir
    /\ dirs[d] = None
    /\ \A q \in Process : d \notin {proc[q].goal, proc[q].target}
    /\ proc' = [proc EXCEPT ![p].pc = "snapshot", ![p].target = d,
                            ![p].record = FALSE]
    /\ UNCHANGED <<release, db, cas, dirs, writer, rotted, bounds>>

(* MigrationRunner.migrate opens the database and makes its ledger.        *)
OpenLedger(p) ==
    /\ proc[p].pc = "migrate"
    /\ db.applied <= release /\ ~NeedsBackup
    /\ db' = [db EXCEPT !.exists = TRUE]
    /\ proc' = [proc EXCEPT ![p].pc = "apply"]
    /\ UNCHANGED <<release, cas, dirs, writer, rotted, bounds>>

(* One transaction per migration, with its ledger row.                     *)
ApplyOne(p) ==
    /\ proc[p].pc = "apply"
    /\ Pending
    /\ db' = [db EXCEPT !.applied = @ + 1]
    /\ UNCHANGED <<release, cas, dirs, proc, writer, rotted, bounds>>

(* A command ends here; a backup goes on to its target.                    *)
Migrated(p) ==
    /\ proc[p].pc = "apply"
    /\ ~Pending
    /\ IF proc[p].goal = None
       THEN Leave(p)
       ELSE /\ proc' = [proc EXCEPT ![p].pc = "snapshot", ![p].record = TRUE,
                                    ![p].target = proc[p].goal,
                                    ![p].goal = None]
            /\ UNCHANGED writer
    /\ UNCHANGED <<release, db, cas, dirs, rotted, bounds>>

-----------------------------------------------------------------------------
(* _create_backup_set.                                                     *)

Snapshot(p) ==
    /\ proc[p].pc = "snapshot"
    /\ dirs[proc[p].target] = None
    /\ Listable(db)
    /\ proc' = [proc EXCEPT ![p].pc = "copy",
                  ![p].staged = [db |-> db, manifest |-> db.refs,
                                 objects |-> NoObjects]]
    /\ UNCHANGED <<release, db, cas, dirs, writer, rotted, bounds>>

(* The target exists, or the copy has no content_object table: an error    *)
(* of SQLite, which migrate does not catch.                                *)
SnapshotFails(p) ==
    /\ proc[p].pc = "snapshot"
    /\ dirs[proc[p].target] # None \/ ~Listable(db)
    /\ Leave(p)
    /\ UNCHANGED <<release, db, cas, dirs, rotted, bounds>>

(* Mutant: a file is not read, only looked for.                            *)
VerifiesPresent(health) == health # "absent"

(* ArtifactStore.verify                                                    *)
Verifies(health) == health = "good"

(* The files a copy reads: of the active directory, or of the set that is  *)
(* restored.                                                               *)
Source(p) == IF proc[p].source = None THEN cas ELSE dirs[proc[p].source].objects

(* The contents that are not yet copied.                                   *)
Missing(p) ==
    {c \in proc[p].staged.manifest : proc[p].staged.objects[c] = "absent"}

(* A backup verifies each file before it is copied, a restore after all.   *)
CopyObject(p, c) ==
    /\ proc[p].pc = "copy"
    /\ c \in Missing(p)
    /\ Source(p)[c] # "absent"
    /\ proc[p].source = None => Verifies(Source(p)[c])
    /\ proc' = [proc EXCEPT ![p].staged.objects[c] = Source(p)[c]]
    /\ UNCHANGED <<release, db, cas, dirs, writer, rotted, bounds>>

CopyFails(p, c) ==
    /\ proc[p].pc = "copy"
    /\ c \in Missing(p)
    /\ \/ Source(p)[c] = "absent"
       \/ proc[p].source = None /\ ~Verifies(Source(p)[c])
    /\ Leave(p)
    /\ UNCHANGED <<release, db, cas, dirs, rotted, bounds>>

Copied(p) == Missing(p) = {}

WriteManifest(p) ==
    /\ proc[p].pc = "copy"
    /\ Copied(p)
    /\ proc' = [proc EXCEPT ![p].pc = "verify"]
    /\ UNCHANGED <<release, db, cas, dirs, writer, rotted, bounds>>

(* verify_backup_set                                                       *)
Verified(set) ==
    /\ Listable(set.db)
    /\ set.manifest = set.db.refs
    /\ \A c \in set.manifest : Verifies(set.objects[c])

VerifyStaging(p) ==
    /\ proc[p].pc = "verify"
    /\ Verified(proc[p].staged)
    /\ proc' = [proc EXCEPT ![p].pc = "publish"]
    /\ UNCHANGED <<release, db, cas, dirs, writer, rotted, bounds>>

VerifyFails(p) ==
    /\ proc[p].pc = "verify"
    /\ ~Verified(proc[p].staged)
    /\ Leave(p)
    /\ UNCHANGED <<release, db, cas, dirs, rotted, bounds>>

(* os.replace of a directory: it fails when the target has come to exist.  *)
Publish(p) ==
    /\ proc[p].pc = "publish"
    /\ dirs[proc[p].target] = None
    /\ dirs' = [dirs EXCEPT ![proc[p].target] = proc[p].staged]
    /\ CASE proc[p].source # None -> Leave(p)
         [] proc[p].source = None /\ proc[p].record ->
              /\ proc' = [proc EXCEPT ![p].pc = "record", ![p].staged = None]
              /\ UNCHANGED writer
         [] OTHER ->
              /\ proc' = [proc EXCEPT ![p].pc = "open", ![p].target = None,
                                      ![p].staged = None]
              /\ UNCHANGED writer
    /\ UNCHANGED <<release, db, cas, rotted, bounds>>

PublishFails(p) ==
    /\ proc[p].pc = "publish"
    /\ dirs[proc[p].target] # None
    /\ Leave(p)
    /\ UNCHANGED <<release, db, cas, dirs, rotted, bounds>>

(* Mutant: the row is written before the directory is moved.               *)
RecordSetEarly(p) ==
    /\ proc[p].pc = "publish" /\ proc[p].record
    /\ db' = [db EXCEPT !.sets = @ \cup {proc[p].target}]
    /\ Leave(p)
    /\ UNCHANGED <<release, cas, dirs, rotted, bounds>>

(* _record_backup_set                                                      *)
RecordSet(p) ==
    /\ proc[p].pc = "record"
    /\ db' = [db EXCEPT !.sets = @ \cup {proc[p].target}]
    /\ Leave(p)
    /\ UNCHANGED <<release, cas, dirs, rotted, bounds>>

(* migrate goes on behind its backup.                                      *)
AfterBackup(p) ==
    /\ proc[p].pc = "open"
    /\ proc' = [proc EXCEPT ![p].pc = "apply"]
    /\ UNCHANGED <<release, db, cas, dirs, writer, rotted, bounds>>

-----------------------------------------------------------------------------
(* restore_backup_set, without the writer lease.                           *)

BeginRestore(p, from, to) ==
    /\ proc[p].pc = "idle"
    /\ dirs[from] # None
    /\ Verified(dirs[from])
    /\ dirs[to] = None
    /\ proc' = [proc EXCEPT ![p].pc = "copy", ![p].source = from,
                  ![p].target = to,
                  ![p].staged = [db |-> dirs[from].db,
                                 manifest |-> dirs[from].manifest,
                                 objects |-> NoObjects]]
    /\ UNCHANGED <<release, db, cas, dirs, writer, rotted, bounds>>

(* The operator makes a copy of a verified directory the data directory,   *)
(* while nothing runs.                                                     *)
Activate(d) ==
    /\ \A p \in Process : proc[p].pc = "idle"
    /\ dirs[d] # None
    /\ Verified(dirs[d])
    /\ db' = dirs[d].db
    /\ cas' = dirs[d].objects
    /\ UNCHANGED <<release, dirs, proc, writer, rotted, bounds>>

-----------------------------------------------------------------------------
(* The surroundings.                                                       *)

Install(r) ==
    /\ r # release
    /\ installs < MaxInstalls
    /\ \A p \in Process : proc[p].pc = "idle"
    /\ release' = r
    /\ installs' = installs + 1
    /\ UNCHANGED <<db, cas, dirs, proc, writer, rotted, crashes>>

Rot(c) ==
    /\ Cardinality(rotted) < MaxRot
    /\ cas[c] = "good"
    /\ cas' = [cas EXCEPT ![c] = "bad"]
    /\ rotted' = rotted \cup {<<None, c>>}
    /\ UNCHANGED <<release, db, dirs, proc, writer, bounds>>

RotIn(d, c) ==
    /\ Cardinality(rotted) < MaxRot
    /\ dirs[d] # None
    /\ dirs[d].objects[c] = "good"
    /\ dirs' = [dirs EXCEPT ![d].objects[c] = "bad"]
    /\ rotted' = rotted \cup {<<d, c>>}
    /\ UNCHANGED <<release, db, cas, proc, writer, bounds>>

Crash(p) ==
    /\ proc[p].pc # "idle"
    /\ crashes < MaxCrashes
    /\ crashes' = crashes + 1
    /\ Leave(p)
    /\ UNCHANGED <<release, db, cas, dirs, rotted, installs>>

-----------------------------------------------------------------------------
Migrate(p) ==
    \/ MigrateRefused(p) \/ OpenLedger(p) \/ ApplyOne(p) \/ Migrated(p)
    \/ AfterBackup(p) \/ \E d \in Dir : PreMigrationBackup(p, d)

BackUp(p) ==
    \/ Snapshot(p) \/ SnapshotFails(p) \/ WriteManifest(p) \/ VerifyStaging(p)
    \/ VerifyFails(p) \/ Publish(p) \/ PublishFails(p) \/ RecordSet(p)
    \/ \E c \in Content : CopyObject(p, c) \/ CopyFails(p, c)

Next ==
    \/ \E p \in Process :
         \/ \E c \in Content : Put(p, c)
         \/ InsertRow(p) \/ Migrate(p) \/ BackUp(p) \/ Crash(p)
         \/ \E d \in Dir \cup {None} : BeginMigrate(p, d)
         \/ \E from, to \in Dir : BeginRestore(p, from, to)
    \/ \E d \in Dir : Activate(d) \/ \E c \in Content : RotIn(d, c)
    \/ \E c \in Content : Rot(c)
    \/ \E r \in Releases : Install(r)

Spec == Init /\ [][Next]_vars

(* db migrate is run again until it succeeds, and its steps end.           *)
FairSpec ==
    /\ Spec
    /\ \A p \in Process :
         /\ SF_vars(BeginMigrate(p, None))
         /\ WF_vars(InsertRow(p) \/ Migrate(p) \/ BackUp(p))

-----------------------------------------------------------------------------
(* A directory that others can see is a whole backup set or a whole        *)
(* restored store: it has a file for every content its database names,     *)
(* and no file of it was already bad when it was published, whichever      *)
(* process died or found its source rotten on the way.                     *)
SetsAreComplete ==
    \A d \in Dir : dirs[d] # None =>
        /\ dirs[d].manifest = dirs[d].db.refs
        /\ \A c \in dirs[d].db.refs :
              /\ dirs[d].objects[c] # "absent"
              /\ dirs[d].objects[c] = "bad" => <<d, c>> \in rotted

(* The active database never names a content whose file does not exist,    *)
(* also after a death between file and row and after a switch to a store   *)
(* restored from a set that was made while evidence was being saved.       *)
RowsHaveObjects == \A c \in db.refs : cas[c] # "absent"

(* The rows of backup_set, which travel with the database into later sets  *)
(* and restores, name directories that were published.                     *)
RecordedSetsExist == \A d \in db.sets : dirs[d] # None

(* A set of exactly the present evidence, of a schema no newer.            *)
BackedUp == \E d \in Dir : /\ dirs[d] # None
                           /\ dirs[d].db.refs = db.refs
                           /\ dirs[d].db.applied <= db.applied

(* No migration touches a database with evidence before a set of exactly   *)
(* that evidence and of a schema no newer exists: "it does not alter the   *)
(* source database if that backup cannot be made".                         *)
MigrationsAreBackedUp ==
    [][(\E p \in Process : proc[p].pc = "apply")
          /\ db'.applied # db.applied /\ db.refs # {} => BackedUp]_vars

-----------------------------------------------------------------------------
(* What the proofs need besides.  r is what process p is doing.            *)

(* Who is in an operation that takes the lease has it, and what is about   *)
(* to get its row has its file.                                            *)
LeaseIsHeld(p, r) ==
    /\ r.pc # "idle" /\ r.source = None => writer = p
    /\ r.pc = "idle" => r = Idle
    /\ r.source # None => /\ r.pc \in {"copy", "verify", "publish"}
                          /\ dirs[r.source] # None
    /\ r.pc = "put" => /\ r.content # None
                       /\ cas[r.content] # "absent"
                       /\ Listable(db)

(* A staged copy has the manifest of its database and is whole before it   *)
(* is published; a snapshot is one of the present database.                *)
StagingIsSound(r) ==
    /\ r.pc \in {"snapshot", "copy", "verify", "publish", "record"} =>
          r.target # None
    /\ r.pc \in {"copy", "verify", "publish"} =>
          /\ r.staged # None /\ r.staged.db.exists
          /\ r.staged.manifest = r.staged.db.refs
          /\ r.source = None => r.staged.db = db
          /\ \A d \in r.staged.db.sets : dirs[d] # None
    /\ r.pc = "publish" => Verified(r.staged)
    /\ r.pc = "record" => dirs[r.target] # None

(* Migrations of a database with evidence start behind its backup.         *)
MigrationIsCovered(r) ==
    /\ r.pc \in {"open", "apply"} => db.exists
    /\ r.pc = "open" => BackedUp
    /\ r.pc = "apply" => db.refs = {} \/ ~Pending \/ BackedUp

ProcessIsSound(p, r) ==
    LeaseIsHeld(p, r) /\ StagingIsSound(r) /\ MigrationIsCovered(r)

(* The rows that travelled into sets and restored stores, and evidence     *)
(* only where there is a database.                                         *)
StoresAreSound ==
    /\ \A d \in Dir : dirs[d] # None =>
          /\ \A e \in dirs[d].db.sets : dirs[e] # None
          /\ dirs[d].db.exists
    /\ ~db.exists => db.refs = {} /\ db.applied = 0

IInv ==
    /\ TypeOK
    /\ SetsAreComplete
    /\ RowsHaveObjects
    /\ RecordedSetsExist
    /\ StoresAreSound
    /\ \A p \in Process : ProcessIsSound(p, proc[p])

-----------------------------------------------------------------------------
(* The bootstrap of a new store is exempt from the backup, so it gets to   *)
(* the schema of the release also when its first attempt was interrupted.  *)
BootstrapCompletes == <>(db.applied >= release)
=============================================================================
