------------------------ MODULE StoreBackups_proofs ------------------------
(***************************************************************************)
(* Proofs about migrations, backup sets and restores, for any number of    *)
(* processes, contents, directories, migrations and faults.                *)
(*                                                                         *)
(* IInv is inductive.  Most actions change only what one process is doing  *)
(* and the lease: ProcessStep shows once and for all that such a step      *)
(* keeps IInv when the process is sound afterwards.  The actions that      *)
(* change the database, the files or the published directories have a      *)
(* lemma each.                                                             *)
(***************************************************************************)
EXTENDS StoreBackups, TLAPS

(* The records a process starts from and returns to.                       *)
LEMMA IdleFacts ==
  /\ Idle \in ProcessRecord
  /\ Idle.pc = "idle" /\ Idle.source = None
  BY DEF Idle, ProcessRecord, Steps

(* What process p is doing, and that it is sound.                          *)
LEMMA ProcessFacts ==
  ASSUME IInv, NEW p \in Process
  PROVE  /\ proc[p] \in ProcessRecord /\ ProcessIsSound(p, proc[p])
         /\ writer \in Process \cup {None}
         /\ crashes \in 0 .. MaxCrashes
  BY DEF IInv, TypeOK

(* A step of one process that changes nothing but the lease besides.       *)
LEMMA ProcessStep ==
  ASSUME IInv, NEW p \in Process,
         proc' = [proc EXCEPT ![p] = proc'[p]],
         proc'[p] \in ProcessRecord,
         writer' \in Process \cup {None},
         \A q \in Process \ {p} : writer = q => writer' = q,
         UNCHANGED <<release, db, cas, dirs, rotted, installs>>,
         crashes' \in 0 .. MaxCrashes,
         ProcessIsSound(p, proc[p])'
  PROVE  IInv'
<1>1. TypeOK'
  BY DEF IInv, TypeOK
<1>2. SetsAreComplete' /\ RowsHaveObjects' /\ RecordedSetsExist' /\ StoresAreSound'
  BY DEF IInv, SetsAreComplete, RowsHaveObjects, RecordedSetsExist, StoresAreSound
<1>3. ASSUME NEW q \in Process PROVE ProcessIsSound(q, proc[q])'
  <2>1. CASE q = p
    BY <2>1
  <2>2. CASE q # p
    <3>1. proc'[q] = proc[q]
      BY <2>2 DEF IInv, TypeOK
    <3> QED BY <2>2, <3>1, ProcessFacts
            DEF ProcessIsSound, LeaseIsHeld, StagingIsSound, MigrationIsCovered,
                BackedUp, Pending, Listable, Verified
  <2> QED BY <2>1, <2>2
<1> QED BY <1>1, <1>2, <1>3 DEF IInv

(* An operation that ends, fails or dies keeps the invariant: its staging  *)
(* directory is gone and only its own lease is released.                   *)
LEMMA LeaveInv ==
  ASSUME IInv, NEW p \in Process, Leave(p),
         UNCHANGED <<release, db, cas, dirs, rotted, installs>>,
         crashes' \in 0 .. MaxCrashes
  PROVE  IInv'
<1>1. proc'[p] = Idle /\ proc' = [proc EXCEPT ![p] = proc'[p]]
  BY DEF Leave, IInv, TypeOK
<1>2. ProcessIsSound(p, proc[p])'
  BY <1>1 DEF Idle, ProcessIsSound, LeaseIsHeld, StagingIsSound,
              MigrationIsCovered
<1>3. /\ writer' \in Process \cup {None}
      /\ \A q \in Process \ {p} : writer = q => writer' = q
  BY DEF Leave, IInv, TypeOK
<1> QED BY <1>1, <1>2, <1>3, IdleFacts, ProcessStep

(* Taking the lease for a migration or a backup.                           *)
LEMMA BeginMigrateInv ==
  ASSUME IInv, NEW p \in Process, NEW d \in Dir \cup {None}, BeginMigrate(p, d)
  PROVE  IInv'
<1>1. proc[p] = Idle
  BY ProcessFacts DEF BeginMigrate, ProcessIsSound, LeaseIsHeld
<1>2. /\ proc' = [proc EXCEPT ![p] = proc'[p]]
      /\ proc'[p] = [Idle EXCEPT !.pc = "migrate", !.goal = d]
      /\ writer' = p /\ writer = None
      /\ UNCHANGED <<release, db, cas, dirs, rotted, crashes, installs>>
  BY <1>1 DEF BeginMigrate, bounds, IInv, TypeOK
<1>3. /\ proc'[p] \in ProcessRecord
      /\ proc'[p].pc = "migrate" /\ proc'[p].source = None
  BY <1>2 DEF ProcessRecord, Steps, Idle
<1>4. ProcessIsSound(p, proc[p])'
  BY <1>2, <1>3
     DEF ProcessIsSound, LeaseIsHeld, StagingIsSound, MigrationIsCovered
<1>5. \A q \in Process \ {p} : writer = q => writer' = q
  BY <1>2, StoreAssumption
<1> QED BY <1>2, <1>3, <1>4, <1>5, ProcessFacts, ProcessStep

(* The steps of migrate that leave the database alone.                     *)
LEMMA MigrateInv ==
  ASSUME IInv, NEW p \in Process,
         \/ \E d \in Dir : PreMigrationBackup(p, d)
         \/ Migrated(p) /\ proc[p].goal # None
         \/ AfterBackup(p)
  PROVE  IInv'
<1>1. ASSUME NEW d \in Dir, PreMigrationBackup(p, d) PROVE IInv'
  <2>1. /\ proc' = [proc EXCEPT ![p] = proc'[p]] /\ proc[p].pc = "migrate"
        /\ proc'[p] = [proc[p] EXCEPT !.pc = "snapshot", !.target = d,
                                      !.record = FALSE]
        /\ UNCHANGED <<release, db, cas, dirs, writer, rotted, crashes, installs>>
    BY <1>1 DEF PreMigrationBackup, bounds, IInv, TypeOK
  <2>2. /\ proc'[p] \in ProcessRecord
        /\ proc'[p].pc = "snapshot" /\ proc'[p].target = d
        /\ proc'[p].source = proc[p].source
    BY <2>1, ProcessFacts DEF ProcessRecord, Steps
  <2>3. ProcessIsSound(p, proc[p])'
    BY <2>1, <2>2, ProcessFacts, StoreAssumption
       DEF ProcessIsSound, LeaseIsHeld, StagingIsSound, MigrationIsCovered
  <2> QED BY <2>1, <2>2, <2>3, ProcessFacts, ProcessStep
<1>2. CASE Migrated(p) /\ proc[p].goal # None
  <2>1. /\ proc' = [proc EXCEPT ![p] = proc'[p]] /\ proc[p].pc = "apply"
        /\ proc'[p] = [proc[p] EXCEPT !.pc = "snapshot", !.record = TRUE,
                                      !.target = proc[p].goal, !.goal = None]
        /\ UNCHANGED <<release, db, cas, dirs, writer, rotted, crashes, installs>>
    BY <1>2 DEF Migrated, bounds, IInv, TypeOK
  <2>2. /\ proc'[p] \in ProcessRecord
        /\ proc'[p].pc = "snapshot" /\ proc'[p].target # None
        /\ proc'[p].source = proc[p].source
    BY <1>2, <2>1, ProcessFacts DEF ProcessRecord, Steps
  <2>3. ProcessIsSound(p, proc[p])'
    BY <2>1, <2>2, ProcessFacts
       DEF ProcessIsSound, LeaseIsHeld, StagingIsSound, MigrationIsCovered
  <2> QED BY <2>1, <2>2, <2>3, ProcessFacts, ProcessStep
<1>3. CASE AfterBackup(p)
  <2>1. /\ proc' = [proc EXCEPT ![p] = proc'[p]] /\ proc[p].pc = "open"
        /\ proc'[p] = [proc[p] EXCEPT !.pc = "apply"]
        /\ UNCHANGED <<release, db, cas, dirs, writer, rotted, crashes, installs>>
    BY <1>3 DEF AfterBackup, bounds, IInv, TypeOK
  <2>2. /\ proc'[p] \in ProcessRecord
        /\ proc'[p].pc = "apply" /\ proc'[p].source = proc[p].source
    BY <2>1, ProcessFacts DEF ProcessRecord, Steps
  <2>3. BackedUp'
    BY <2>1, ProcessFacts DEF ProcessIsSound, MigrationIsCovered, BackedUp
  <2>4. ProcessIsSound(p, proc[p])'
    BY <2>1, <2>2, <2>3, ProcessFacts
       DEF ProcessIsSound, LeaseIsHeld, StagingIsSound, MigrationIsCovered
  <2> QED BY <2>1, <2>2, <2>4, ProcessFacts, ProcessStep
<1> QED BY <1>1, <1>2, <1>3

(* backup_database copies the database as it is while the lease is held.   *)
LEMMA SnapshotInv ==
  ASSUME IInv, NEW p \in Process, Snapshot(p)
  PROVE  IInv'
<1> DEFINE set == [db |-> db, manifest |-> db.refs, objects |-> NoObjects]
<1>1. set \in Set /\ set.db = db /\ set.manifest = db.refs
  BY DEF Set, Database, NoObjects, Health, IInv, TypeOK
<1>2. db.exists /\ \A d \in db.sets : dirs[d] # None
  <2>1. db.applied \in Nat /\ db.applied >= ContentVersion
    BY StoreAssumption DEF Snapshot, Listable, IInv, TypeOK, Database, Versions
  <2>2. db.applied # 0 /\ db \in Database
    BY <2>1, StoreAssumption DEF IInv, TypeOK
  <2> QED BY <2>2 DEF IInv, StoresAreSound, RecordedSetsExist, Database
<1> HIDE DEF set
<1>3. /\ proc' = [proc EXCEPT ![p] = proc'[p]] /\ proc[p].pc = "snapshot"
      /\ proc'[p] = [proc[p] EXCEPT !.pc = "copy", !.staged = set]
      /\ UNCHANGED <<release, db, cas, dirs, writer, rotted, crashes, installs>>
  BY DEF set, Snapshot, bounds, IInv, TypeOK
<1>4. /\ proc'[p] \in ProcessRecord
      /\ proc'[p].pc = "copy" /\ proc'[p].staged = set
      /\ proc'[p].target = proc[p].target /\ proc'[p].source = proc[p].source
  BY <1>1, <1>3, ProcessFacts DEF ProcessRecord, Steps
<1>5. ProcessIsSound(p, proc[p])'
  BY <1>1, <1>2, <1>3, <1>4, ProcessFacts, NoneAssumption
     DEF ProcessIsSound, LeaseIsHeld, StagingIsSound, MigrationIsCovered
<1> QED BY <1>3, <1>4, <1>5, ProcessFacts, ProcessStep

(* A file is copied into the staging directory of a backup or a restore.   *)
LEMMA CopyInv ==
  ASSUME IInv, NEW p \in Process, NEW c \in Content, CopyObject(p, c)
  PROVE  IInv'
<1> DEFINE set == [proc[p].staged EXCEPT !.objects[c] = Source(p)[c]]
<1>1. /\ proc[p].pc = "copy" /\ proc[p].staged \in Set
      /\ proc[p].source # None =>
            proc[p].source \in Dir /\ dirs[proc[p].source] # None
  BY ProcessFacts
     DEF CopyObject, ProcessIsSound, LeaseIsHeld, StagingIsSound, ProcessRecord
<1>2. Source(p)[c] \in Health
  BY <1>1 DEF Source, IInv, TypeOK, Set
<1>3. set \in Set /\ set.db = proc[p].staged.db
      /\ set.manifest = proc[p].staged.manifest
  BY <1>1, <1>2 DEF Set
<1>4. /\ proc' = [proc EXCEPT ![p] = proc'[p]]
      /\ proc'[p] = [proc[p] EXCEPT !.staged = set]
      /\ UNCHANGED <<release, db, cas, dirs, writer, rotted, crashes, installs>>
  BY ProcessFacts DEF CopyObject, bounds, IInv, TypeOK, ProcessRecord
<1> HIDE DEF set
<1>5. /\ proc'[p] \in ProcessRecord
      /\ proc'[p].pc = "copy" /\ proc'[p].staged = set
      /\ proc'[p].target = proc[p].target /\ proc'[p].source = proc[p].source
  BY <1>1, <1>3, <1>4, ProcessFacts DEF ProcessRecord, Steps
<1>6. ProcessIsSound(p, proc[p])'
  BY <1>1, <1>3, <1>4, <1>5, ProcessFacts, NoneAssumption
     DEF ProcessIsSound, LeaseIsHeld, StagingIsSound, MigrationIsCovered
<1> QED BY <1>4, <1>5, <1>6, ProcessFacts, ProcessStep

(* A staging directory becomes whole, and is verified before it can be     *)
(* published.                                                              *)
LEMMA StagingInv ==
  ASSUME IInv, NEW p \in Process, WriteManifest(p) \/ VerifyStaging(p)
  PROVE  IInv'
<1>1. PICK pc \in {"verify", "publish"} :
        /\ proc[p].pc \in {"copy", "verify"}
        /\ proc' = [proc EXCEPT ![p].pc = pc]
        /\ pc = "publish" => Verified(proc[p].staged)
        /\ UNCHANGED <<release, db, cas, dirs, writer, rotted, crashes, installs>>
  BY DEF WriteManifest, VerifyStaging, bounds
<1>2. /\ proc' = [proc EXCEPT ![p] = proc'[p]]
      /\ proc'[p] = [proc[p] EXCEPT !.pc = pc]
  BY <1>1 DEF IInv, TypeOK
<1>3. /\ proc'[p] \in ProcessRecord
      /\ proc'[p].pc = pc /\ proc'[p].staged = proc[p].staged
      /\ proc'[p].target = proc[p].target /\ proc'[p].source = proc[p].source
  BY <1>2, ProcessFacts DEF ProcessRecord, Steps
<1>4. ProcessIsSound(p, proc[p])'
  BY <1>1, <1>3, ProcessFacts
     DEF ProcessIsSound, LeaseIsHeld, StagingIsSound, MigrationIsCovered,
         Verified, Listable
<1> QED BY <1>1, <1>2, <1>3, <1>4, ProcessFacts, ProcessStep

(* A restore stages a set that verify_backup_set accepts.                  *)
LEMMA BeginRestoreInv ==
  ASSUME IInv, NEW p \in Process, NEW from \in Dir, NEW to \in Dir,
         BeginRestore(p, from, to)
  PROVE  IInv'
<1> DEFINE set == [db |-> dirs[from].db, manifest |-> dirs[from].manifest,
                   objects |-> NoObjects]
<1>1. proc[p] = Idle /\ dirs[from] \in Set /\ dirs[from] # None
  BY ProcessFacts DEF BeginRestore, ProcessIsSound, LeaseIsHeld, IInv, TypeOK
<1>2. /\ set \in Set /\ set.db.exists /\ set.manifest = set.db.refs
      /\ \A d \in set.db.sets : dirs[d] # None
  BY <1>1 DEF BeginRestore, Verified, Set, NoObjects, Health, IInv, StoresAreSound
<1>3. /\ proc' = [proc EXCEPT ![p] = proc'[p]]
      /\ proc'[p] = [pc |-> "copy", goal |-> None, target |-> to,
                     source |-> from, record |-> FALSE, staged |-> set,
                     content |-> None]
      /\ UNCHANGED <<release, db, cas, dirs, writer, rotted, crashes, installs>>
  BY <1>1 DEF BeginRestore, bounds, Idle, IInv, TypeOK
<1> HIDE DEF set
<1>4. /\ proc'[p] \in ProcessRecord
      /\ proc'[p].pc = "copy" /\ proc'[p].staged = set
      /\ proc'[p].target = to /\ proc'[p].source = from
  BY <1>2, <1>3 DEF ProcessRecord, Steps
<1>5. ProcessIsSound(p, proc[p])'
  BY <1>1, <1>2, <1>3, <1>4, NoneAssumption, StoreAssumption
     DEF ProcessIsSound, LeaseIsHeld, StagingIsSound, MigrationIsCovered
<1> QED BY <1>3, <1>4, <1>5, ProcessFacts, ProcessStep

(* While p has the lease, or nobody, the others are idle or restore: what  *)
(* p does to the database and the files does not disturb them, as long as  *)
(* no published directory goes away.                                       *)
LEMMA OthersAreSound ==
  ASSUME IInv, NEW p, NEW q \in Process \ {p}, writer # q,
         proc'[q] = proc[q],
         \A d \in Dir : dirs[d] # None => dirs'[d] # None
  PROVE  ProcessIsSound(q, proc[q])'
<1>1. proc[q] \in ProcessRecord /\ ProcessIsSound(q, proc[q])
  BY ProcessFacts
<1>2. CASE proc[q].pc = "idle"
  BY <1>1, <1>2 DEF Idle, ProcessIsSound, LeaseIsHeld, StagingIsSound,
                    MigrationIsCovered
<1>3. CASE proc[q].pc # "idle"
  <2>1. /\ proc[q].source # None /\ proc[q].pc \in {"copy", "verify", "publish"}
        /\ proc[q].source \in Dir /\ dirs[proc[q].source] # None
    BY <1>1, <1>3 DEF ProcessIsSound, LeaseIsHeld, ProcessRecord
  <2>2. LeaseIsHeld(q, proc[q])'
    BY <2>1 DEF LeaseIsHeld
  <2>3. \A d \in proc[q].staged.db.sets : d \in Dir
    BY <1>1, <2>1 DEF ProcessRecord, Set, Database, ProcessIsSound, StagingIsSound
  <2>4. StagingIsSound(proc[q])'
    BY <1>1, <2>1, <2>3 DEF ProcessIsSound, StagingIsSound, Verified, Listable
  <2>5. MigrationIsCovered(proc[q])'
    BY <2>1 DEF MigrationIsCovered
  <2> QED BY <2>2, <2>4, <2>5 DEF ProcessIsSound
<1> QED BY <1>2, <1>3

(* Evidence publishes its file under the lease, before its row.            *)
LEMMA PutInv ==
  ASSUME IInv, NEW p \in Process, NEW c \in Content, Put(p, c)
  PROVE  IInv'
<1>1. proc[p] = Idle
  BY ProcessFacts DEF Put, ProcessIsSound, LeaseIsHeld
<1>2. /\ proc' = [proc EXCEPT ![p] = proc'[p]]
      /\ proc'[p] = [Idle EXCEPT !.pc = "put", !.content = c]
      /\ cas' = [cas EXCEPT ![c] = "good"] /\ cas' \in [Content -> Health]
      /\ writer = None /\ writer' = p /\ Listable(db)
      /\ UNCHANGED <<release, db, dirs, rotted, crashes, installs>>
  BY <1>1 DEF Put, Stored, bounds, IInv, TypeOK, Health
<1>3. /\ proc'[p] \in ProcessRecord
      /\ proc'[p].pc = "put" /\ proc'[p].source = None /\ proc'[p].content = c
  BY <1>2, IdleFacts DEF ProcessRecord, Steps
<1>4. TypeOK'
  BY <1>2, <1>3 DEF IInv, TypeOK
<1>5. SetsAreComplete' /\ RecordedSetsExist' /\ StoresAreSound'
  BY <1>2 DEF IInv, SetsAreComplete, RecordedSetsExist, StoresAreSound
<1>6. RowsHaveObjects' /\ cas'[c] # "absent"
  BY <1>2 DEF IInv, RowsHaveObjects, TypeOK, Database
<1>7. ProcessIsSound(p, proc[p])'
  BY <1>2, <1>3, <1>6, StoreAssumption
     DEF ProcessIsSound, LeaseIsHeld, StagingIsSound, MigrationIsCovered, Listable
<1>8. ASSUME NEW q \in Process \ {p} PROVE ProcessIsSound(q, proc[q])'
  <2>1. writer # q /\ proc'[q] = proc[q]
    BY <1>2, StoreAssumption DEF IInv, TypeOK
  <2> QED BY <1>2, <2>1, OthersAreSound
<1> QED BY <1>4, <1>5, <1>6, <1>7, <1>8 DEF IInv

(* The holder of the lease changes the database and goes on to proc'[p].   *)
LEMMA DatabaseStep ==
  ASSUME IInv, NEW p \in Process,
         proc[p].pc # "idle", proc[p].source = None,
         proc' = [proc EXCEPT ![p] = proc'[p]], proc'[p] \in ProcessRecord,
         writer' \in Process \cup {None},
         db' \in Database, db'.refs # {} => db'.applied >= ContentVersion,
         RowsHaveObjects', RecordedSetsExist',
         ~db'.exists => db'.refs = {} /\ db'.applied = 0,
         UNCHANGED <<release, cas, dirs, rotted, crashes, installs>>,
         ProcessIsSound(p, proc[p])'
  PROVE  IInv'
<1>1. TypeOK'
  BY DEF IInv, TypeOK
<1>2. SetsAreComplete' /\ StoresAreSound'
  BY DEF IInv, SetsAreComplete, StoresAreSound
<1>3. ASSUME NEW q \in Process \ {p} PROVE ProcessIsSound(q, proc[q])'
  <2>1. writer # q /\ proc'[q] = proc[q]
    BY ProcessFacts DEF IInv, TypeOK, ProcessIsSound, LeaseIsHeld
  <2> QED BY <2>1, OthersAreSound
<1> QED BY <1>1, <1>2, <1>3 DEF IInv

(* A row is inserted for a file that is there.                             *)
LEMMA InsertRowInv ==
  ASSUME IInv, NEW p \in Process, InsertRow(p)
  PROVE  IInv'
<1>1. /\ proc[p].pc = "put" /\ proc[p].source = None
      /\ proc[p].content \in Content /\ cas[proc[p].content] # "absent"
      /\ Listable(db)
  BY ProcessFacts DEF InsertRow, ProcessIsSound, LeaseIsHeld, ProcessRecord
<1>2. /\ db' = [db EXCEPT !.refs = db.refs \cup {proc[p].content}]
      /\ UNCHANGED <<release, cas, dirs, rotted, crashes, installs>>
  BY DEF InsertRow, bounds
<1>3. /\ db' \in Database /\ db'.refs = db.refs \cup {proc[p].content}
      /\ db'.exists = db.exists /\ db'.applied = db.applied /\ db'.sets = db.sets
  BY <1>1, <1>2 DEF Database, IInv, TypeOK
<1>4. db.exists /\ db'.applied >= ContentVersion
  <2>1. db.applied >= ContentVersion /\ db.applied \in Nat
    BY <1>1, StoreAssumption DEF Listable, IInv, TypeOK, Database, Versions
  <2>2. db.applied # 0
    BY <2>1, StoreAssumption
  <2> QED BY <1>3, <2>1, <2>2 DEF IInv, StoresAreSound
<1>5. RowsHaveObjects' /\ RecordedSetsExist'
  BY <1>1, <1>2, <1>3 DEF IInv, RowsHaveObjects, RecordedSetsExist
<1>6. /\ proc'[p] = Idle /\ proc' = [proc EXCEPT ![p] = proc'[p]]
      /\ writer' \in Process \cup {None}
  BY DEF InsertRow, Leave, IInv, TypeOK
<1>7. ProcessIsSound(p, proc[p])'
  BY <1>6 DEF Idle, ProcessIsSound, LeaseIsHeld, StagingIsSound,
              MigrationIsCovered
<1> QED BY <1>1, <1>2, <1>3, <1>4, <1>5, <1>6, <1>7, IdleFacts, DatabaseStep

(* A set is recorded after it was published.                               *)
LEMMA RecordSetInv ==
  ASSUME IInv, NEW p \in Process, RecordSet(p)
  PROVE  IInv'
<1>1. /\ proc[p].pc = "record" /\ proc[p].source = None
      /\ proc[p].target \in Dir /\ dirs[proc[p].target] # None
  BY ProcessFacts
     DEF RecordSet, ProcessIsSound, LeaseIsHeld, StagingIsSound, ProcessRecord
<1>2. /\ db' = [db EXCEPT !.sets = db.sets \cup {proc[p].target}]
      /\ UNCHANGED <<release, cas, dirs, rotted, crashes, installs>>
  BY DEF RecordSet, bounds
<1>3. /\ db' \in Database /\ db'.sets = db.sets \cup {proc[p].target}
      /\ db'.exists = db.exists /\ db'.applied = db.applied /\ db'.refs = db.refs
  BY <1>1, <1>2 DEF Database, IInv, TypeOK
<1>4. RowsHaveObjects' /\ RecordedSetsExist'
  BY <1>1, <1>2, <1>3 DEF IInv, RowsHaveObjects, RecordedSetsExist
<1>5. /\ db'.refs # {} => db'.applied >= ContentVersion
      /\ ~db'.exists => db'.refs = {} /\ db'.applied = 0
  BY <1>3 DEF IInv, TypeOK, StoresAreSound
<1>6. /\ proc'[p] = Idle /\ proc' = [proc EXCEPT ![p] = proc'[p]]
      /\ writer' \in Process \cup {None}
  BY DEF RecordSet, Leave, IInv, TypeOK
<1>7. ProcessIsSound(p, proc[p])'
  BY <1>6 DEF Idle, ProcessIsSound, LeaseIsHeld, StagingIsSound,
              MigrationIsCovered
<1> QED BY <1>1, <1>2, <1>3, <1>4, <1>5, <1>6, <1>7, IdleFacts, DatabaseStep

(* A database without pending migrations, or a new one, is opened without  *)
(* a backup: a new one has no evidence.                                    *)
LEMMA OpenLedgerInv ==
  ASSUME IInv, NEW p \in Process, OpenLedger(p)
  PROVE  IInv'
<1>1. proc[p].pc = "migrate" /\ proc[p].source = None /\ writer = p
  BY ProcessFacts DEF OpenLedger, ProcessIsSound, LeaseIsHeld
<1>2. /\ db' = [db EXCEPT !.exists = TRUE]
      /\ proc' = [proc EXCEPT ![p] = proc'[p]]
      /\ proc'[p] = [proc[p] EXCEPT !.pc = "apply"]
      /\ UNCHANGED <<release, cas, dirs, writer, rotted, crashes, installs>>
  BY DEF OpenLedger, bounds, IInv, TypeOK
<1>3. /\ db' \in Database /\ db'.exists
      /\ db'.refs = db.refs /\ db'.applied = db.applied /\ db'.sets = db.sets
  BY <1>2 DEF Database, IInv, TypeOK
<1>4. RowsHaveObjects' /\ RecordedSetsExist'
      /\ (db'.refs # {} => db'.applied >= ContentVersion)
  BY <1>2, <1>3 DEF IInv, RowsHaveObjects, RecordedSetsExist, TypeOK
<1>5. /\ proc'[p] \in ProcessRecord
      /\ proc'[p].pc = "apply" /\ proc'[p].source = None
  BY <1>1, <1>2, ProcessFacts DEF ProcessRecord, Steps
<1>6. db'.refs = {} \/ ~(db'.applied < release')
  BY <1>2, <1>3 DEF OpenLedger, NeedsBackup, Pending, IInv, StoresAreSound
<1>7. ProcessIsSound(p, proc[p])'
  BY <1>1, <1>2, <1>5, <1>6
     DEF ProcessIsSound, LeaseIsHeld, StagingIsSound, MigrationIsCovered, Pending
<1> QED BY <1>1, <1>2, <1>3, <1>4, <1>5, <1>7, ProcessFacts, DatabaseStep

(* A migration keeps the evidence its backup has.                          *)
LEMMA ApplyOneInv ==
  ASSUME IInv, NEW p \in Process, ApplyOne(p)
  PROVE  IInv'
<1>1. proc[p].pc = "apply" /\ proc[p].source = None /\ writer = p /\ Pending
  BY ProcessFacts DEF ApplyOne, ProcessIsSound, LeaseIsHeld
<1>2. /\ db' = [db EXCEPT !.applied = db.applied + 1]
      /\ UNCHANGED <<release, cas, dirs, proc, writer, rotted, crashes, installs>>
  BY DEF ApplyOne, bounds
<1>3. db.applied \in Nat /\ db.applied + 1 \in Versions
      /\ ContentVersion \in Nat
  BY <1>1, StoreAssumption
     DEF Pending, Versions, Releases, IInv, TypeOK, Database
<1>4. /\ db' \in Database /\ db'.applied = db.applied + 1
      /\ db'.refs = db.refs /\ db'.exists = db.exists /\ db'.sets = db.sets
  BY <1>2, <1>3 DEF Database, IInv, TypeOK
<1>5. RowsHaveObjects' /\ RecordedSetsExist'
      /\ (db'.refs # {} => db'.applied >= ContentVersion)
  BY <1>2, <1>3, <1>4 DEF IInv, RowsHaveObjects, RecordedSetsExist, TypeOK
<1>6. proc'[p] = proc[p] /\ proc' = [proc EXCEPT ![p] = proc'[p]]
  BY <1>2 DEF IInv, TypeOK
<1>7. db'.refs = {} \/ BackedUp'
  <2>1. SUFFICES ASSUME db.refs # {} PROVE BackedUp'
    BY <1>4
  <2>2. BackedUp
    BY <1>1, <2>1, ProcessFacts DEF ProcessIsSound, MigrationIsCovered
  <2>3. PICK d \in Dir : /\ dirs[d] # None /\ dirs[d].db.refs = db.refs
                         /\ dirs[d].db.applied <= db.applied
    BY <2>2 DEF BackedUp
  <2>4. dirs[d].db.applied \in Nat
    BY <2>3 DEF IInv, TypeOK, Set, Database, Versions
  <2>5. dirs[d].db.applied <= db'.applied
    BY <1>3, <1>4, <2>3, <2>4
  <2> QED BY <1>2, <1>4, <2>3, <2>5 DEF BackedUp
<1>8. db.exists
  BY <1>1, <1>2, ProcessFacts DEF ProcessIsSound, MigrationIsCovered
<1>9. ProcessIsSound(p, proc[p])'
  BY <1>1, <1>2, <1>4, <1>6, <1>7, <1>8
     DEF ProcessIsSound, LeaseIsHeld, StagingIsSound, MigrationIsCovered, Pending
<1> QED BY <1>1, <1>2, <1>4, <1>5, <1>6, <1>8, <1>9, ProcessFacts, DatabaseStep

(* A verified staging directory gets a name nobody has.  A restore may do  *)
(* this while another process has the lease, so all processes are looked   *)
(* at again.                                                               *)
LEMMA PublishInv ==
  ASSUME IInv, NEW p \in Process, Publish(p)
  PROVE  IInv'
<1> DEFINE t == proc[p].target
           set == proc[p].staged
<1>1. /\ proc[p].pc = "publish" /\ t \in Dir /\ set \in Set
      /\ Verified(set) /\ set.db.exists /\ set.manifest = set.db.refs
      /\ \A d \in set.db.sets : dirs[d] # None
      /\ proc[p].source = None => writer = p /\ set.db = db
      /\ proc[p] \in ProcessRecord
  BY ProcessFacts
     DEF Publish, ProcessIsSound, LeaseIsHeld, StagingIsSound, ProcessRecord
<1>2. /\ dirs[t] = None /\ dirs' = [dirs EXCEPT ![t] = set]
      /\ UNCHANGED <<release, db, cas, rotted, crashes, installs>>
  BY DEF Publish, bounds
<1>3. /\ dirs' \in [Dir -> Set \cup {None}]
      /\ dirs'[t] = set /\ set # None
      /\ \A d \in Dir \ {t} : dirs'[d] = dirs[d]
      /\ \A d \in Dir : dirs[d] # None => dirs'[d] # None /\ dirs'[d] = dirs[d]
  BY <1>1, <1>2, NoneAssumption DEF IInv, TypeOK
<1>4. set.db \in Database /\ db \in Database
  BY <1>1 DEF Set, IInv, TypeOK
<1>5. SetsAreComplete'
  <2> SUFFICES ASSUME NEW d \in Dir, dirs'[d] # None
               PROVE  /\ dirs'[d].manifest = dirs'[d].db.refs
                      /\ \A c \in dirs'[d].db.refs :
                            /\ dirs'[d].objects[c] # "absent"
                            /\ dirs'[d].objects[c] = "bad" => <<d, c>> \in rotted'
    BY DEF SetsAreComplete
  <2>1. CASE d = t
    BY <1>1, <1>3, <2>1 DEF Verified, Verifies
  <2>2. CASE d # t
    BY <1>2, <1>3, <2>2 DEF IInv, SetsAreComplete
  <2> QED BY <2>1, <2>2
<1>6. RowsHaveObjects' /\ RecordedSetsExist'
  BY <1>2, <1>3, <1>4 DEF IInv, RowsHaveObjects, RecordedSetsExist, Database
<1>7. StoresAreSound'
  <2>1. ASSUME NEW d \in Dir, dirs'[d] # None
        PROVE  (\A e \in dirs'[d].db.sets : dirs'[e] # None) /\ dirs'[d].db.exists
    <3>1. CASE d = t
      BY <1>1, <1>3, <1>4, <3>1 DEF Database
    <3>2. CASE d # t
      <4>1. dirs'[d] = dirs[d] /\ dirs[d] # None /\ dirs[d].db \in Database
        BY <1>3, <2>1, <3>2 DEF IInv, TypeOK, Set
      <4> QED BY <1>3, <4>1 DEF IInv, StoresAreSound, Database
    <3> QED BY <3>1, <3>2
  <2> QED BY <1>2, <2>1 DEF IInv, StoresAreSound
<1>8. BackedUp => BackedUp'
  <2>1. SUFFICES ASSUME BackedUp PROVE BackedUp'
    OBVIOUS
  <2>2. PICK d \in Dir : /\ dirs[d] # None /\ dirs[d].db.refs = db.refs
                         /\ dirs[d].db.applied <= db.applied
    BY <2>1 DEF BackedUp
  <2>3. dirs'[d] = dirs[d]
    BY <1>3, <2>2
  <2> QED BY <1>2, <2>2, <2>3 DEF BackedUp
<1>9. /\ proc' = [proc EXCEPT ![p] = proc'[p]] /\ proc'[p] \in ProcessRecord
      /\ writer' \in Process \cup {None}
      /\ \A q \in Process \ {p} : writer = q => writer' = q
      /\ ProcessIsSound(p, proc[p])'
  <2>1. CASE proc[p].source # None
    <3>1. /\ proc' = [proc EXCEPT ![p] = proc'[p]] /\ proc'[p] = Idle
          /\ writer' = IF writer = p THEN None ELSE writer
      BY <2>1 DEF Publish, Leave, IInv, TypeOK
    <3>2. ProcessIsSound(p, proc[p])'
      BY <3>1 DEF Idle, ProcessIsSound, LeaseIsHeld, StagingIsSound,
                  MigrationIsCovered
    <3> QED BY <3>1, <3>2, IdleFacts DEF IInv, TypeOK
  <2>2. CASE proc[p].source = None /\ proc[p].record
    <3>1. /\ proc' = [proc EXCEPT ![p] = proc'[p]] /\ writer' = writer
          /\ proc'[p] = [proc[p] EXCEPT !.pc = "record", !.staged = None]
      BY <2>2 DEF Publish, IInv, TypeOK
    <3>2. /\ proc'[p] \in ProcessRecord /\ proc'[p].pc = "record"
          /\ proc'[p].source = None /\ proc'[p].target = t
      <4>1. ASSUME NEW q \in ProcessRecord
            PROVE  LET new == [q EXCEPT !.pc = "record", !.staged = None]
                   IN  /\ new \in ProcessRecord /\ new.pc = "record"
                       /\ new.source = q.source /\ new.target = q.target
        BY DEF ProcessRecord, Steps
      <4>2. proc[p] \in ProcessRecord /\ proc[p].source = None
        BY <1>1, <2>2
      <4> QED BY <3>1, <4>1, <4>2, Zenon
    <3>3. ProcessIsSound(p, proc[p])'
      <4>1. writer' = p /\ dirs'[proc'[p].target] # None /\ proc'[p].target # None
        <5>1. t # None
          BY <1>1, StoreAssumption
        <5>2. dirs'[t] # None
          BY <1>3
        <5>3. writer' = p
          BY <1>1, <2>2, <3>1
        <5> QED BY <3>2, <5>1, <5>2, <5>3, Zenon
      <4>2. LeaseIsHeld(p, proc[p])'
        BY <3>2, <4>1 DEF LeaseIsHeld
      <4>3. StagingIsSound(proc[p])'
        BY <3>2, <4>1 DEF StagingIsSound
      <4>4. MigrationIsCovered(proc[p])'
        BY <3>2 DEF MigrationIsCovered
      <4> QED BY <4>2, <4>3, <4>4 DEF ProcessIsSound
    <3> QED BY <3>1, <3>2, <3>3 DEF IInv, TypeOK
  <2>3. CASE proc[p].source = None /\ ~proc[p].record
    <3>1. /\ proc' = [proc EXCEPT ![p] = proc'[p]] /\ writer' = writer
          /\ proc'[p] = [proc[p] EXCEPT !.pc = "open", !.target = None,
                                        !.staged = None]
      BY <2>3 DEF Publish, IInv, TypeOK
    <3>2. /\ proc'[p] \in ProcessRecord /\ proc'[p].pc = "open"
          /\ proc'[p].source = None
      BY <1>1, <2>3, <3>1 DEF ProcessRecord, Steps
    <3>3. db'.exists /\ dirs'[t].db = db' /\ db'.applied \in Nat
      BY <1>1, <1>2, <1>3, <1>4, <2>3 DEF Database, Versions
    <3>4. BackedUp'
      BY <1>1, <1>3, <3>3 DEF BackedUp
    <3>5. ProcessIsSound(p, proc[p])'
      BY <1>1, <2>3, <3>1, <3>2, <3>3, <3>4
         DEF ProcessIsSound, LeaseIsHeld, StagingIsSound, MigrationIsCovered
    <3> QED BY <3>1, <3>2, <3>5 DEF IInv, TypeOK
  <2>4. proc[p].record \in BOOLEAN
    BY <1>1 DEF ProcessRecord
  <2> QED BY <2>1, <2>2, <2>3, <2>4
<1>10. ASSUME NEW q \in Process \ {p} PROVE ProcessIsSound(q, proc[q])'
  <2>1. proc'[q] = proc[q] /\ proc[q] \in ProcessRecord
        /\ ProcessIsSound(q, proc[q])
    BY <1>9, ProcessFacts DEF IInv, TypeOK
  <2>2. LeaseIsHeld(q, proc[q])'
    BY <1>2, <1>3, <1>9, <2>1
       DEF ProcessIsSound, LeaseIsHeld, Listable, ProcessRecord
  <2>3. proc[q].pc \in {"copy", "verify", "publish"} =>
          \A d \in proc[q].staged.db.sets : d \in Dir
    BY <2>1 DEF ProcessRecord, Set, Database, ProcessIsSound, StagingIsSound
  <2>4. StagingIsSound(proc[q])'
    BY <1>2, <1>3, <2>1, <2>3
       DEF ProcessIsSound, StagingIsSound, Verified, Listable, ProcessRecord
  <2>5. MigrationIsCovered(proc[q])'
    BY <1>2, <1>8, <2>1 DEF ProcessIsSound, MigrationIsCovered, Pending
  <2> QED BY <2>2, <2>4, <2>5 DEF ProcessIsSound
<1>11. TypeOK'
  BY <1>2, <1>3, <1>9 DEF IInv, TypeOK
<1> QED BY <1>5, <1>6, <1>7, <1>9, <1>10, <1>11 DEF IInv

(* While nothing runs, a verified store becomes the active one and another *)
(* release is installed.                                                   *)
LEMMA QuietInv ==
  ASSUME IInv,
         \A p \in Process : proc[p].pc = "idle",
         \/ \E d \in Dir : Activate(d)
         \/ \E r \in Releases : Install(r)
  PROVE  IInv'
<1>1. \A p \in Process : ProcessIsSound(p, proc[p])'
  <2> TAKE p \in Process
  <2>1. proc[p] = Idle
    BY ProcessFacts DEF ProcessIsSound, LeaseIsHeld
  <2>2. proc'[p] = Idle
    BY <2>1 DEF Activate, Install
  <2> QED BY <2>2 DEF Idle, ProcessIsSound, LeaseIsHeld, StagingIsSound,
                      MigrationIsCovered
<1>2. ASSUME NEW d \in Dir, Activate(d) PROVE IInv'
  <2>1. /\ dirs[d] \in Set /\ dirs[d] # None /\ Verified(dirs[d])
        /\ db' = dirs[d].db /\ cas' = dirs[d].objects
        /\ UNCHANGED <<release, dirs, proc, writer, rotted, crashes, installs>>
    BY <1>2 DEF Activate, bounds, IInv, TypeOK
  <2>2. db' \in Database /\ cas' \in [Content -> Health]
    BY <2>1 DEF Set
  <2>3. db'.applied >= ContentVersion /\ db'.exists
    BY <2>1 DEF Verified, Listable, IInv, StoresAreSound
  <2>4. TypeOK'
    BY <2>1, <2>2, <2>3 DEF IInv, TypeOK
  <2>5. SetsAreComplete' /\ RowsHaveObjects'
    BY <2>1 DEF IInv, SetsAreComplete, RowsHaveObjects
  <2>6. RecordedSetsExist' /\ StoresAreSound'
    BY <2>1, <2>3 DEF IInv, RecordedSetsExist, StoresAreSound
  <2> QED BY <1>1, <2>4, <2>5, <2>6 DEF IInv
<1>3. ASSUME NEW r \in Releases, Install(r) PROVE IInv'
  <2>1. /\ release' = r /\ installs' \in 0 .. MaxInstalls
        /\ UNCHANGED <<db, cas, dirs, proc, writer, rotted, crashes>>
    BY <1>3, StoreAssumption DEF Install, IInv, TypeOK
  <2>2. TypeOK'
    BY <2>1 DEF IInv, TypeOK
  <2>3. SetsAreComplete' /\ RowsHaveObjects' /\ RecordedSetsExist' /\ StoresAreSound'
    BY <2>1 DEF IInv, SetsAreComplete, RowsHaveObjects, RecordedSetsExist,
                StoresAreSound
  <2> QED BY <1>1, <2>2, <2>3 DEF IInv
<1> QED BY <1>2, <1>3

(* A file of the active store goes bad: it does not go away.               *)
LEMMA RotInv ==
  ASSUME IInv, NEW c \in Content, Rot(c)
  PROVE  IInv'
<1>1. /\ cas' = [cas EXCEPT ![c] = "bad"] /\ cas' \in [Content -> Health]
      /\ rotted \subseteq rotted'
      /\ \A e \in Content : cas[e] # "absent" => cas'[e] # "absent"
      /\ UNCHANGED <<release, db, dirs, proc, writer, crashes, installs>>
  BY DEF Rot, bounds, IInv, TypeOK, Health
<1>2. TypeOK'
  BY <1>1 DEF IInv, TypeOK
<1>3. SetsAreComplete' /\ RecordedSetsExist' /\ StoresAreSound'
  BY <1>1 DEF IInv, SetsAreComplete, RecordedSetsExist, StoresAreSound
<1>4. RowsHaveObjects'
  BY <1>1 DEF IInv, RowsHaveObjects, TypeOK, Database
<1>5. ASSUME NEW p \in Process PROVE ProcessIsSound(p, proc[p])'
  <2>1. LeaseIsHeld(p, proc[p])'
    BY <1>1, ProcessFacts DEF ProcessIsSound, LeaseIsHeld, Listable, ProcessRecord
  <2>2. StagingIsSound(proc[p])' /\ MigrationIsCovered(proc[p])'
    BY <1>1, ProcessFacts DEF ProcessIsSound, StagingIsSound, MigrationIsCovered,
                              BackedUp, Pending, Verified, Listable
  <2> QED BY <2>1, <2>2 DEF ProcessIsSound
<1> QED BY <1>2, <1>3, <1>4, <1>5 DEF IInv

(* A file of a published directory goes bad, which rotted remembers.       *)
LEMMA RotInInv ==
  ASSUME IInv, NEW d \in Dir, NEW c \in Content, RotIn(d, c)
  PROVE  IInv'
<1> DEFINE set == [dirs[d] EXCEPT !.objects[c] = "bad"]
<1>1. dirs[d] \in Set /\ dirs[d] # None
  BY DEF RotIn, IInv, TypeOK
<1>2. /\ set \in Set /\ set.db = dirs[d].db /\ set.manifest = dirs[d].manifest
      /\ \A e \in Content \ {c} : set.objects[e] = dirs[d].objects[e]
      /\ set.objects[c] = "bad"
  BY <1>1 DEF Set, Health
<1>3. /\ dirs' = [dirs EXCEPT ![d] = set]
      /\ rotted' = rotted \cup {<<d, c>>}
      /\ UNCHANGED <<release, db, cas, proc, writer, crashes, installs>>
  BY DEF RotIn, bounds, IInv, TypeOK
<1> HIDE DEF set
<1>4. /\ dirs' \in [Dir -> Set \cup {None}]
      /\ \A e \in Dir \ {d} : dirs'[e] = dirs[e]
      /\ dirs'[d] = set /\ set # None
      /\ \A e \in Dir : /\ dirs[e] # None <=> dirs'[e] # None
                         /\ dirs'[e] # None => dirs'[e].db = dirs[e].db
  BY <1>1, <1>2, <1>3, NoneAssumption DEF IInv, TypeOK
<1>5. TypeOK'
  BY <1>3, <1>4 DEF IInv, TypeOK
<1>6. SetsAreComplete'
  <2> SUFFICES ASSUME NEW e \in Dir, dirs'[e] # None
               PROVE  /\ dirs'[e].manifest = dirs'[e].db.refs
                      /\ \A f \in dirs'[e].db.refs :
                            /\ dirs'[e].objects[f] # "absent"
                            /\ dirs'[e].objects[f] = "bad" => <<e, f>> \in rotted'
    BY DEF SetsAreComplete
  <2>1. CASE e = d
    <3>1. dirs[d].db.refs \subseteq Content
      BY <1>1 DEF Set, Database
    <3>2. dirs'[e].manifest = dirs'[e].db.refs
      BY <1>1, <1>2, <1>4, <2>1 DEF IInv, SetsAreComplete
    <3>3. ASSUME NEW f \in dirs'[e].db.refs
          PROVE  /\ dirs'[e].objects[f] # "absent"
                 /\ dirs'[e].objects[f] = "bad" => <<e, f>> \in rotted'
      <4>1. f \in dirs[d].db.refs /\ f \in Content
        BY <1>2, <1>4, <2>1, <3>1, <3>3
      <4>2. CASE f = c
        BY <1>2, <1>3, <1>4, <2>1, <4>2
      <4>3. CASE f # c
        <5>1. dirs'[e].objects[f] = dirs[d].objects[f]
          BY <1>2, <1>4, <2>1, <4>1, <4>3
        <5> QED BY <1>1, <1>3, <2>1, <4>1, <5>1 DEF IInv, SetsAreComplete
      <4> QED BY <4>2, <4>3
    <3> QED BY <3>2, <3>3
  <2>2. CASE e # d
    BY <1>3, <1>4, <2>2 DEF IInv, SetsAreComplete
  <2> QED BY <2>1, <2>2
<1>7. RowsHaveObjects' /\ RecordedSetsExist'
  BY <1>3, <1>4 DEF IInv, RowsHaveObjects, RecordedSetsExist, TypeOK, Database
<1>8. StoresAreSound'
  <2>1. ASSUME NEW e \in Dir, dirs'[e] # None
        PROVE  (\A f \in dirs'[e].db.sets : dirs'[f] # None) /\ dirs'[e].db.exists
    <3>1. dirs[e] # None /\ dirs'[e].db = dirs[e].db
      <4>1. CASE e = d
        BY <1>1, <1>2, <1>4, <4>1
      <4>2. CASE e # d
        BY <1>4, <2>1, <4>2
      <4> QED BY <4>1, <4>2
    <3>2. dirs[e].db \in Database
      BY <3>1 DEF IInv, TypeOK, Set
    <3> QED BY <1>4, <3>1, <3>2 DEF IInv, StoresAreSound, Database
  <2> QED BY <1>3, <2>1 DEF IInv, StoresAreSound
<1>9. BackedUp => BackedUp'
  BY <1>3, <1>4 DEF BackedUp
<1>10. ASSUME NEW q \in Process PROVE ProcessIsSound(q, proc[q])'
  <2>1. proc'[q] = proc[q] /\ proc[q] \in ProcessRecord
        /\ ProcessIsSound(q, proc[q])
    BY <1>3, ProcessFacts
  <2>2. LeaseIsHeld(q, proc[q])'
    BY <1>3, <1>4, <2>1 DEF ProcessIsSound, LeaseIsHeld, Listable, ProcessRecord
  <2>3. proc[q].pc \in {"copy", "verify", "publish"} =>
          \A e \in proc[q].staged.db.sets : e \in Dir
    BY <2>1 DEF ProcessRecord, Set, Database, ProcessIsSound, StagingIsSound
  <2>4. StagingIsSound(proc[q])'
    BY <1>3, <1>4, <2>1, <2>3
       DEF ProcessIsSound, StagingIsSound, Verified, Listable, ProcessRecord
  <2>5. MigrationIsCovered(proc[q])'
    BY <1>3, <1>9, <2>1 DEF ProcessIsSound, MigrationIsCovered, Pending
  <2> QED BY <2>2, <2>4, <2>5 DEF ProcessIsSound
<1> QED BY <1>5, <1>6, <1>7, <1>8, <1>10 DEF IInv

(* A process that ends, fails, is refused or dies.                         *)
LEMMA EndInv ==
  ASSUME IInv, NEW p \in Process,
         \/ MigrateRefused(p) \/ SnapshotFails(p) \/ VerifyFails(p)
         \/ PublishFails(p) \/ Crash(p)
         \/ \E c \in Content : CopyFails(p, c)
         \/ Migrated(p) /\ proc[p].goal = None
  PROVE  IInv'
<1>1. /\ Leave(p) /\ UNCHANGED <<release, db, cas, dirs, rotted, installs>>
      /\ crashes' = crashes \/ (crashes < MaxCrashes /\ crashes' = crashes + 1)
  BY DEF MigrateRefused, SnapshotFails, VerifyFails, PublishFails, Crash,
         CopyFails, Migrated, bounds
<1>2. crashes' \in 0 .. MaxCrashes
  BY <1>1, StoreAssumption DEF IInv, TypeOK
<1> QED BY <1>1, <1>2, LeaveInv

(* Every step keeps the invariant.                                         *)
LEMMA Inductive == IInv /\ [Next]_vars => IInv'
<1> SUFFICES ASSUME IInv, [Next]_vars PROVE IInv'
  OBVIOUS
<1>1. ASSUME NEW p \in Process,
             \/ \E c \in Content : Put(p, c)
             \/ InsertRow(p) \/ Migrate(p) \/ BackUp(p) \/ Crash(p)
             \/ \E d \in Dir \cup {None} : BeginMigrate(p, d)
             \/ \E from, to \in Dir : BeginRestore(p, from, to)
      PROVE  IInv'
  <2>1. CASE Migrate(p)
    BY <2>1, EndInv, OpenLedgerInv, ApplyOneInv, MigrateInv DEF Migrate
  <2>2. CASE BackUp(p)
    BY <2>2, EndInv, SnapshotInv, StagingInv, PublishInv, RecordSetInv, CopyInv
       DEF BackUp
  <2>3. CASE \E from, to \in Dir : BeginRestore(p, from, to)
    BY <2>3, BeginRestoreInv
  <2>4. CASE (\E c \in Content : Put(p, c)) \/ InsertRow(p) \/ Crash(p)
    BY <2>4, PutInv, InsertRowInv, EndInv
  <2>5. CASE \E d \in Dir \cup {None} : BeginMigrate(p, d)
    BY <2>5, BeginMigrateInv
  <2> QED BY <1>1, <2>1, <2>2, <2>3, <2>4, <2>5
<1>2. CASE (\E d \in Dir : Activate(d)) \/ \E r \in Releases : Install(r)
  <2>1. \A p \in Process : proc[p].pc = "idle"
    BY <1>2 DEF Activate, Install
  <2> QED BY <1>2, <2>1, QuietInv
<1>3. CASE \E d \in Dir : \E c \in Content : RotIn(d, c)
  BY <1>3, RotInInv
<1>4. CASE \E c \in Content : Rot(c)
  BY <1>4, RotInv
<1>5. CASE UNCHANGED vars
  BY <1>5 DEF vars, IInv, TypeOK, SetsAreComplete, RowsHaveObjects,
              RecordedSetsExist, StoresAreSound, ProcessIsSound, LeaseIsHeld,
              StagingIsSound, MigrationIsCovered, BackedUp, Pending, Verified,
              Listable
<1> QED BY <1>1, <1>2, <1>3, <1>4, <1>5 DEF Next

(* A host without a store has nothing to lose.                             *)
LEMMA InitInv == Init => IInv
<1> SUFFICES ASSUME Init PROVE IInv
  OBVIOUS
<1>1. TypeOK
  <2>1. NoDatabase \in Database /\ NoDatabase.refs = {}
    BY StoreAssumption DEF NoDatabase, Database, Versions
  <2>2. NoObjects \in [Content -> Health]
    BY DEF NoObjects, Health
  <2>3. crashes \in 0 .. MaxCrashes /\ installs \in 0 .. MaxInstalls
    BY StoreAssumption DEF Init
  <2> QED BY <2>1, <2>2, <2>3, IdleFacts DEF Init, TypeOK
<1>2. /\ SetsAreComplete /\ RowsHaveObjects /\ RecordedSetsExist
      /\ StoresAreSound
  BY DEF Init, NoDatabase, SetsAreComplete, RowsHaveObjects, RecordedSetsExist,
         StoresAreSound
<1>3. \A p \in Process : ProcessIsSound(p, proc[p])
  BY DEF Init, Idle, ProcessIsSound, LeaseIsHeld, StagingIsSound,
         MigrationIsCovered
<1> QED BY <1>1, <1>2, <1>3 DEF IInv

LEMMA Invariance == Spec => []IInv
  BY InitInv, Inductive, PTL DEF Spec

-----------------------------------------------------------------------------
(* Database, files, directories and processes keep their types: no row of  *)
(* content_object without its table, no operation without its data.        *)
THEOREM TypeCorrect == Spec => []TypeOK
<1>1. IInv => TypeOK
  BY DEF IInv
<1> QED BY <1>1, Invariance, PTL

(* Every directory others can see is a whole set, whichever process died   *)
(* while _create_backup_set or restore_backup_set was at work.             *)
THEOREM SetsComplete == Spec => []SetsAreComplete
<1>1. IInv => SetsAreComplete
  BY DEF IInv
<1> QED BY <1>1, Invariance, PTL

(* The active database names no content without a file, also after a crash *)
(* between put_stream and its row, a restore and a switch.                 *)
THEOREM RowsAreBacked == Spec => []RowsHaveObjects
<1>1. IInv => RowsHaveObjects
  BY DEF IInv
<1> QED BY <1>1, Invariance, PTL

(* _record_backup_set records nothing that was not published, and the rows *)
(* stay true in every copy of the database.                                *)
THEOREM RecordsAreTrue == Spec => []RecordedSetsExist
<1>1. IInv => RecordedSetsExist
  BY DEF IInv
<1> QED BY <1>1, Invariance, PTL

(* The steps that change the active database.                              *)
LEMMA DatabaseChanges ==
  ASSUME Next, db' # db
  PROVE  \/ \E p \in Process :
              ApplyOne(p) \/ InsertRow(p) \/ RecordSet(p) \/ OpenLedger(p)
         \/ \E d \in Dir : Activate(d)
<1>1. ASSUME NEW p \in Process, Migrate(p) PROVE ApplyOne(p) \/ OpenLedger(p)
  BY <1>1 DEF Migrate, MigrateRefused, Migrated, AfterBackup, PreMigrationBackup
<1>2. ASSUME NEW p \in Process, BackUp(p) PROVE RecordSet(p)
  BY <1>2 DEF BackUp, Snapshot, SnapshotFails, WriteManifest, VerifyStaging,
              VerifyFails, Publish, PublishFails, CopyObject, CopyFails
<1>3. ASSUME NEW p \in Process,
             \/ \E c \in Content : Put(p, c)
             \/ Crash(p)
             \/ \E d \in Dir \cup {None} : BeginMigrate(p, d)
             \/ \E from, to \in Dir : BeginRestore(p, from, to)
      PROVE  FALSE
  BY <1>3 DEF Put, Crash, BeginMigrate, BeginRestore
<1>4. ASSUME \/ \E d \in Dir, c \in Content : RotIn(d, c)
             \/ \E c \in Content : Rot(c)
             \/ \E r \in Releases : Install(r)
      PROVE  FALSE
  BY <1>4 DEF RotIn, Rot, Install
<1> QED BY <1>1, <1>2, <1>3, <1>4 DEF Next

(* No migration runs on evidence that migrate has not backed up.           *)
THEOREM MigrationsCovered == Spec => MigrationsAreBackedUp
<1> DEFINE Covered == (\E p \in Process : proc[p].pc = "apply")
                        /\ db'.applied # db.applied /\ db.refs # {} => BackedUp
<1>1. IInv /\ [Next]_vars => [Covered]_vars
  <2> SUFFICES ASSUME IInv, Next, NEW p \in Process, proc[p].pc = "apply",
                      db'.applied # db.applied, db.refs # {}
               PROVE  BackedUp
    OBVIOUS
  <2>1. PICK q \in Process :
          \/ ApplyOne(q) \/ InsertRow(q) \/ RecordSet(q) \/ OpenLedger(q)
    BY DatabaseChanges DEF Activate
  <2>2. db \in Database
    BY DEF IInv, TypeOK
  <2>3. ApplyOne(q)
    BY <2>1, <2>2 DEF InsertRow, RecordSet, OpenLedger, Database
  <2> QED BY <2>3, ProcessFacts DEF ApplyOne, ProcessIsSound, MigrationIsCovered
<1> QED BY <1>1, Invariance, PTL DEF Spec, MigrationsAreBackedUp

=============================================================================
