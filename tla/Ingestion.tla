----------------------------- MODULE Ingestion ------------------------------
(***************************************************************************)
(* The supervisor daemon and the ingestion life cycles.                    *)
(*                                                                         *)
(* Two processes share one data directory: the daemon, which holds the     *)
(* writer lease for a whole tick, captures artifacts from the network and  *)
(* ingests them, and an operator's command line process, which ingests a   *)
(* fixture or replays saved evidence and takes the writer lease for one    *)
(* store operation at a time.  Both run one of five life cycles: evidence  *)
(* is saved, parsed, turned into observations one by one, and the run is   *)
(* closed.  Either process may die at any step, and the lease of a claim   *)
(* may pass at any time.                                                   *)
(*                                                                         *)
(* Abstractions: an artifact is its content; parsing is a function of the  *)
(* content; a step may fail for a reason outside the model (disk, schema,  *)
(* policy, network).  Time is the lease: "live", or "stale" once it has    *)
(* passed by the wall clock.  Queue order, backoff and tokens are in       *)
(* JobStore, revisions and promotion events in CanonicalStream.            *)
(***************************************************************************)
EXTENDS Integers, Sequences, FiniteSets

CONSTANTS
    Job,
    Plans,         \* the sets of jobs that may come to be together
    Family,        \* [Job -> Families]
    Kind,          \* [Job -> Kinds]
    Production,    \* jobs in the lane production_ingestion
    Automatic,     \* families whose definition promotes automatically
    Retention,     \* the daemon has an approved ONSPD retention deadline
    Content,       \* artifact bytes
    Record,
    RecordsOf,     \* [Content -> SUBSET Record]: what the parsers find
    Malformed,     \* contents that no parser accepts
    Published,     \* [Families -> SUBSET Content]: what a source may serve
    Window,        \* records inside the window of the backfill jobs
    MaxAttempts,   \* [Job -> Nat]: workflow_job.max_attempts
    MaxCrashes,    \* bound on the deaths of processes
    None

Families == {"bank_rate", "pld", "macro", "file", "file_selected", "onspd"}

(* How a job comes to be: by a schedule or a backfill request, which leave *)
(* it to the daemon, or by an operator's process that means to run it.     *)
Kinds == {"scheduled", "backfill", "fixture", "reparse"}

ASSUME IngestionAssumption ==
    /\ Family \in [Job -> Families]
    /\ Kind \in [Job -> Kinds]
    /\ \A j \in Job : /\ Kind[j] = "fixture" => Family[j] = "bank_rate"
                      /\ Kind[j] = "reparse" => Family[j] # "pld"
    /\ RecordsOf \in [Content -> SUBSET Record]
    /\ Malformed \subseteq Content
    /\ Published \in [Families -> SUBSET Content]
    /\ Plans \subseteq SUBSET Job
    /\ MaxAttempts \in [Job -> Nat \ {0}]
    /\ MaxCrashes \in Nat
ASSUME NoneAssumption == None \notin Job \cup {"daemon", "operator"}

VARIABLES
    planned,   \* the jobs that schedules and operators create
    job,       \* workflow_job
    run,       \* ingestion_run.status by attempt
    promoted,  \* runs with a run_promotion row
    objects,   \* published content-addressed files
    evidence,  \* run_evidence with the content its evidence names
    observed,  \* observations and the evidence they cite
    proc,      \* what each process is doing
    writer,    \* the holder of writer.lock
    captured,  \* history: what each run captured from the network
    orphaned,  \* history: jobs left behind by a death, until recovered
    crashes

vars == <<planned, job, run, promoted, objects, evidence, observed, proc,
          writer, captured, orphaned, crashes>>
data == <<planned, promoted, objects, evidence, observed, captured>>

Process == {"daemon", "operator"}
Attempt == UNION {1 .. MaxAttempts[j] : j \in Job}
Run     == Job \X Attempt
Roles   == {"primary", "discovery", "supporting", "layer_metadata",
            "postcode_query"}
Ended   == {"succeeded", "empty", "failed", "dead_letter"}

(* The states in which a life cycle has its run and its close-out.         *)
Ingesting == {"persisting", "publishing", "parsing", "observing", "closing"}

Idle == [pc |-> "idle", job |-> None, no |-> 0, taken |-> <<>>, kept |-> 0,
         todo |-> {}]
Down == [Idle EXCEPT !.pc = "down"]

ProcessRecord ==
    [pc : {"idle", "down", "ticking", "enqueued", "claimed", "capturing",
           "checking", "refused"} \cup Ingesting,
     job : Job \cup {None}, no : {0} \cup Attempt, taken : Seq(Content),
     kept : 0 .. 3, todo : SUBSET Record]

TypeOK ==
    /\ planned \in Plans
    /\ job \in [Job -> [state : {"absent", "queued", "claimed", "running",
                                 "retry_wait"} \cup Ended,
                        attempts : {0} \cup Attempt,
                        owner : Process \cup {None},
                        lease : {"none", "live", "stale"}]]
    /\ run \in [Run -> {"none", "running", "succeeded", "empty", "failed"}]
    /\ promoted \subseteq Run
    /\ objects \subseteq Content
    /\ evidence \subseteq [run : Run, role : Roles, content : Content]
    /\ observed \subseteq [run : Run, record : Record, cites : SUBSET Roles]
    /\ proc \in [Process -> ProcessRecord]
    /\ writer \in Process \cup {None}
    /\ captured \subseteq [run : Run, content : Content]
    /\ orphaned \subseteq Job
    /\ crashes \in 0 .. MaxCrashes

Init ==
    /\ planned \in Plans
    /\ job = [j \in Job |->
                [state |-> IF j \in planned
                              /\ Kind[j] \in {"scheduled", "backfill"}
                           THEN "queued" ELSE "absent",
                 attempts |-> 0, owner |-> None, lease |-> "none"]]
    /\ run = [r \in Run |-> "none"]
    /\ promoted = {} /\ objects = {} /\ evidence = {} /\ observed = {}
    /\ proc = [p \in Process |-> Idle]
    /\ writer = None
    /\ captured = {} /\ orphaned = {} /\ crashes = 0

-----------------------------------------------------------------------------
(* The five life cycles.  Of each:                                         *)
(*   Capture   the roles of the artifacts it captures, in order            *)
(*   Replay    the roles of the evidence a replay reads                    *)
(*   Ingest    the roles under which n artifacts are saved, in order       *)
(*   RunFirst  a replay has its run before its checks                      *)
(*   Lease     the lease the claim of a replay may get                     *)
(*   Cites     the roles an observation cites                              *)
(*   Promote   it asks for promotion                                       *)

BankRateCapture    == <<"primary">>
BankRateReplay     == <<"primary">>
BankRateIngest(n)  == <<"primary">>
BankRateRunFirst   == FALSE
BankRateLease      == {"live"}       \* timed by the clock
BankRateCites      == {"primary"}
BankRatePromote(j) == j \in Production
BankRateWindow(j, record) == Kind[j] = "backfill" => record \in Window

PldCapture    == <<"primary">>
PldIngest(n)  == <<"primary">>
PldRunFirst   == FALSE
PldCites      == {"primary"}
PldPromote(j) == j \in Production
PldWindow(j, record) == Kind[j] = "backfill" => record \in Window

MacroCapture    == <<"primary">>
MacroReplay     == <<"primary">>
MacroIngest(n)  == <<"primary">>
MacroRunFirst   == FALSE
MacroLease      == {"live", "stale"} \* timed by the retrieval it replays
MacroCites      == {"primary"}
MacroPromote(j) == j \in Production /\ "macro" \in Automatic

FileCapture(selected) ==
    IF selected THEN <<"discovery", "supporting", "primary">>
    ELSE <<"discovery", "primary">>
FileReplay     == <<"primary">>
FileIngest(n)  == CASE n = 1 -> <<"primary">>
                    [] n = 2 -> <<"discovery", "primary">>
                    [] n = 3 -> <<"discovery", "supporting", "primary">>
FileRunFirst   == FALSE
FileLease      == {"live", "stale"}  \* timed by the retrieval it replays
FileCites      == {"primary"}
FilePromote(j) == j \in Production /\ Family[j] \in Automatic

OnspdCapture    == <<"layer_metadata", "postcode_query">>
OnspdReplay     == <<"layer_metadata", "postcode_query">>
OnspdIngest(n)  == <<"layer_metadata", "postcode_query">>
OnspdRunFirst(j) == j \in Production
OnspdLease      == {"live"}          \* timed by the clock
OnspdCites      == {"layer_metadata", "postcode_query"}
OnspdPromote(j) == j \in Production /\ "onspd" \in Automatic
(* A lookup has one feature or none.                                       *)
OnspdRecords(parsed) == Cardinality(parsed) <= 1

Capture(f) ==
    CASE f = "bank_rate" -> BankRateCapture
      [] f = "pld"       -> PldCapture
      [] f = "macro"     -> MacroCapture
      [] f = "onspd"     -> OnspdCapture
      [] OTHER           -> FileCapture(f = "file_selected")

Replay(f) ==
    CASE f = "bank_rate" -> BankRateReplay
      [] f = "macro"     -> MacroReplay
      [] f = "onspd"     -> OnspdReplay
      [] OTHER           -> FileReplay

Ingest(f, n) ==
    CASE f = "bank_rate" -> BankRateIngest(n)
      [] f = "pld"       -> PldIngest(n)
      [] f = "macro"     -> MacroIngest(n)
      [] f = "onspd"     -> OnspdIngest(n)
      [] OTHER           -> FileIngest(n)

RunFirst(j) ==
    CASE Family[j] = "bank_rate" -> BankRateRunFirst
      [] Family[j] = "pld"       -> PldRunFirst
      [] Family[j] = "macro"     -> MacroRunFirst
      [] Family[j] = "onspd"     -> OnspdRunFirst(j)
      [] OTHER                   -> FileRunFirst

Leases(f) ==
    CASE f = "bank_rate" -> BankRateLease
      [] f = "macro"     -> MacroLease
      [] f = "onspd"     -> OnspdLease
      [] OTHER           -> FileLease

Cites(f) ==
    CASE f = "bank_rate" -> BankRateCites
      [] f = "pld"       -> PldCites
      [] f = "macro"     -> MacroCites
      [] f = "onspd"     -> OnspdCites
      [] OTHER           -> FileCites

AsksPromotion(j) ==
    CASE Family[j] = "bank_rate" -> BankRatePromote(j)
      [] Family[j] = "pld"       -> PldPromote(j)
      [] Family[j] = "macro"     -> MacroPromote(j)
      [] Family[j] = "onspd"     -> OnspdPromote(j)
      [] OTHER                   -> FilePromote(j)

InWindow(j, record) ==
    CASE Family[j] = "bank_rate" -> BankRateWindow(j, record)
      [] Family[j] = "pld"       -> PldWindow(j, record)
      [] OTHER                   -> TRUE

RoleOf(p) == Ingest(Family[proc[p].job], Len(proc[p].taken))[proc[p].kept + 1]

-----------------------------------------------------------------------------
(* The store.                                                              *)

(* writer_session is re-entrant for the process that holds it.             *)
MayWrite(p) == writer \in {None, p}

RunOf(p) == <<proc[p].job, proc[p].no>>

(* Mutant: an operation does not compare the claim token.                  *)
OwnsAnyClaim(p) == job[proc[p].job].state = "running"

(* _require_running_run.  The life cycles pass the time they began, so the *)
(* lease does not matter; the token does.                                  *)
Owns(p) ==
    /\ job[proc[p].job].state = "running"
    /\ job[proc[p].job].owner = p
    /\ job[proc[p].job].attempts = proc[p].no

Free(j, state) == [job[j] EXCEPT !.state = state, !.owner = None,
                                 !.lease = "none"]

(* recover_expired of the jobs R.                                          *)
RecoveredJobs(R) ==
    [j \in Job |->
        IF j \notin R THEN job[j]
        ELSE IF job[j].state = "claimed" THEN Free(j, "queued")
        ELSE IF job[j].attempts < MaxAttempts[j] THEN Free(j, "retry_wait")
        ELSE Free(j, "dead_letter")]
RecoveredRuns(R) ==
    [r \in Run |-> IF r[1] \in R /\ run[r] = "running" THEN "failed"
                   ELSE run[r]]

(* Mutant: a claim that was never started is not recovered.                *)
StaleRunning == {j \in Job : job[j].lease = "stale" /\ job[j].state = "running"}

Stale == {j \in Job : job[j].lease = "stale"}

Set(p, new) == proc' = [proc EXCEPT ![p] = new]
Goto(p, pc) == Set(p, [proc[p] EXCEPT !.pc = pc])

(* finish_run of the process's run.                                        *)
Finished(p, status, state) ==
    /\ job' = [job EXCEPT ![proc[p].job] = Free(proc[p].job, state)]
    /\ run' = [run EXCEPT ![RunOf(p)] = status]

(* The process leaves its job: a daemon ends its tick, an operator's       *)
(* process ends.                                                           *)
Leave(p) ==
    /\ Set(p, Idle)
    /\ writer' = IF writer = p THEN None ELSE writer

-----------------------------------------------------------------------------
(* A tick of the daemon.                                                   *)

(* Mutant: the lease is taken for the operations of a tick one by one.     *)
TickWriterReleased == None

TickWriter == "daemon"

(* run_once: take the writer lease; scheduler_tick recovers expired        *)
(* claims.                                                                 *)
BeginTick ==
    /\ proc["daemon"].pc = "idle"
    /\ writer = None
    /\ writer' = TickWriter
    /\ job' = RecoveredJobs(Stale)
    /\ run' = RecoveredRuns(Stale)
    /\ orphaned' = orphaned \ Stale
    /\ Goto("daemon", "ticking")
    /\ UNCHANGED <<data, crashes>>

(* The writer lease is taken: the error, and that of the last heartbeat,   *)
(* end run_until.                                                          *)
TickRefused ==
    /\ proc["daemon"].pc = "idle"
    /\ writer = "operator"
    /\ Set("daemon", Down)
    /\ UNCHANGED <<job, run, data, writer, orphaned, crashes>>

(* claim_next and start_run, both at the tick's anchor.  A job in          *)
(* retry_wait is due at some time.                                         *)
ClaimNext(j) ==
    /\ proc["daemon"].pc = "ticking"
    /\ job[j].state \in {"queued", "retry_wait"}
    /\ job' = [job EXCEPT ![j].state = "claimed", ![j].owner = "daemon",
                          ![j].lease = "live"]
    /\ Set("daemon", [Idle EXCEPT !.pc = "claimed", !.job = j])
    /\ UNCHANGED <<run, data, writer, orphaned, crashes>>

NothingDue ==
    /\ proc["daemon"].pc = "ticking"
    /\ \A j \in Job : job[j].state # "queued"
    /\ Leave("daemon")
    /\ UNCHANGED <<job, run, data, orphaned, crashes>>

Started(p, pc) ==
    LET j == proc[p].job  n == job[j].attempts + 1
    IN  /\ job[j].state = "claimed"
        /\ job[j].owner = p
        /\ n \in Attempt
        /\ job' = [job EXCEPT ![j].state = "running", ![j].attempts = n]
        /\ run' = [run EXCEPT ![<<j, n>>] = "running"]
        /\ Set(p, [proc[p] EXCEPT !.pc = pc, !.no = n])

StartRun ==
    /\ proc["daemon"].pc = "claimed"
    /\ Started("daemon", "capturing")
    /\ UNCHANGED <<data, writer, orphaned, crashes>>

(* What run_once refuses before it captures: backfills of releases without *)
(* one, and postcode lookups without a retention deadline or without a     *)
(* postcode, which the request of a production replay does not have.       *)
Unsupported(j) ==
    \/ Kind[j] = "backfill" /\ Family[j] \notin {"bank_rate", "pld"}
    \/ Family[j] = "onspd" /\ ~Retention
    \/ Family[j] = "onspd" /\ Kind[j] = "reparse" /\ j \in Production

Refuse ==
    /\ proc["daemon"].pc = "capturing"
    /\ Unsupported(proc["daemon"].job)
    /\ Finished("daemon", "failed", "failed")
    /\ Leave("daemon")
    /\ UNCHANGED <<data, orphaned, crashes>>

Live == job[proc["daemon"].job].lease = "live"

(* The check before publication: heartbeat or preflight_evidence, at the   *)
(* time of the clock.                                                      *)
Preflight == Live

(* _collect_*: one artifact is streamed, checked and published.  A page    *)
(* that leads to the next artifact is parsed before that is requested.     *)
CaptureArtifact(c) ==
    LET d == proc["daemon"]
    IN  /\ d.pc = "capturing"
        /\ ~Unsupported(d.job)
        /\ c \in Published[Family[d.job]]
        /\ Len(d.taken) < Len(Capture(Family[d.job]))
        /\ \A i \in DOMAIN d.taken : d.taken[i] \notin Malformed
        /\ Preflight
        /\ objects' = objects \cup {c}
        /\ captured' = captured \cup {[run |-> RunOf("daemon"), content |-> c]}
        /\ Set("daemon", [d EXCEPT !.taken = Append(@, c)])
        /\ UNCHANGED <<planned, job, run, promoted, evidence, observed, writer,
                       orphaned, crashes>>

(* The network, the policy, the throttle or the lease fails the capture.   *)
CaptureFails ==
    /\ proc["daemon"].pc = "capturing"
    /\ ~Unsupported(proc["daemon"].job)
    /\ Goto("daemon", "refused")
    /\ UNCHANGED <<job, run, data, writer, orphaned, crashes>>

(* run_once renews the lease and hands the artifacts to the life cycle.    *)
HandOver ==
    /\ proc["daemon"].pc = "capturing"
    /\ Len(proc["daemon"].taken) = Len(Capture(Family[proc["daemon"].job]))
    /\ Live
    /\ Goto("daemon", "checking")
    /\ UNCHANGED <<job, run, data, writer, orphaned, crashes>>

(* The close-out of run_once: retryable, and refused once the lease has    *)
(* passed.                                                                 *)
SupervisorFinishes(p) ==
    IF job[proc[p].job].lease = "live"
    THEN Finished(p, "failed", IF proc[p].no < MaxAttempts[proc[p].job]
                               THEN "retry_wait" ELSE "dead_letter")
    ELSE UNCHANGED <<job, run>>

SupervisorCloses ==
    /\ proc["daemon"].pc = "refused"
    /\ SupervisorFinishes("daemon")
    /\ Leave("daemon")
    /\ UNCHANGED <<data, orphaned, crashes>>

-----------------------------------------------------------------------------
(* An operator's process.                                                  *)

(* The artifacts of a replay: evidence of any run of the datasource in the *)
(* same lane.                                                              *)
Replayable(j, taken) ==
    \E r \in Run :
        /\ Family[r[1]] = Family[j]
        /\ r[1] \in Production <=> j \in Production
        /\ Len(taken) = Len(Replay(Family[j]))
        /\ \A i \in DOMAIN taken :
             [run |-> r, role |-> Replay(Family[j])[i],
              content |-> taken[i]] \in evidence

Artifacts(j) ==
    IF Kind[j] = "fixture" THEN [1 .. 1 -> Published[Family[j]]]
    ELSE {taken \in UNION {[1 .. n -> Content] : n \in 1 .. 2} :
            Replayable(j, taken)}

(* cre ingest bank-rate --fixture, and the reparse_* entry points, up to   *)
(* enqueue.                                                                *)
EnqueueOwn(j) ==
    /\ proc["operator"].pc = "idle"
    /\ j \in planned
    /\ Kind[j] \in {"fixture", "reparse"}
    /\ job[j].state = "absent"
    /\ MayWrite("operator")
    /\ \E taken \in Artifacts(j) :
         Set("operator", [Idle EXCEPT !.pc = "enqueued", !.job = j,
                                      !.taken = taken])
    /\ job' = [job EXCEPT ![j].state = "queued"]
    /\ UNCHANGED <<run, data, writer, orphaned, crashes>>

(* claim_job recovers what has expired by the time it is given, which may  *)
(* be an old one.                                                          *)
ClaimOwn(R, lease) ==
    LET j == proc["operator"].job
    IN  /\ proc["operator"].pc = "enqueued"
        /\ MayWrite("operator")
        /\ Leases(Family[j]) = {"live"} => R = Stale
        /\ lease \in Leases(Family[j])
        /\ RecoveredJobs(R)[j].state = "queued"
        /\ job' = [RecoveredJobs(R) EXCEPT ![j].state = "claimed",
                                           ![j].owner = "operator",
                                           ![j].lease = lease]
        /\ run' = RecoveredRuns(R)
        /\ orphaned' = orphaned \ R
        /\ Goto("operator", "claimed")
        /\ UNCHANGED <<data, writer, crashes>>

StartOwn ==
    /\ proc["operator"].pc = "claimed"
    /\ MayWrite("operator")
    /\ Started("operator", IF RunFirst(proc["operator"].job)
                           THEN "checking" ELSE "persisting")
    /\ UNCHANGED <<data, writer, orphaned, crashes>>

(* An error before the life cycle's own handler: the process ends and      *)
(* leaves the job as it is.                                                *)
GiveUp ==
    /\ proc["operator"].pc \in {"enqueued", "claimed", "checking"}
    /\ orphaned' = IF job[proc["operator"].job].owner = "operator"
                   THEN orphaned \cup {proc["operator"].job} ELSE orphaned
    /\ Leave("operator")
    /\ UNCHANGED <<job, run, data, crashes>>

-----------------------------------------------------------------------------
(* The life cycles, in either process.                                     *)

(* Contract, bindings, artifact policy and retention hold.                 *)
ChecksPass(p) ==
    /\ proc[p].pc = "checking"
    /\ Goto(p, "persisting")
    /\ UNCHANGED <<job, run, data, writer, orphaned, crashes>>

(* They do not: the daemon's supervisor closes the run.                    *)
ChecksFail ==
    /\ proc["daemon"].pc = "checking"
    /\ Goto("daemon", "refused")
    /\ UNCHANGED <<job, run, data, writer, orphaned, crashes>>

Current(p) == proc[p].taken[proc[p].kept + 1]

(* Mutant: the rows are written before the file is.                        *)
StoredLater(p) == objects

(* persist_evidence publishes a body; a captured artifact must be there.   *)
StoredFile(p) == IF p = "daemon" THEN objects ELSE objects \cup {Current(p)}

PersistFile(p) ==
    /\ proc[p].pc = "persisting"
    /\ MayWrite(p)
    /\ Owns(p)
    /\ p = "daemon" => Current(p) \in objects
    /\ objects' = StoredFile(p)
    /\ writer' = p
    /\ Goto(p, "publishing")
    /\ UNCHANGED <<planned, job, run, promoted, evidence, observed, captured, orphaned,
                   crashes>>

Rows(p) == {[run |-> RunOf(p), role |-> RoleOf(p),
             content |-> Current(p)]}

(* Its transaction, which checks the run again.                            *)
PersistRows(p) ==
    /\ proc[p].pc = "publishing"
    /\ Owns(p)
    /\ evidence' = evidence \cup Rows(p)
    /\ writer' = IF p = "daemon" THEN writer ELSE None
    /\ Set(p, [proc[p] EXCEPT !.pc = "parsing", !.kept = @ + 1])
    /\ UNCHANGED <<planned, job, run, promoted, objects, observed, captured, orphaned,
                   crashes>>

(* The saved artifact is read back and parsed.  The last one gives the     *)
(* records, of which a postcode lookup may have one.                       *)
Parse(p) ==
    LET c      == proc[p].taken[proc[p].kept]
        parsed == RecordsOf[c]
        last   == proc[p].kept = Len(proc[p].taken)
    IN  /\ proc[p].pc = "parsing"
        /\ c \notin Malformed
        /\ last /\ Family[proc[p].job] = "onspd" => OnspdRecords(parsed)
        /\ Set(p, [proc[p] EXCEPT !.pc = IF last THEN "observing"
                                         ELSE "persisting",
                                  !.todo = IF last THEN parsed ELSE {}])
        /\ UNCHANGED <<job, run, data, writer, orphaned, crashes>>

(* persist_observation of one record.                                      *)
Observe(p, record) ==
    /\ proc[p].pc = "observing"
    /\ record \in proc[p].todo
    /\ InWindow(proc[p].job, record)
    /\ MayWrite(p)
    /\ Owns(p)
    /\ observed' = observed \cup
         {[run |-> RunOf(p), record |-> record,
           cites |-> Cites(Family[proc[p].job])]}
    /\ Set(p, [proc[p] EXCEPT !.todo = @ \ {record}])
    /\ UNCHANGED <<planned, job, run, promoted, objects, evidence, captured, writer,
                   orphaned, crashes>>

(* Mutant: the run is closed as soon as the records are parsed.            *)
AllObservedAtOnce(p) == TRUE

AllObserved(p) == proc[p].todo = {}

(* The end of a life cycle.  finish_run refuses a promotion that the       *)
(* definition does not allow.                                              *)
Finish(p) ==
    LET j == proc[p].job
        status == IF RecordsOf[proc[p].taken[Len(proc[p].taken)]] = {}
                  THEN "empty" ELSE "succeeded"
        promote == status = "succeeded" /\ AsksPromotion(j)
    IN  /\ proc[p].pc = "observing"
        /\ AllObserved(p)
        /\ MayWrite(p)
        /\ Owns(p)
        /\ promote => Family[j] \in Automatic
        /\ Finished(p, status, status)
        /\ promoted' = IF promote THEN promoted \cup {RunOf(p)} ELSE promoted
        /\ Leave(p)
        /\ UNCHANGED <<planned, objects, evidence, observed, captured, orphaned,
                       crashes>>

(* Any step of a life cycle fails.                                         *)
Fail(p) ==
    /\ proc[p].pc \in Ingesting \ {"closing"}
    /\ Goto(p, "closing")
    /\ writer' = IF p = "operator" /\ writer = p THEN None ELSE writer
    /\ UNCHANGED <<job, run, data, orphaned, crashes>>

(* The close-out of a life cycle, which is not retried and may be refused. *)
Close(p) ==
    /\ proc[p].pc = "closing"
    /\ IF MayWrite(p) /\ Owns(p)
       THEN Finished(p, "failed", "failed") /\ UNCHANGED orphaned
       ELSE /\ UNCHANGED <<job, run>>
            /\ orphaned' = IF Owns(p) THEN orphaned \cup {proc[p].job}
                           ELSE orphaned
    /\ Leave(p)
    /\ UNCHANGED <<data, crashes>>

-----------------------------------------------------------------------------
(* Time and failures.                                                      *)

Expire(j) ==
    /\ job[j].lease = "live"
    /\ job' = [job EXCEPT ![j].lease = "stale"]
    /\ UNCHANGED <<run, data, proc, writer, orphaned, crashes>>

Crash(p) ==
    /\ crashes < MaxCrashes
    /\ p = "operator" => proc[p].pc # "idle"
    /\ proc[p].pc # "down"
    /\ crashes' = crashes + 1
    /\ orphaned' = IF proc[p].job # None /\ job[proc[p].job].owner = p
                   THEN orphaned \cup {proc[p].job} ELSE orphaned
    /\ Set(p, IF p = "daemon" THEN Down ELSE Idle)
    /\ writer' = IF writer = p THEN None ELSE writer
    /\ UNCHANGED <<job, run, data>>

(* run_until begins with a registry sync and a heartbeat.                  *)
Restart ==
    /\ proc["daemon"].pc = "down"
    /\ writer = None
    /\ Set("daemon", Idle)
    /\ UNCHANGED <<job, run, data, writer, orphaned, crashes>>

-----------------------------------------------------------------------------

LifeCycle(p) ==
    \/ ChecksPass(p) \/ PersistFile(p) \/ PersistRows(p) \/ Parse(p)
    \/ \E record \in Record : Observe(p, record)
    \/ Finish(p) \/ Fail(p) \/ Close(p)

Tick ==
    \/ \E j \in Job : ClaimNext(j)
    \/ NothingDue \/ StartRun \/ Refuse
    \/ \E c \in Content : CaptureArtifact(c)
    \/ CaptureFails \/ HandOver \/ ChecksFail \/ SupervisorCloses
    \/ LifeCycle("daemon")

Operate ==
    \/ \E R \in SUBSET Stale, lease \in {"live", "stale"} : ClaimOwn(R, lease)
    \/ StartOwn \/ GiveUp
    \/ LifeCycle("operator")

Next ==
    \/ BeginTick \/ TickRefused \/ Tick
    \/ \E j \in Job : EnqueueOwn(j)
    \/ Operate
    \/ \E j \in Job : Expire(j)
    \/ \E p \in Process : Crash(p)
    \/ Restart

Spec == Init /\ [][Next]_vars

(* The processes go on, leases pass, the daemon is restarted and does not  *)
(* meet the operator at every tick, and a job in retry_wait becomes due.   *)
Fairness ==
    /\ SF_vars(BeginTick)
    /\ SF_vars(\E j \in Job : ClaimNext(j))
    /\ \A j \in Job : WF_vars(Expire(j))
    /\ WF_vars(Tick)
    /\ WF_vars(Operate)
    /\ WF_vars(Restart)

FairSpec == Spec /\ Fairness

-----------------------------------------------------------------------------
(* Properties.                                                             *)

(* Files are published first and named second: whatever dies or fails      *)
(* between the two, no row of run_evidence names an object that is not in  *)
(* the store.                                                              *)
EvidenceIsBacked == \A e \in evidence : e.content \in objects

(* An observation cites saved evidence of its own run, in every role its   *)
(* life cycle needs, whichever process made it.                            *)
ObservationsAreEvidenced ==
    \A o \in observed : \A role \in o.cites :
        \E e \in evidence : e.run = o.run /\ e.role = role

ResultOf(r) == {e \in evidence : e.run = r
                                 /\ e.role \in {"primary", "postcode_query"}}

(* A run that ended well stored exactly the records its saved artifact     *)
(* holds; an empty one has none; only a run that ended well with records   *)
(* is promoted.  A run that failed half way may have stored some.          *)
ResultsAreComplete ==
    \A r \in Run :
        /\ run[r] \in {"succeeded", "empty"} =>
             /\ ResultOf(r) # {}
             /\ \A e \in ResultOf(r) :
                  RecordsOf[e.content] = {o.record : o \in
                                            {x \in observed : x.run = r}}
        /\ run[r] = "empty" => \A o \in observed : o.run # r
        /\ r \in promoted => run[r] = "succeeded" /\ r[1] \in Production

(* Every artifact that a run captured is evidence of that run by the time  *)
(* the run ends well: an object without a row comes from a run that failed *)
(* or died.                                                                *)
CapturesAreEvidence ==
    \A x \in captured :
        run[x.run] \in {"succeeded", "empty"} =>
            \E e \in evidence : e.run = x.run /\ e.content = x.content

(* The chain of evidence holds from an observation to the bytes it was     *)
(* taken from.                                                             *)
EvidenceIsWhole ==
    TypeOK /\ EvidenceIsBacked /\ ObservationsAreEvidenced /\ CapturesAreEvidence

(* The life cycle in a tick never loses its claim: it passes one old time  *)
(* to every operation, and only the writer lease of the tick keeps others  *)
(* from recovering a claim whose lease has passed meanwhile.               *)
TickKeepsItsClaim == proc["daemon"].pc \in Ingesting => Owns("daemon")

(* Between ticks the daemon has no run of its own, except one whose lease  *)
(* passed while it was captured or whose tick died (run_until: a stop      *)
(* between ticks abandons no worker).                                      *)
TicksEndTheirRuns ==
    proc["daemon"].pc = "idle" =>
        \A j \in Job : job[j].owner = "daemon" =>
            job[j].lease = "stale" \/ j \in orphaned

(* A tick and its job: the claim is not lost on the way and not left behind*)
(* after it.                                                               *)
TicksKeepAndEndTheirRuns == TickKeepsItsClaim /\ TicksEndTheirRuns

(* What a step adds, it adds to a run that is running, and a closed run    *)
(* keeps its status.                                                       *)
SealsClosedRuns ==
    /\ \A e \in evidence' \ evidence : run[e.run] = "running"
    /\ \A o \in observed' \ observed : run[o.run] = "running"
    /\ \A x \in captured' \ captured : run[x.run] = "running"
    /\ \A r \in Run : run[r] \notin {"none", "running"} => run'[r] = run[r]

(* Nothing is added to a run that was closed, neither by a process that    *)
(* lost its claim nor by one that is late.                                 *)
ClosedRunsAreSealed == [][SealsClosedRuns]_vars

(* Every job that is created ends, also one that was left behind by a      *)
(* death, a refused operation or a lost lease.                             *)
JobsEnd == []<>(\A j \in Job : job[j].state \in Ended \cup {"absent"})

-----------------------------------------------------------------------------
(* The inductive invariant of the proofs.                                  *)

Bare    == {"idle", "down", "ticking"}
HasRun  == {"capturing", "checking", "refused"} \cup Ingesting
Writing == HasRun \ {"refused", "closing"}

(* The numbers of artifacts a life cycle may be given.                     *)
Sized(f, n) == n \in {Len(Capture(f)), Len(Replay(f))}

(* What a process q carries where it is.                                   *)
Shape(p, q) ==
    /\ q.pc \in Bare <=> q.job = None
    /\ q.pc \in HasRun <=> q.no # 0
    /\ p = "daemon" => q.pc # "enqueued"
    /\ p = "operator" => q.pc \notin {"down", "ticking", "capturing", "refused"}
    /\ q.pc \notin Ingesting => q.kept = 0
    /\ p = "daemon" /\ q.pc = "claimed" => q.taken = <<>>
    /\ q.pc = "capturing" => Len(q.taken) <= Len(Capture(Family[q.job]))
    /\ \/ q.pc \in {"enqueued", "checking"} \cup Ingesting
       \/ p = "operator" /\ q.pc = "claimed"
       => Sized(Family[q.job], Len(q.taken))
    /\ q.pc \in {"persisting", "publishing"} => q.kept < Len(q.taken)
    /\ q.pc = "parsing" => q.kept \in 1 .. Len(q.taken)
    /\ q.pc = "observing" =>
          /\ q.kept = Len(q.taken)
          /\ q.todo \subseteq RecordsOf[q.taken[Len(q.taken)]]

Shapes == \A p \in Process : Shape(p, proc[p])

(* The daemon holds writer.lock for a tick, the operator's process while it*)
(* persists evidence.                                                      *)
WriterIsHeld ==
    /\ proc["daemon"].pc \in {"ticking", "claimed"} \cup HasRun
          <=> writer = "daemon"
    /\ proc["operator"].pc = "publishing" <=> writer = "operator"

JobsAreOwned ==
    \A j \in Job :
        /\ job[j].owner # None <=> job[j].state \in {"claimed", "running"}
        /\ job[j].owner # None <=> job[j].lease # "none"

(* The runs of a job are its attempts, and the last one runs with it.      *)
RunsFollowJobs ==
    \A j \in Job, n \in Attempt :
        /\ run[<<j, n>>] = "none" <=> n > job[j].attempts
        /\ run[<<j, n>>] = "running"
              <=> job[j].state = "running" /\ n = job[j].attempts

DataIsOfRuns ==
    /\ \A e \in evidence : run[e.run] # "none"
    /\ \A o \in observed : run[o.run] # "none"
    /\ \A x \in captured : run[x.run] # "none"

(* The daemon has the claim it works on and left no other behind; a run is *)
(* that of one process.                                                    *)
ClaimsAreKept ==
    /\ proc["daemon"].pc = "claimed" =>
          /\ job[proc["daemon"].job].state = "claimed"
          /\ job[proc["daemon"].job].owner = "daemon"
    /\ proc["daemon"].pc \in HasRun => Owns("daemon")
    /\ \A j \in Job : job[j].owner = "daemon" =>
          job[j].lease = "stale" \/ j \in orphaned \/ proc["daemon"].job = j
    /\ proc["operator"].pc \in HasRun =>
          proc["operator"].no <= job[proc["operator"].job].attempts
    /\ \A p, q \in Process :
          p # q /\ proc[p].pc \in HasRun /\ proc[q].pc \in HasRun =>
              RunOf(p) # RunOf(q)

(* The evidence of run r is that of the first n artifacts taken, and what  *)
(* was captured for it is among them.                                      *)
Kept(r, roles, taken, n, ev, cap) ==
    /\ \A e \in ev : e.run = r =>
          \E i \in 1 .. n : e.role = roles[i] /\ e.content = taken[i]
    /\ \A i \in 1 .. n :
          [run |-> r, role |-> roles[i], content |-> taken[i]] \in ev
    /\ \A x \in cap : x.run = r => \E i \in 1 .. Len(taken) : taken[i] = x.content

(* The observations of run r are those of the records.                     *)
Seen(r, records, ob) ==
    \A record \in Record :
        (\E o \in ob : o.run = r /\ o.record = record) <=> record \in records

(* What the store has of the run of a process q: what q has done so far.   *)
Contents(q, ev, ob, cap, files) ==
    q.pc \in Writing =>
        /\ Kept(<<q.job, q.no>>, Ingest(Family[q.job], Len(q.taken)), q.taken,
                q.kept, ev, cap)
        /\ Seen(<<q.job, q.no>>,
                IF q.pc = "observing"
                THEN RecordsOf[q.taken[Len(q.taken)]] \ q.todo ELSE {}, ob)
        /\ q.pc = "publishing" => q.taken[q.kept + 1] \in files

ContentsAreExact ==
    \A p \in Process : Contents(proc[p], evidence, observed, captured, objects)

IInv ==
    /\ TypeOK /\ Shapes /\ WriterIsHeld /\ JobsAreOwned /\ RunsFollowJobs
    /\ DataIsOfRuns /\ ClaimsAreKept /\ ContentsAreExact
    /\ EvidenceIsBacked /\ ObservationsAreEvidenced /\ CapturesAreEvidence
    /\ ResultsAreComplete
=============================================================================
