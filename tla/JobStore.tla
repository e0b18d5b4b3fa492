------------------------------ MODULE JobStore ------------------------------
(***************************************************************************)
(* The durable job queue of OperationalStore (src/nan_fung/operational.py):*)
(* the tables workflow_job, workflow_attempt and ingestion_run, and every  *)
(* public operation that moves a job through its life:                     *)
(*                                                                         *)
(*   queued -> claimed -> running -> succeeded | empty | failed |          *)
(*     ^          |          |       cancelled | dead_letter               *)
(*     +----------+          +-> retry_wait -> claimed -> ...              *)
(*                                                                         *)
(* Each operation is one SQLite transaction taken under the cross-process  *)
(* writer lock, so each is one atomic action here.  What is not atomic is  *)
(* a WORKER: it claims, starts, heartbeats and finishes in separate        *)
(* operations, and between any two of them its lease may expire, another   *)
(* process may recover or cancel the job, or the worker may die.  A worker *)
(* therefore keeps a handle (ClaimedJob, then RunHandle/SystemJobHandle)   *)
(* which the store must refuse once it is stale.                           *)
(*                                                                         *)
(* Each column of workflow_job that an operation changes is a variable of  *)
(* its own; the columns fixed by INSERT are together in `identity'.        *)
(***************************************************************************)
EXTENDS Integers, Sequences, FiniteSets

CONSTANTS
    JobId,         \* the ids new_id("job") can return
    Worker,        \* processes that claim jobs: the daemon, CLI lifecycles
    Token,         \* the values new_id("claim") can return
    Request,       \* what a caller asks for; see RequestRecord
    AttemptLimit,  \* the schema's CHECK(max_attempts BETWEEN 1 AND 20)
    LeaseSeconds,  \* lease_seconds of claim_next, claim_job and heartbeat
    RetryAfter,    \* delays a throttled host may impose through retry_at
    Skew,          \* how old the timestamp a caller passes as `now' may be
    MaxTime,       \* bound: the clock stops here
    NoJob, NoToken, NoIdentity

(***************************************************************************)
(* A request carries the part of a datasource definition the queue reads:  *)
(* the trigger and (for a schedule or a backfill window) the past instant  *)
(* it is for, the retry policy, and whether a successful run of it may be  *)
(* promoted (production lane and an automatic promotion policy).  A call   *)
(* with an explicit request_instance_id is a request of its own with       *)
(* another trigger than "manual": it dedupes in the same way.              *)
(***************************************************************************)
Triggers == {"manual", "schedule", "backfill", "agent_request"}

RequestRecord ==
    [kind      : {"ingestion", "projection"},
     trigger   : Triggers,
     slot      : Nat,
     priority  : Nat,
     attempts  : 1..AttemptLimit,
     base      : Nat,
     maximum   : Nat,
     promotion : {"automatic", "none"}]

(* The columns of workflow_job that its INSERT fixes.                      *)
IdentityRecord == [request     : Request,
                   trigger     : Triggers,
                   parent      : JobId \cup {NoJob},
                   generation  : Nat,
                   instance    : JobId \cup {NoJob},
                   scheduledFor: Nat]

ASSUME AttemptLimitAssumption == AttemptLimit \in Nat \ {0}
ASSUME RequestAssumption == Request \subseteq RequestRecord
ASSUME LeaseAssumption == LeaseSeconds \in Nat \ {0}
ASSUME TimeAssumption == Skew \in Nat /\ MaxTime \in Nat
ASSUME RetryAfterAssumption == RetryAfter \subseteq Nat
ASSUME NullAssumption == /\ NoJob \notin JobId
                         /\ NoToken \notin Token
                         /\ NoIdentity \notin IdentityRecord

Attempt == 1..AttemptLimit

ClaimableStates == {"queued", "retry_wait"}
LeasedStates    == {"claimed", "running"}
TerminalStates  == {"succeeded", "empty", "failed", "dead_letter", "cancelled"}
JobStates       == {"absent"} \cup ClaimableStates \cup LeasedStates
                     \cup TerminalStates
ClosedStatuses  == {"succeeded", "empty", "partial", "failed", "cancelled"}
AttemptStatuses == {"none", "running"} \cup ClosedStatuses

NoLease == 0      \* lease_expires_at IS NULL: a lease ends after time 0

VARIABLES
    now,            \* the wall clock
    state,          \* workflow_job.state, "absent" before the INSERT
    identity,       \* the columns the INSERT fixes: request, parent, ...
    attemptCount,   \* workflow_job.attempt_count
    availableAt,    \* workflow_job.available_at
    claimToken,     \* workflow_job.claim_token
    leaseExpiresAt, \* workflow_job.lease_expires_at
    attempt,        \* workflow_attempt.status by (job_id, attempt_no)
    run,            \* ingestion_run.status by the attempt it belongs to
    promoted,       \* the (job, attempt) whose run has a run_promotion row
    handle          \* what each worker's process remembers

jobVars == <<state, identity, attemptCount, availableAt, claimToken,
             leaseExpiresAt>>
vars == <<now, jobVars, attempt, run, promoted, handle>>

(***************************************************************************)
(* A handle: attempt is 0 for a ClaimedJob and the attempt number for a    *)
(* RunHandle or SystemJobHandle; at is the timestamp its process read last.*)
(***************************************************************************)
HandleRecord == [job     : JobId \cup {NoJob},
                 token   : Token \cup {NoToken},
                 attempt : 0..AttemptLimit,
                 at      : Nat]

NoHandle == [job |-> NoJob, token |-> NoToken, attempt |-> 0, at |-> 0]

TypeOK ==
    /\ now \in Nat
    /\ state \in [JobId -> JobStates]
    /\ identity \in [JobId -> IdentityRecord \cup {NoIdentity}]
    /\ attemptCount \in [JobId -> 0..AttemptLimit]
    /\ availableAt \in [JobId -> Nat]
    /\ claimToken \in [JobId -> Token \cup {NoToken}]
    /\ leaseExpiresAt \in [JobId -> Nat]
    /\ attempt \in [JobId -> [Attempt -> AttemptStatuses]]
    /\ run \in [JobId -> [Attempt -> AttemptStatuses]]
    /\ promoted \subseteq JobId \X Attempt
    /\ handle \in [Worker -> HandleRecord]

Init ==
    /\ now = 0
    /\ state = [j \in JobId |-> "absent"]
    /\ identity = [j \in JobId |-> NoIdentity]
    /\ attemptCount = [j \in JobId |-> 0]
    /\ availableAt = [j \in JobId |-> 0]
    /\ claimToken = [j \in JobId |-> NoToken]
    /\ leaseExpiresAt = [j \in JobId |-> NoLease]
    /\ attempt = [j \in JobId |-> [n \in Attempt |-> "none"]]
    /\ run = [j \in JobId |-> [n \in Attempt |-> "none"]]
    /\ promoted = {}
    /\ handle = [w \in Worker |-> NoHandle]

-----------------------------------------------------------------------------
(* Helpers.                                                                *)

MaxAttempts(j) == identity[j].request.attempts
IsSystem(j)    == identity[j].request.kind = "projection"

Larger(a, b)  == IF a >= b THEN a ELSE b
Smaller(a, b) == IF a <= b THEN a ELSE b

(* new_id: an identifier that nothing in the system refers to.             *)
FreshTokens == {t \in Token : /\ \A j \in JobId : claimToken[j] # t
                              /\ \A w \in Worker : handle[w].token # t}
FreshToken == CHOOSE t \in FreshTokens : TRUE

(***************************************************************************)
(* _retry_timestamp: base * 2^(n-1) capped at the maximum; a maximum below *)
(* the base is not accepted, and the exponent is clamped to 0..16.         *)
(***************************************************************************)
DefaultMaximum == 3600

(* 2**exponent for the exponents 0..16.                                    *)
PowerOfTwo ==
    <<1, 2, 4, 8, 16, 32, 64, 128, 256, 512, 1024, 2048, 4096, 8192, 16384,
      32768, 65536>>

Backoff(j, n) ==
    LET policy   == identity[j].request
        maximum  == IF policy.maximum < policy.base
                    THEN Larger(policy.base, DefaultMaximum)
                    ELSE policy.maximum
        exponent == Larger(0, Smaller(n - 1, 16))
    IN  Smaller(maximum, policy.base * PowerOfTwo[exponent + 1])

(* The timestamps a caller may hand to an operation: read at most Skew ago.*)
Anchors == {t \in 0..now : now - t <= Skew}

-----------------------------------------------------------------------------
(* Creating jobs.                                                          *)

Insert(j, id, at) ==
    /\ state[j] = "absent"
    /\ state' = [state EXCEPT ![j] = "queued"]
    /\ identity' = [identity EXCEPT ![j] = id]
    /\ availableAt' = [availableAt EXCEPT ![j] = at]
    /\ UNCHANGED <<now, attemptCount, claimToken, leaseExpiresAt, attempt,
                   run, promoted, handle>>

(* The dedupe_key of the row: everything in its identity but the instant,  *)
(* which is part of the key only through the slot of a schedule.           *)
SameDedupeKey(a, b) ==
    /\ a.request = b.request
    /\ a.trigger = b.trigger
    /\ a.parent = b.parent
    /\ a.generation = b.generation
    /\ a.instance = b.instance

Root(r, instance, at) ==
    [request |-> r, trigger |-> r.trigger, parent |-> NoJob, generation |-> 0,
     instance |-> instance, scheduledFor |-> at]

Duplicates(id) ==
    {j \in JobId : state[j] # "absent" /\ SameDedupeKey(identity[j], id)}

ScheduledFor(r) == IF r.trigger \in {"schedule", "backfill"}
                   THEN r.slot ELSE now

(***************************************************************************)
(* enqueue with no request_instance_id.  An existing row answers the call  *)
(* (no change), unless the trigger is manual and that row is terminal: then*)
(* the new row gets a request_instance_id of its own.  A fresh instance id *)
(* is unique to the row, so the row's own job id stands for it.            *)
(***************************************************************************)
Enqueue(r, j) ==
    LET at       == ScheduledFor(r)
        existing == Duplicates(Root(r, NoJob, at))
        instance == IF existing = {} THEN NoJob ELSE j
    IN  /\ r.kind = "ingestion"
        /\ r.trigger # "backfill"
        /\ at <= now
        /\ \A d \in existing : r.trigger = "manual" /\ state[d] \in TerminalStates
        /\ Insert(j, Root(r, instance, at), at)

(* enqueue_backfill: always a fresh request_instance_id.                   *)
EnqueueBackfill(r, j) ==
    /\ r.kind = "ingestion"
    /\ r.trigger = "backfill"
    /\ r.slot <= now
    /\ Insert(j, Root(r, j, r.slot), r.slot)

(* enqueue_projection_delivery: an existing row always answers the call.   *)
EnqueueProjection(r, j) ==
    LET at == ScheduledFor(r)
    IN  /\ r.kind = "projection"
        /\ at <= now
        /\ Duplicates(Root(r, NoJob, at)) = {}
        /\ Insert(j, Root(r, NoJob, at), at)

(* retry: a new manual job linked to a terminal, unsuccessful one.         *)
Retry(p, j) ==
    /\ state[p] \in {"failed", "dead_letter", "cancelled"}
    /\ ~IsSystem(p)
    /\ Insert(j, [request |-> identity[p].request, trigger |-> "manual",
                  parent |-> p, generation |-> identity[p].generation + 1,
                  instance |-> j, scheduledFor |-> now], now)

-----------------------------------------------------------------------------
(* Recovery of expired leases.                                             *)

(* Mutant: a lease is taken for expired one second early.                  *)
ExpiredEarly(j, at) ==
    /\ state[j] \in LeasedStates
    /\ leaseExpiresAt[j] # NoLease
    /\ leaseExpiresAt[j] <= at + 1

Expired(j, at) ==
    /\ state[j] \in LeasedStates
    /\ leaseExpiresAt[j] # NoLease
    /\ leaseExpiresAt[j] <= at

(* The next state of an expired job; an unstarted claim goes back to the   *)
(* queue, a running attempt is charged to the budget.                      *)
RecoveredState(j) ==
    IF state[j] = "claimed" THEN "queued"
    ELSE IF attemptCount[j] < MaxAttempts(j) THEN "retry_wait"
    ELSE "dead_letter"

RecoveredAvailableAt(j, at) ==
    IF RecoveredState(j) = "retry_wait"
    THEN at + Backoff(j, attemptCount[j]) ELSE at

(* Mutant: the attempt of an expired job is left running.                  *)
FailNothing(table, j, at) == table[j]

(* Recovery fails the running attempt of an expired running job ...        *)
FailRunning(table, j, at) ==
    [n \in Attempt |->
        IF Expired(j, at) /\ state[j] = "running" /\ attempt[j][n] = "running"
           /\ table[j][n] = "running"
        THEN "failed" ELSE table[j][n]]

(* ... and the six job columns, each as recover_expired leaves it.         *)
StateAfter(at) ==
    [j \in JobId |-> IF Expired(j, at) THEN RecoveredState(j) ELSE state[j]]
AvailableAfter(at) ==
    [j \in JobId |-> IF Expired(j, at) THEN RecoveredAvailableAt(j, at)
                                       ELSE availableAt[j]]
TokenAfter(at) ==
    [j \in JobId |-> IF Expired(j, at) THEN NoToken ELSE claimToken[j]]
LeaseAfter(at) ==
    [j \in JobId |-> IF Expired(j, at) THEN NoLease ELSE leaseExpiresAt[j]]

(* recover_expired: one transaction over every expired lease.              *)
RecoverExpired(at) ==
    /\ \E j \in JobId : Expired(j, at)
    /\ state' = StateAfter(at)
    /\ availableAt' = AvailableAfter(at)
    /\ claimToken' = TokenAfter(at)
    /\ leaseExpiresAt' = LeaseAfter(at)
    /\ attempt' = [j \in JobId |-> FailRunning(attempt, j, at)]
    /\ run' = [j \in JobId |-> FailRunning(run, j, at)]
    /\ UNCHANGED <<now, identity, attemptCount, promoted, handle>>

-----------------------------------------------------------------------------
(* Claiming.  Both claims recover expired leases first, at the same anchor.*)

Due(j, at) ==
    /\ StateAfter(at)[j] \in ClaimableStates
    /\ AvailableAfter(at)[j] <= at

(* ORDER BY priority, available_at, scheduled_for, job_id: job ids are     *)
(* random, so a tie on the first three is broken arbitrarily.              *)
Before(i, j, at) ==
    LET pi == identity[i].request.priority  pj == identity[j].request.priority
        ai == AvailableAfter(at)[i]         aj == AvailableAfter(at)[j]
        si == identity[i].scheduledFor      sj == identity[j].scheduledFor
    IN  \/ pi < pj
        \/ pi = pj /\ ai < aj
        \/ pi = pj /\ ai = aj /\ si < sj

(* _claim_row, applied to the rows recovery has just written.              *)
ClaimRow(w, j, at) ==
    /\ handle[w] = NoHandle
    /\ FreshTokens # {}
    /\ Due(j, at)
    /\ state' = [StateAfter(at) EXCEPT ![j] = "claimed"]
    /\ availableAt' = AvailableAfter(at)
    /\ claimToken' = [TokenAfter(at) EXCEPT ![j] = FreshToken]
    /\ leaseExpiresAt' = [LeaseAfter(at) EXCEPT ![j] = at + LeaseSeconds]
    /\ attempt' = [k \in JobId |-> FailRunning(attempt, k, at)]
    /\ run' = [k \in JobId |-> FailRunning(run, k, at)]
    /\ handle' = [handle EXCEPT ![w] = [job |-> j, token |-> FreshToken,
                                        attempt |-> 0, at |-> at]]
    /\ UNCHANGED <<now, identity, attemptCount, promoted>>

(* claim_next; with nothing due it is recover_expired alone.               *)
ClaimNext(w, at) ==
    \E j \in JobId : /\ Due(j, at)
                     /\ \A i \in JobId : Due(i, at) => ~Before(i, j, at)
                     /\ ClaimRow(w, j, at)

(* claim_job: a lifecycle run from the CLI claims the job it enqueued.     *)
ClaimJob(w, j, at) == ClaimRow(w, j, at)

-----------------------------------------------------------------------------
(* A worker with a handle.  It passes a timestamp it froze earlier in its  *)
(* execution, or a new reading of the clock.                               *)

Readings(w) == handle[w].at..now

(* Mutant: the claim token is not compared.                                *)
OwnsAnyClaim(w, s, at) ==
    /\ handle[w].job # NoJob
    /\ state[handle[w].job] = s
    /\ leaseExpiresAt[handle[w].job] > at

OwnsClaim(w, s, at) ==
    /\ handle[w].job # NoJob
    /\ state[handle[w].job] = s
    /\ claimToken[handle[w].job] = handle[w].token
    /\ leaseExpiresAt[handle[w].job] > at

(* The part start_run and start_system_job share.                          *)
StartAttempt(w, at) ==
    LET j == handle[w].job  n == attemptCount[j] + 1
    IN  /\ OwnsClaim(w, "claimed", at)
        /\ n <= MaxAttempts(j)
        /\ state' = [state EXCEPT ![j] = "running"]
        /\ attemptCount' = [attemptCount EXCEPT ![j] = n]
        /\ attempt' = [attempt EXCEPT ![j][n] = "running"]
        /\ handle' = [handle EXCEPT ![w] = [@ EXCEPT !.attempt = n, !.at = at]]
        /\ UNCHANGED <<now, identity, availableAt, claimToken, leaseExpiresAt,
                       promoted>>

StartRun(w, at) ==
    /\ handle[w].job # NoJob
    /\ handle[w].attempt = 0
    /\ ~IsSystem(handle[w].job)
    /\ StartAttempt(w, at)
    /\ run' = [run EXCEPT ![handle[w].job][attemptCount[handle[w].job] + 1] =
                  "running"]

StartSystemJob(w, at) ==
    /\ handle[w].job # NoJob
    /\ handle[w].attempt = 0
    /\ IsSystem(handle[w].job)
    /\ StartAttempt(w, at)
    /\ UNCHANGED run

(* heartbeat takes a RunHandle, so only ingestion runs renew their lease.  *)
Heartbeat(w, at) ==
    /\ handle[w].attempt # 0
    /\ OwnsClaim(w, "running", at)
    /\ ~IsSystem(handle[w].job)
    /\ leaseExpiresAt' = [leaseExpiresAt EXCEPT ![handle[w].job] =
                             at + LeaseSeconds]
    /\ handle' = [handle EXCEPT ![w].at = at]
    /\ UNCHANGED <<now, state, identity, attemptCount, availableAt, claimToken,
                   attempt, run, promoted>>

(* What both finish operations write: the attempt is closed if it is still *)
(* running, the claim is cleared, and available_at moves only when the job *)
(* will be retried.                                                        *)
CloseAttempt(w, status, next, retryAt) ==
    LET j == handle[w].job
    IN  /\ state' = [state EXCEPT ![j] = next]
        /\ availableAt' = [availableAt EXCEPT ![j] =
                              IF next = "retry_wait" THEN retryAt ELSE @]
        /\ claimToken' = [claimToken EXCEPT ![j] = NoToken]
        /\ leaseExpiresAt' = [leaseExpiresAt EXCEPT ![j] = NoLease]
        /\ attempt' = [attempt EXCEPT ![j][handle[w].attempt] =
                          IF @ = "running" THEN status ELSE @]
        /\ handle' = [handle EXCEPT ![w] = NoHandle]
        /\ UNCHANGED <<now, identity, attemptCount>>

(* The state finish_run gives the job; a retryable outcome is retried      *)
(* while the budget lasts, whatever its status.                            *)
FinishedState(j, status, retryable) ==
    CASE status \in {"succeeded", "empty"} -> status
      [] status \notin {"succeeded", "empty"} /\ retryable ->
            IF attemptCount[j] < MaxAttempts(j) THEN "retry_wait"
                                                ELSE "dead_letter"
      [] OTHER -> IF status = "cancelled" THEN "cancelled" ELSE "failed"

(* A promotion needs a successful run of an automatic production definition.*)
MayPromote(j, status) ==
    /\ status = "succeeded"
    /\ identity[j].request.promotion = "automatic"

(* finish_run.  delay is the throttle's retry_at, counted from `at'; 0 is  *)
(* no retry_at.  A promotion that is refused rolls the transaction back.   *)
FinishRun(w, at, status, retryable, delay, promote) ==
    LET j == handle[w].job  n == handle[w].attempt
    IN  /\ n # 0
        /\ OwnsClaim(w, "running", at)
        /\ ~IsSystem(j)
        /\ attempt[j][n] = "running"
        /\ delay # 0 => retryable
        /\ promote => MayPromote(j, status)
        /\ CloseAttempt(w, status, FinishedState(j, status, retryable),
                        at + Larger(Backoff(j, attemptCount[j]), delay))
        /\ run' = [run EXCEPT ![j][n] = status]
        /\ promoted' = IF promote THEN promoted \cup {<<j, n>>} ELSE promoted

SystemFinishedState(j, status) ==
    IF status # "failed" THEN status
    ELSE IF attemptCount[j] < MaxAttempts(j) THEN "retry_wait"
    ELSE "dead_letter"

(* finish_system_job: the same lease check, but not the attempt's status.  *)
FinishSystemJob(w, at, status) ==
    LET j == handle[w].job
    IN  /\ handle[w].attempt # 0
        /\ OwnsClaim(w, "running", at)
        /\ IsSystem(j)
        /\ status \in {"succeeded", "failed", "cancelled"}
        /\ CloseAttempt(w, status, SystemFinishedState(j, status),
                        at + Backoff(j, attemptCount[j]))
        /\ UNCHANGED <<run, promoted>>

-----------------------------------------------------------------------------
(* The operator and the environment.                                       *)

(* cancel: a running job is left alone; the claim columns are not cleared. *)
Cancel(j) ==
    /\ state[j] \in ClaimableStates \cup {"claimed"}
    /\ state' = [state EXCEPT ![j] = "cancelled"]
    /\ UNCHANGED <<now, identity, attemptCount, availableAt, claimToken,
                   leaseExpiresAt, attempt, run, promoted, handle>>

(* The worker's process dies, or gives up after the store refused its      *)
(* handle: nothing durable changes and the handle is gone.                 *)
Abandon(w) ==
    /\ handle[w] # NoHandle
    /\ handle' = [handle EXCEPT ![w] = NoHandle]
    /\ UNCHANGED <<now, jobVars, attempt, run, promoted>>

Tick ==
    /\ now < MaxTime
    /\ now' = now + 1
    /\ UNCHANGED <<jobVars, attempt, run, promoted, handle>>

-----------------------------------------------------------------------------

Submit ==
    \E j \in JobId :
        \/ \E r \in Request : \/ Enqueue(r, j)
                              \/ EnqueueBackfill(r, j)
                              \/ EnqueueProjection(r, j)
        \/ \E p \in JobId : Retry(p, j)

Claim(w) ==
    \E at \in Anchors : \/ ClaimNext(w, at)
                        \/ \E j \in JobId : ClaimJob(w, j, at)

Start(w) == \E at \in Readings(w) : StartRun(w, at) \/ StartSystemJob(w, at)

Finish(w) ==
    \E at \in Readings(w), status \in ClosedStatuses :
        \/ \E retryable, promote \in BOOLEAN, delay \in RetryAfter \cup {0} :
              FinishRun(w, at, status, retryable, delay, promote)
        \/ FinishSystemJob(w, at, status)

Next ==
    \/ Submit
    \/ \E w \in Worker :
          \/ Claim(w)
          \/ Start(w)
          \/ \E at \in Readings(w) : Heartbeat(w, at)
          \/ Finish(w)
          \/ Abandon(w)
    \/ \E at \in Anchors : RecoverExpired(at)
    \/ \E j \in JobId : Cancel(j)
    \/ Tick

Spec == Init /\ [][Next]_vars

-----------------------------------------------------------------------------
(* Safety invariants.  Together with TypeOK they are inductive.            *)

(* A job holds a claim exactly while it is claimed or running, except that *)
(* cancel() leaves the columns of a claimed job as they were.              *)
ClaimColumns ==
    \A j \in JobId :
        /\ state[j] \in LeasedStates => /\ claimToken[j] # NoToken
                                        /\ leaseExpiresAt[j] # NoLease
        /\ state[j] \notin LeasedStates \cup {"cancelled"} =>
              /\ claimToken[j] = NoToken
              /\ leaseExpiresAt[j] = NoLease
        /\ state[j] = "absent" <=> identity[j] = NoIdentity
        /\ state[j] = "absent" => attemptCount[j] = 0

(* The attempts of a job are numbered 1..attempt_count without gaps, and   *)
(* one is running exactly while the job is: it is the last.  recover_expired*)
(* and finish_system_job rely on it, for they close "the" running attempt. *)
AttemptLedger ==
    \A j \in JobId, n \in Attempt :
        /\ attempt[j][n] = "none" <=> n > attemptCount[j]
        /\ attempt[j][n] = "running" <=>
              state[j] = "running" /\ n = attemptCount[j]
        /\ state[j] = "running" => attemptCount[j] # 0

(* An attempt of an ingestion job and its ingestion_run have one status,   *)
(* though three operations write the two tables; a system job has no run.  *)
RunMirrorsAttempt ==
    \A j \in JobId, n \in Attempt :
        run[j][n] = IF state[j] # "absent" /\ IsSystem(j) THEN "none"
                                                          ELSE attempt[j][n]

(* A job that can be claimed, or is claimed, has an attempt left: start_run*)
(* never refuses a valid claim, which would leave the job to be reclaimed  *)
(* and refused for ever.                                                   *)
ClaimableHasBudget ==
    \A j \in JobId :
        /\ state[j] \in ClaimableStates \cup {"claimed"} =>
              attemptCount[j] < MaxAttempts(j)
        /\ state[j] # "absent" => attemptCount[j] <= MaxAttempts(j)

(* A result is final: an attempt that succeeded (or found nothing) is the  *)
(* last of its job, the job is in that state, and the job is in that state *)
(* only through such an attempt.                                           *)
ResultIsFinal ==
    \A j \in JobId : \A result \in {"succeeded", "empty"} :
        /\ state[j] = result => /\ attemptCount[j] # 0
                                /\ attempt[j][attemptCount[j]] = result
        /\ \A n \in Attempt : attempt[j][n] = result =>
              n = attemptCount[j] /\ state[j] = result

(* Only the successful run of a succeeded job is promoted, so no job has   *)
(* two promoted runs, whatever was retried.                                *)
PromotedRunsSucceeded ==
    \A p \in promoted :
        /\ state[p[1]] = "succeeded"
        /\ run[p[1]][p[2]] = "succeeded"
        /\ identity[p[1]].request.promotion = "automatic"

(* The claim token fences workers: a handle whose token the job still      *)
(* carries is a claim for a claimed job and the handle of the last attempt *)
(* for a running one, and no two workers share a token.                    *)
HandlesAreFenced ==
    /\ \A w \in Worker :
          LET h == handle[w]
          IN  /\ h.job = NoJob => h.token = NoToken /\ h.attempt = 0
              /\ h.job # NoJob =>
                    /\ h.token # NoToken
                    /\ state[h.job] # "absent"
                    /\ claimToken[h.job] = h.token =>
                          /\ state[h.job] = "claimed" => h.attempt = 0
                          /\ state[h.job] = "running" =>
                                h.attempt = attemptCount[h.job]
    /\ \A v, w \in Worker :
          v # w /\ handle[v].job # NoJob => handle[v].token # handle[w].token

IInv ==
    /\ TypeOK
    /\ ClaimColumns
    /\ AttemptLedger
    /\ RunMirrorsAttempt
    /\ ClaimableHasBudget
    /\ ResultIsFinal
    /\ PromotedRunsSucceeded
    /\ HandlesAreFenced

(* A request_instance_id made by the store belongs to the row it was made  *)
(* for.                                                                    *)
InstanceIsOwn ==
    \A j \in JobId : state[j] # "absent" => identity[j].instance \in {NoJob, j}

(* No two jobs have the same dedupe_key, so the UNIQUE constraint never    *)
(* fails an enqueue, a retry or a repeated manual request.                 *)
DedupeKeysAreUnique ==
    \A i, j \in JobId :
        i # j /\ state[i] # "absent" /\ state[j] # "absent" =>
            ~SameDedupeKey(identity[i], identity[j])

(* The three tables agree at every commit, whoever wrote last: the claim   *)
(* columns with the job's state, the attempts with the job's count, each   *)
(* ingestion_run with its attempt, each promotion with a job that          *)
(* succeeded, and no two rows have one dedupe_key.  Enqueue, start, finish *)
(* and recovery each write some of them and rely on the others.            *)
TablesAreConsistent ==
    /\ TypeOK
    /\ ClaimColumns
    /\ AttemptLedger
    /\ RunMirrorsAttempt
    /\ PromotedRunsSucceeded
    /\ DedupeKeysAreUnique

-----------------------------------------------------------------------------
(* Action properties.                                                      *)

HolderActs(j) == \E w \in Worker : /\ handle[w].job = j
                                   /\ handle[w].token = claimToken[j]
                                   /\ handle'[w] # handle[w]

(* While a lease has not expired, only the worker that holds it moves the  *)
(* job on; an operator may cancel a job that is claimed and not started.   *)
LiveLeaseIsExclusive ==
    [][\A j \in JobId :
          state[j] \in LeasedStates /\ leaseExpiresAt[j] > now
              /\ state'[j] # state[j]
          => \/ HolderActs(j)
             \/ state[j] = "claimed" /\ state'[j] = "cancelled"]_vars

(* A late worker cannot report an outcome: an attempt that ends in anything*)
(* but "failed" is closed by the worker whose token the job carries.       *)
LateWorkerCannotCommit ==
    [][\A j \in JobId, n \in Attempt :
          attempt[j][n] = "running" /\ attempt'[j][n] \notin {"running", "failed"}
          => \E w \in Worker : /\ handle[w].job = j
                               /\ handle[w].token = claimToken[j]
                               /\ handle[w].attempt = n]_vars

-----------------------------------------------------------------------------
(* The life cycle the tables carry out.                                    *)

Budget == [j \in JobId |-> IF state[j] = "absent" THEN 0 ELSE MaxAttempts(j)]

Lifecycle == INSTANCE JobLifecycle WITH
    Job <- JobId, Limit <- AttemptLimit, budget <- Budget,
    count <- attemptCount, outcome <- attempt

(* The store implements the life cycle: through any interleaving of its    *)
(* workers, operators and recoveries, with leases that pass and timestamps *)
(* that are old, the attempts of a job are numbered, bounded by its budget *)
(* and closed once, and the job is in a state its last attempt allows.     *)
ImplementsLifecycle == Lifecycle!Spec
=============================================================================
