---------------------------- MODULE MemoryQueue ----------------------------
(***************************************************************************)
(* InMemoryJobQueue (ingestion/jobs.py), the reference queue whose rules   *)
(* "storage-backed adapters should preserve".  Every method holds one lock *)
(* and is one action; threads keep their JobClaims between the calls, and  *)
(* pass a `now' they may have read before they got the lock.               *)
(*                                                                         *)
(* Abstractions: a dedupe key is the request it is a hash of; worker ids,  *)
(* errors, heartbeats and the times of a job that nothing reads are left   *)
(* out; the jitter of a delay is a choice among Delays.                    *)
(***************************************************************************)
EXTENDS Integers, Sequences

CONSTANTS
    Job, Thread, Token,
    Request,   \* records with the fields attempts (max_attempts) and priority
    Limit,     \* the largest max_attempts
    Delays,    \* the values delay_for may return
    Lease,     \* the lease of a claim and of a heartbeat
    Skew,      \* how old a thread's `now' may be
    MaxTime,   \* bound: the clock stops here
    None

ASSUME QueueAssumption ==
    /\ Limit \in Nat \ {0} /\ Lease \in Nat \ {0}
    /\ {Skew, MaxTime} \subseteq Nat /\ Delays \subseteq Nat
    /\ Request \subseteq [attempts : 1..Limit, priority : Nat]
ASSUME NoneAssumption == None \notin Token

VARIABLES
    now,
    jobs,      \* _jobs and _dedupe
    attempts,  \* _attempts: the statuses of each job's attempts
    claims     \* the JobClaim of each thread

vars == <<now, jobs, attempts, claims>>

Waiting  == {"queued", "retry_wait"}
Active   == {"claimed", "running"}
Terminal == {"succeeded", "empty", "failed", "dead_letter", "cancelled"}
Closed   == {"succeeded", "empty", "partial", "failed", "cancelled"}

NoJob   == [state |-> "absent", request |-> None, count |-> 0,
            available |-> 0, token |-> None, lease |-> 0]
NoClaim == [job |-> None, token |-> None]

TypeOK ==
    /\ now \in 0..MaxTime
    /\ \A j \in Job :
         \/ jobs[j] = NoJob /\ attempts[j] = <<>>
         \/ /\ jobs[j].state \in Waiting \cup Active \cup Terminal
            /\ jobs[j].request \in Request
            /\ jobs[j].count = Len(attempts[j])
            /\ jobs[j].available \in Nat
            /\ jobs[j].token \in Token \cup {None}
            /\ jobs[j].lease \in Nat
            /\ Len(attempts[j]) <= jobs[j].request.attempts
            /\ \A n \in DOMAIN attempts[j] :
                  attempts[j][n] \in Closed \cup {"running"}
    /\ \A t \in Thread : claims[t].job \in Job \cup {None}
                      /\ claims[t].token \in Token \cup {None}

Init ==
    /\ now = 0
    /\ jobs = [j \in Job |-> NoJob]
    /\ attempts = [j \in Job |-> <<>>]
    /\ claims = [t \in Thread |-> NoClaim]

Anchors == {at \in 0..now : now - at <= Skew}

-----------------------------------------------------------------------------
(* A job of the same request answers the call.                             *)
Enqueue(j, r) ==
    /\ jobs[j] = NoJob
    /\ \A k \in Job : jobs[k] # NoJob => jobs[k].request # r
    /\ jobs' = [jobs EXCEPT ![j] = [NoJob EXCEPT !.state = "queued",
                                       !.request = r, !.available = now]]
    /\ UNCHANGED <<now, attempts, claims>>

Retried(job) == job.count < job.request.attempts

(* _complete_job; delay is what delay_for returns.                         *)
Completed(job, status, retryable, at, delay) ==
    LET free == [job EXCEPT !.token = None, !.lease = 0]
    IN  CASE status \in {"succeeded", "empty", "cancelled"} ->
                [free EXCEPT !.state = status]
          [] status \in {"partial", "failed"} /\ retryable /\ Retried(job) ->
                [free EXCEPT !.state = "retry_wait", !.available = at + delay]
          [] OTHER ->
                [free EXCEPT !.state = IF retryable THEN "dead_letter"
                                                    ELSE "failed"]

Expired(job, at) == job.state \in Active /\ job.lease <= at

(* Mutant: recovery leaves the attempt of an expired job as it was.        *)
WithLastKept(s, status) == s

WithLast(s, status) == [s EXCEPT ![Len(s)] = status]

(* _recover_expired_locked: the jobs and the attempts it leaves; delay is  *)
(* what delay_for returns for each job.                                    *)
RecoveredJob(job, at, delay) ==
    CASE ~Expired(job, at) -> job
      [] Expired(job, at) /\ job.state = "claimed" ->
            [job EXCEPT !.state = "queued", !.available = at, !.token = None,
                        !.lease = 0]
      [] OTHER -> Completed(job, "failed", TRUE, at, delay)

RecoveredAttempts(j, at) ==
    IF Expired(jobs[j], at) /\ jobs[j].state = "running"
    THEN WithLast(attempts[j], "failed") ELSE attempts[j]

Recover(at, delay) ==
    /\ \E j \in Job : Expired(jobs[j], at)
    /\ jobs' = [j \in Job |-> RecoveredJob(jobs[j], at, delay[j])]
    /\ attempts' = [j \in Job |-> RecoveredAttempts(j, at)]
    /\ UNCHANGED <<now, claims>>

(* claim: the due jobs after a recovery, by priority and availability.     *)
Due(all, at) == {j \in Job : all[j].state \in Waiting /\ all[j].available <= at}

First(all, due) ==
    {j \in due : \A k \in due :
        \/ all[j].request.priority < all[k].request.priority
        \/ /\ all[j].request.priority = all[k].request.priority
           /\ all[j].available <= all[k].available}

FreshTokens == {x \in Token : /\ \A j \in Job : jobs[j].token # x
                              /\ \A t \in Thread : claims[t].token # x}

Claim(t, at, delay) ==
    LET all == [j \in Job |-> RecoveredJob(jobs[j], at, delay[j])]
    IN  /\ claims[t] = NoClaim
        /\ FreshTokens # {}
        /\ \E j \in First(all, Due(all, at)) :
             LET token == CHOOSE x \in FreshTokens : TRUE
             IN  /\ jobs' = [all EXCEPT ![j].state = "claimed",
                                        ![j].token = token,
                                        ![j].lease = at + Lease]
                 /\ claims' = [claims EXCEPT ![t] = [job |-> j, token |-> token]]
        /\ attempts' = [j \in Job |-> RecoveredAttempts(j, at)]
        /\ UNCHANGED now

-----------------------------------------------------------------------------
(* _require_claim_locked                                                   *)
Holds(t, at) ==
    /\ claims[t] # NoClaim
    /\ jobs[claims[t].job].token = claims[t].token
    /\ jobs[claims[t].job].lease > at

Start(t, at) ==
    LET j == claims[t].job
    IN  /\ Holds(t, at)
        /\ jobs[j].state = "claimed"
        /\ jobs' = [jobs EXCEPT ![j].state = "running", ![j].count = @ + 1]
        /\ attempts' = [attempts EXCEPT ![j] = Append(@, "running")]
        /\ UNCHANGED <<now, claims>>

Heartbeat(t, at) ==
    /\ Holds(t, at)
    /\ jobs' = [jobs EXCEPT ![claims[t].job].lease = at + Lease]
    /\ UNCHANGED <<now, attempts, claims>>

Finish(t, at, status, retryable, delay) ==
    LET j == claims[t].job
    IN  /\ Holds(t, at)
        /\ jobs[j].state = "running"
        /\ jobs' = [jobs EXCEPT ![j] = Completed(@, status, retryable, at, delay)]
        /\ attempts' = [attempts EXCEPT ![j] = WithLast(@, status)]
        /\ claims' = [claims EXCEPT ![t] = NoClaim]
        /\ UNCHANGED now

(* Mutant: a claimed job can be cancelled.                                 *)
CancellableActive == Waiting \cup {"claimed"}

Cancellable == Waiting

Cancel(j) ==
    /\ jobs[j].state \in Cancellable
    /\ jobs' = [jobs EXCEPT ![j].state = "cancelled"]
    /\ UNCHANGED <<now, attempts, claims>>

(* A thread gives up, or its process is gone: nothing tells the queue.     *)
Abandon(t) ==
    /\ claims[t] # NoClaim
    /\ claims' = [claims EXCEPT ![t] = NoClaim]
    /\ UNCHANGED <<now, jobs, attempts>>

Tick ==
    /\ now < MaxTime
    /\ now' = now + 1
    /\ UNCHANGED <<jobs, attempts, claims>>

-----------------------------------------------------------------------------
Next ==
    \/ \E j \in Job : Cancel(j) \/ \E r \in Request : Enqueue(j, r)
    \/ \E at \in Anchors :
         \/ \E delay \in [Job -> Delays] : Recover(at, delay)
         \/ \E t \in Thread :
              \/ Start(t, at) \/ Heartbeat(t, at)
              \/ \E delay \in [Job -> Delays] : Claim(t, at, delay)
              \/ \E status \in Closed, retryable \in BOOLEAN, delay \in Delays :
                   Finish(t, at, status, retryable, delay)
    \/ \E t \in Thread : Abandon(t)
    \/ Tick

Spec == Init /\ [][Next]_vars

-----------------------------------------------------------------------------
Outcomes(j) ==
    [n \in 1..Limit |-> IF n <= Len(attempts[j]) THEN attempts[j][n] ELSE "none"]

Lifecycle == INSTANCE JobLifecycle WITH
    state   <- [j \in Job |-> jobs[j].state],
    budget  <- [j \in Job |-> IF jobs[j] = NoJob THEN 0
                              ELSE jobs[j].request.attempts],
    count   <- [j \in Job |-> jobs[j].count],
    outcome <- [j \in Job |-> Outcomes(j)]

(* The reference queue implements the life cycle: whatever leases pass and *)
(* however late a thread acts on its claim, attempts are numbered, bounded *)
(* by the budget and closed once, and the job follows its last attempt.    *)
ImplementsLifecycle == Lifecycle!Spec

(* No replace() of an operation is refused by WorkflowJob.__post_init__:   *)
(* a job has lease fields exactly while it is active, and one that waits   *)
(* has an attempt left for start().  (recover_expired changes an attempt   *)
(* before it replaces the job, and has no way back.)                       *)
JobsAreValid ==
    /\ TypeOK
    /\ \A j \in Job : jobs[j] # NoJob =>
        /\ jobs[j].state \in Active <=> jobs[j].token # None
        /\ jobs[j].state \in Active <=> jobs[j].lease # 0
        /\ jobs[j].state \in Waiting \cup {"claimed"} => Retried(jobs[j])

-----------------------------------------------------------------------------
(* The inductive invariant of the proofs: the valid jobs, the shape of the *)
(* tables, and what start() leaves, an attempt for every running job.      *)

Row == [state : {"absent"} \cup Waiting \cup Active \cup Terminal,
        request : Request \cup {None}, count : Nat, available : Nat,
        token : Token \cup {None}, lease : Nat]

IInv ==
    /\ JobsAreValid
    /\ jobs \in [Job -> Row]
    /\ attempts \in [Job -> Seq(Closed \cup {"running"})]
    /\ claims \in [Thread -> {NoClaim} \cup [job : Job, token : Token]]
    /\ \A j \in Job : jobs[j].state = "running" => Len(attempts[j]) > 0

=============================================================================
