--------------------------- MODULE JobStore_proofs ---------------------------
(***************************************************************************)
(* Proofs about the job queue, for every value of JobStore's constants.    *)
(*                                                                         *)
(* IInv, the conjunction of the queue's invariants, is inductive: one lemma*)
(* per group of operations shows that the operation keeps each conjunct it *)
(* can disturb, and Inductive puts them together.  The uniqueness of the   *)
(* dedupe keys needs a conjunct of its own (InstanceIsOwn) beside IInv, and*)
(* the exclusiveness of a lease is an action property that follows from    *)
(* IInv in every step.                                                     *)
(***************************************************************************)
EXTENDS JobStore, TLAPS

(* The powers of two _retry_timestamp can ask for are naturals.            *)
LEMMA PowerOfTwoNat == ASSUME NEW e \in 0..16 PROVE PowerOfTwo[e + 1] \in Nat
  BY DEF PowerOfTwo

(* _retry_timestamp of a stored retry policy is a natural number of        *)
(* seconds, whatever the attempt number.                                   *)
LEMMA BackoffNat ==
  ASSUME NEW j \in JobId, NEW n \in Nat, identity[j] \in IdentityRecord
  PROVE  Backoff(j, n) \in Nat
<1> DEFINE policy   == identity[j].request
           exponent == Larger(0, Smaller(n - 1, 16))
           power    == PowerOfTwo[exponent + 1]
<1>1. policy.base \in Nat /\ policy.maximum \in Nat
  BY RequestAssumption DEF IdentityRecord, RequestRecord
<1>2. exponent \in 0..16
  BY DEF Larger, Smaller
<1>3. power \in Nat
  BY <1>2, PowerOfTwoNat
<1>4. policy.base * power \in Nat
  <2> HIDE DEF policy, power
  <2> QED BY <1>1, <1>3
<1> QED
  BY <1>1, <1>4 DEF Backoff, Larger, Smaller, DefaultMaximum

(* The empty store satisfies the invariant.                                *)
LEMMA InitInv == Init => IInv
<1> SUFFICES ASSUME Init PROVE IInv
  OBVIOUS
<1> USE DEF Init
<1>1. TypeOK
  BY AttemptLimitAssumption
     DEF TypeOK, JobStates, AttemptStatuses, HandleRecord, NoHandle, NoLease
<1>2. ClaimColumns
  BY DEF ClaimColumns, LeasedStates
<1>3. AttemptLedger
  BY AttemptLimitAssumption DEF AttemptLedger, Attempt
<1>4. RunMirrorsAttempt
  BY DEF RunMirrorsAttempt
<1>5. ClaimableHasBudget
  BY DEF ClaimableHasBudget, ClaimableStates
<1>6. ResultIsFinal
  BY DEF ResultIsFinal
<1>7. PromotedRunsSucceeded
  BY DEF PromotedRunsSucceeded
<1>8. HandlesAreFenced
  BY DEF HandlesAreFenced, NoHandle
<1> QED
  BY <1>1, <1>2, <1>3, <1>4, <1>5, <1>6, <1>7, <1>8 DEF IInv

(* What an INSERT needs to keep the invariant.                             *)
LEMMA InsertInv ==
  ASSUME IInv, NEW j \in JobId, NEW id \in IdentityRecord, NEW at \in Nat,
         Insert(j, id, at)
  PROVE  IInv'
<1> USE DEF Insert
<1> id # NoIdentity
  BY NullAssumption
<1> id.request.attempts \in Attempt
  BY RequestAssumption DEF IdentityRecord, RequestRecord, Attempt
<1>1. TypeOK'
  BY DEF IInv, TypeOK, JobStates, ClaimableStates
<1>2. ClaimColumns'
  BY DEF IInv, TypeOK, ClaimColumns, LeasedStates
<1>3. AttemptLedger'
  BY DEF IInv, TypeOK, AttemptLedger
<1>4. RunMirrorsAttempt'
  <2> SUFFICES ASSUME NEW k \in JobId, NEW n \in Attempt
               PROVE  run[k][n] = IF state'[k] # "absent" /\ IsSystem(k)'
                                  THEN "none" ELSE attempt[k][n]
    BY DEF RunMirrorsAttempt
  <2>1. CASE k = j
    BY <2>1 DEF IInv, TypeOK, ClaimColumns, RunMirrorsAttempt, AttemptLedger,
                Attempt
  <2>2. CASE k # j
    BY <2>2 DEF IInv, TypeOK, RunMirrorsAttempt, IsSystem
  <2> QED BY <2>1, <2>2
<1>5. ClaimableHasBudget'
  BY DEF IInv, TypeOK, ClaimColumns, ClaimableHasBudget, MaxAttempts,
         ClaimableStates, Attempt
<1>6. ResultIsFinal'
  BY DEF IInv, TypeOK, ResultIsFinal
<1>7. PromotedRunsSucceeded'
  BY DEF IInv, TypeOK, PromotedRunsSucceeded
<1>8. HandlesAreFenced'
  BY DEF IInv, TypeOK, HandlesAreFenced, HandleRecord
<1> QED
  BY <1>1, <1>2, <1>3, <1>4, <1>5, <1>6, <1>7, <1>8 DEF IInv

(* enqueue, enqueue_backfill, enqueue_projection_delivery and retry keep   *)
(* the invariant: each inserts one queued job with its whole budget.       *)
LEMMA SubmitInv == ASSUME IInv, Submit PROVE IInv'
<1> PICK j \in JobId : \/ \E r \in Request : \/ Enqueue(r, j)
                                             \/ EnqueueBackfill(r, j)
                                             \/ EnqueueProjection(r, j)
                       \/ \E p \in JobId : Retry(p, j)
  BY DEF Submit
<1> now \in Nat
  BY DEF IInv, TypeOK
<1>1. ASSUME NEW r \in Request
      PROVE  /\ ScheduledFor(r) \in Nat /\ r.slot \in Nat
             /\ \A i \in {NoJob, j}, at \in Nat : Root(r, i, at) \in IdentityRecord
  BY RequestAssumption
     DEF ScheduledFor, Root, IdentityRecord, RequestRecord
<1>2. ASSUME NEW r \in Request, Enqueue(r, j) PROVE IInv'
  BY <1>1, <1>2, InsertInv DEF Enqueue
<1>3. ASSUME NEW r \in Request, EnqueueBackfill(r, j) PROVE IInv'
  BY <1>1, <1>3, InsertInv DEF EnqueueBackfill
<1>4. ASSUME NEW r \in Request, EnqueueProjection(r, j) PROVE IInv'
  BY <1>1, <1>4, InsertInv DEF EnqueueProjection
<1>5. ASSUME NEW p \in JobId, Retry(p, j) PROVE IInv'
  <2> DEFINE id == [request |-> identity[p].request, trigger |-> "manual",
                    parent |-> p, generation |-> identity[p].generation + 1,
                    instance |-> j, scheduledFor |-> now]
  <2>1. identity[p] \in IdentityRecord
    BY <1>5 DEF Retry, IInv, TypeOK, ClaimColumns
  <2>2. id \in IdentityRecord
    BY <2>1 DEF IdentityRecord, Triggers
  <2>3. Insert(j, id, now)
    BY <1>5 DEF Retry
  <2> HIDE DEF id
  <2> QED BY <2>2, <2>3, InsertInv
<1> QED BY <1>2, <1>3, <1>4, <1>5

(* What recover_expired does to one job and to its attempts.               *)
LEMMA RecoveryOfOneJob ==
  ASSUME IInv, NEW at \in Nat, NEW k \in JobId
  PROVE  /\ StateAfter(at)[k] \in JobStates
         /\ AvailableAfter(at)[k] \in Nat
         /\ Expired(k, at) =>
              /\ StateAfter(at)[k] \in ClaimableStates \cup {"dead_letter"}
              /\ StateAfter(at)[k] \in ClaimableStates =>
                    attemptCount[k] < MaxAttempts(k)
              /\ TokenAfter(at)[k] = NoToken
              /\ LeaseAfter(at)[k] = NoLease
         /\ ~Expired(k, at) =>
              /\ StateAfter(at)[k] = state[k]
              /\ TokenAfter(at)[k] = claimToken[k]
              /\ LeaseAfter(at)[k] = leaseExpiresAt[k]
<1>1. CASE Expired(k, at)
  <2>1. state[k] \in LeasedStates /\ identity[k] \in IdentityRecord
    BY <1>1 DEF Expired, IInv, TypeOK, ClaimColumns, LeasedStates
  <2>2. Backoff(k, attemptCount[k]) \in Nat
    BY <2>1, BackoffNat, AttemptLimitAssumption DEF IInv, TypeOK
  <2> HIDE DEF Backoff
  <2>3. RecoveredState(k) \in ClaimableStates \cup {"dead_letter"}
    BY DEF RecoveredState, ClaimableStates
  <2>4. RecoveredState(k) \in ClaimableStates => attemptCount[k] < MaxAttempts(k)
    BY DEF RecoveredState, ClaimableStates, IInv, ClaimableHasBudget
  <2>5. RecoveredAvailableAt(k, at) \in Nat
    BY <2>2 DEF RecoveredAvailableAt
  <2> QED BY <1>1, <2>3, <2>4, <2>5
          DEF StateAfter, AvailableAfter, TokenAfter, LeaseAfter, JobStates,
              TerminalStates
<1>2. CASE ~Expired(k, at)
  BY <1>2 DEF StateAfter, AvailableAfter, TokenAfter, LeaseAfter, IInv, TypeOK
<1> QED BY <1>1, <1>2

(* recover_expired turns only running attempts, and only of expired        *)
(* running jobs, into failed ones.                                         *)
LEMMA RecoveryOfAttempts ==
  ASSUME IInv, NEW at \in Nat, NEW k \in JobId, NEW n \in Attempt
  PROVE  /\ ~Expired(k, at) => /\ FailRunning(attempt, k, at)[n] = attempt[k][n]
                               /\ FailRunning(run, k, at)[n] = run[k][n]
         /\ Expired(k, at) =>
              /\ FailRunning(attempt, k, at)[n] =
                    IF attempt[k][n] = "running" THEN "failed" ELSE attempt[k][n]
              /\ FailRunning(run, k, at)[n] =
                    IF run[k][n] = "running" THEN "failed" ELSE run[k][n]
<1>1. attempt[k][n] = "running" => state[k] = "running"
  BY DEF IInv, AttemptLedger
<1>2. run[k][n] = "running" => attempt[k][n] = "running"
  BY DEF IInv, RunMirrorsAttempt
<1> QED BY <1>1, <1>2 DEF FailRunning

(* The tables recover_expired leaves behind have the types of the columns  *)
(* and agree with what it does to each job.                                *)
LEMMA RecoveryTables ==
  ASSUME IInv, NEW at \in Nat
  PROVE  /\ StateAfter(at) \in [JobId -> JobStates]
         /\ AvailableAfter(at) \in [JobId -> Nat]
         /\ TokenAfter(at) \in [JobId -> Token \cup {NoToken}]
         /\ LeaseAfter(at) \in [JobId -> Nat]
         /\ [j \in JobId |-> FailRunning(attempt, j, at)]
               \in [JobId -> [Attempt -> AttemptStatuses]]
         /\ [j \in JobId |-> FailRunning(run, j, at)]
               \in [JobId -> [Attempt -> AttemptStatuses]]
<1>1. StateAfter(at) \in [JobId -> JobStates]
  BY RecoveryOfOneJob DEF StateAfter
<1>2. AvailableAfter(at) \in [JobId -> Nat]
  BY RecoveryOfOneJob DEF AvailableAfter
<1>3. TokenAfter(at) \in [JobId -> Token \cup {NoToken}]
  BY DEF TokenAfter, IInv, TypeOK
<1>4. LeaseAfter(at) \in [JobId -> Nat]
  BY DEF LeaseAfter, NoLease, IInv, TypeOK
<1>5. [j \in JobId |-> FailRunning(attempt, j, at)]
               \in [JobId -> [Attempt -> AttemptStatuses]]
  BY DEF FailRunning, AttemptStatuses, ClosedStatuses, IInv, TypeOK
<1>6. [j \in JobId |-> FailRunning(run, j, at)]
               \in [JobId -> [Attempt -> AttemptStatuses]]
  BY DEF FailRunning, AttemptStatuses, ClosedStatuses, IInv, TypeOK
<1> QED BY <1>1, <1>2, <1>3, <1>4, <1>5, <1>6

(* The tables recover_expired leaves satisfy every part of the invariant:  *)
(* the running attempt is charged to the budget and its run fails with it. *)
LEMMA RecoverInv ==
  ASSUME IInv, NEW at \in Nat, RecoverExpired(at)
  PROVE  IInv'
<1> USE DEF RecoverExpired
<1>0. \A k \in JobId : identity'[k] = identity[k] /\ attemptCount'[k] = attemptCount[k]
  OBVIOUS
<1>1. TypeOK'
  BY RecoveryTables DEF IInv, TypeOK
<1>2. ClaimColumns'
  BY RecoveryOfOneJob
     DEF IInv, ClaimColumns, ClaimableStates, LeasedStates, Expired
<1>3. AttemptLedger'
  <2> SUFFICES ASSUME NEW k \in JobId, NEW n \in Attempt
               PROVE  /\ attempt'[k][n] = "none" <=> n > attemptCount[k]
                      /\ attempt'[k][n] = "running" <=>
                            state'[k] = "running" /\ n = attemptCount[k]
                      /\ state'[k] = "running" => attemptCount[k] # 0
    BY DEF AttemptLedger
  <2>1. attempt'[k][n] = FailRunning(attempt, k, at)[n]
    OBVIOUS
  <2> QED BY <2>1, RecoveryOfOneJob, RecoveryOfAttempts
             DEF IInv, AttemptLedger, ClaimableStates
<1>4. RunMirrorsAttempt'
  <2> SUFFICES ASSUME NEW k \in JobId, NEW n \in Attempt
               PROVE  run'[k][n] = IF state'[k] # "absent" /\ IsSystem(k)
                                   THEN "none" ELSE attempt'[k][n]
    BY DEF RunMirrorsAttempt, IsSystem
  <2>1. /\ attempt'[k][n] = FailRunning(attempt, k, at)[n]
        /\ run'[k][n] = FailRunning(run, k, at)[n]
    OBVIOUS
  <2>2. state'[k] = "absent" <=> state[k] = "absent"
    BY RecoveryOfOneJob DEF ClaimableStates, Expired, LeasedStates
  <2> QED BY <2>1, <2>2, RecoveryOfAttempts DEF IInv, RunMirrorsAttempt
<1>5. ClaimableHasBudget'
  BY RecoveryOfOneJob
     DEF IInv, ClaimableHasBudget, MaxAttempts, ClaimableStates, LeasedStates,
         Expired
<1>6. ResultIsFinal'
  <2> SUFFICES ASSUME NEW k \in JobId, NEW result \in {"succeeded", "empty"}
               PROVE  /\ state'[k] = result =>
                            /\ attemptCount[k] # 0
                            /\ attempt'[k][attemptCount[k]] = result
                      /\ \A n \in Attempt : attempt'[k][n] = result =>
                            n = attemptCount[k] /\ state'[k] = result
    BY DEF ResultIsFinal
  <2>1. \A n \in Attempt : attempt'[k][n] = FailRunning(attempt, k, at)[n]
    OBVIOUS
  <2>2. attemptCount[k] # 0 => attemptCount[k] \in Attempt
    BY DEF IInv, TypeOK, Attempt
  <2> QED BY <2>1, <2>2, RecoveryOfOneJob, RecoveryOfAttempts
          DEF IInv, ResultIsFinal, Expired, LeasedStates, ClaimableStates
<1>7. PromotedRunsSucceeded'
  <2> SUFFICES ASSUME NEW p \in promoted
               PROVE  /\ state'[p[1]] = "succeeded"
                      /\ run'[p[1]][p[2]] = "succeeded"
                      /\ identity[p[1]].request.promotion = "automatic"
    BY DEF PromotedRunsSucceeded
  <2>1. p[1] \in JobId /\ p[2] \in Attempt
    BY DEF IInv, TypeOK
  <2>2. run'[p[1]][p[2]] = FailRunning(run, p[1], at)[p[2]]
    BY <2>1
  <2> QED BY <2>1, <2>2, RecoveryOfOneJob, RecoveryOfAttempts
          DEF IInv, PromotedRunsSucceeded, Expired, LeasedStates
<1>8. HandlesAreFenced'
  <2>1. \A w \in Worker : handle[w].job # NoJob => handle[w].job \in JobId
    BY DEF IInv, TypeOK, HandleRecord
  <2> QED BY <2>1, RecoveryOfOneJob
          DEF IInv, HandlesAreFenced, ClaimableStates, LeasedStates, Expired
<1> QED
  BY <1>1, <1>2, <1>3, <1>4, <1>5, <1>6, <1>7, <1>8 DEF IInv

(* A new claim token is carried by no job and by no worker's handle.       *)
LEMMA FreshTokenIsNew ==
  ASSUME FreshTokens # {}
  PROVE  /\ FreshToken \in Token
         /\ \A j \in JobId : claimToken[j] # FreshToken
         /\ \A w \in Worker : handle[w].token # FreshToken
  BY DEF FreshToken, FreshTokens

(* _claim_row keeps the invariant: it recovers the expired leases, then    *)
(* gives one due job a token no other worker holds.                        *)
LEMMA ClaimRowInv ==
  ASSUME IInv, NEW w \in Worker, NEW j \in JobId, NEW at \in Nat,
         ClaimRow(w, j, at)
  PROVE  IInv'
<1> DEFINE t == FreshToken
<1>t. /\ t \in Token /\ t # NoToken
      /\ \A v \in Worker : handle[v].token # t
  BY FreshTokenIsNew, NullAssumption DEF ClaimRow
<1>d. /\ StateAfter(at)[j] \in ClaimableStates
      /\ state[j] # "absent" /\ state[j] \notin TerminalStates
  BY RecoveryOfOneJob
     DEF ClaimRow, Due, ClaimableStates, TerminalStates, Expired, LeasedStates
<1> HIDE DEF t
<1>a. /\ state' = [StateAfter(at) EXCEPT ![j] = "claimed"]
      /\ claimToken' = [TokenAfter(at) EXCEPT ![j] = t]
      /\ leaseExpiresAt' = [LeaseAfter(at) EXCEPT ![j] = at + LeaseSeconds]
      /\ handle' = [handle EXCEPT ![w] = [job |-> j, token |-> t,
                                          attempt |-> 0, at |-> at]]
      /\ handle[w] = NoHandle
      /\ availableAt' = AvailableAfter(at)
      /\ attempt' = [k \in JobId |-> FailRunning(attempt, k, at)]
      /\ run' = [k \in JobId |-> FailRunning(run, k, at)]
      /\ UNCHANGED <<now, identity, attemptCount, promoted>>
  BY DEF ClaimRow, t
<1>b. /\ state'[j] = "claimed" /\ claimToken'[j] = t
      /\ leaseExpiresAt'[j] = at + LeaseSeconds
      /\ \A k \in JobId : k # j =>
            /\ state'[k] = StateAfter(at)[k]
            /\ claimToken'[k] = TokenAfter(at)[k]
            /\ leaseExpiresAt'[k] = LeaseAfter(at)[k]
      /\ \A k \in JobId, n \in Attempt :
            /\ attempt'[k][n] = FailRunning(attempt, k, at)[n]
            /\ run'[k][n] = FailRunning(run, k, at)[n]
  BY <1>a, RecoveryTables
<1>1. TypeOK'
  <2>1. [job |-> j, token |-> t, attempt |-> 0, at |-> at] \in HandleRecord
    BY <1>t, AttemptLimitAssumption DEF HandleRecord
  <2>2. handle' \in [Worker -> HandleRecord]
    BY <1>a, <2>1 DEF IInv, TypeOK
  <2>3. /\ state' \in [JobId -> JobStates]
        /\ claimToken' \in [JobId -> Token \cup {NoToken}]
    BY <1>a, <1>t, RecoveryTables DEF JobStates, LeasedStates
  <2>4. leaseExpiresAt' \in [JobId -> Nat]
    BY <1>a, RecoveryTables, LeaseAssumption
  <2> QED BY <1>a, <2>2, <2>3, <2>4, RecoveryTables DEF IInv, TypeOK
<1>2. ClaimColumns'
  BY <1>a, <1>b, <1>t, <1>d, RecoveryOfOneJob, LeaseAssumption
     DEF IInv, ClaimColumns, ClaimableStates, LeasedStates, Expired, NoLease
<1>3. AttemptLedger'
  <2> SUFFICES ASSUME NEW k \in JobId, NEW n \in Attempt
               PROVE  /\ attempt'[k][n] = "none" <=> n > attemptCount[k]
                      /\ attempt'[k][n] = "running" <=>
                            state'[k] = "running" /\ n = attemptCount[k]
                      /\ state'[k] = "running" => attemptCount[k] # 0
    BY <1>a DEF AttemptLedger
  <2> QED BY <1>b, <1>d, RecoveryOfOneJob, RecoveryOfAttempts
             DEF IInv, AttemptLedger, ClaimableStates
<1>4. RunMirrorsAttempt'
  <2> SUFFICES ASSUME NEW k \in JobId, NEW n \in Attempt
               PROVE  run'[k][n] = IF state'[k] # "absent" /\ IsSystem(k)
                                   THEN "none" ELSE attempt'[k][n]
    BY <1>a DEF RunMirrorsAttempt, IsSystem
  <2>1. state'[k] = "absent" <=> state[k] = "absent"
    BY <1>b, <1>d, RecoveryOfOneJob DEF ClaimableStates, Expired, LeasedStates
  <2> QED BY <1>b, <2>1, RecoveryOfAttempts DEF IInv, RunMirrorsAttempt
<1>5. ClaimableHasBudget'
  <2>1. \A k \in JobId : MaxAttempts(k)' = MaxAttempts(k)
    BY <1>a DEF MaxAttempts
  <2> QED BY <1>a, <1>b, <1>d, <2>1, RecoveryOfOneJob
          DEF IInv, ClaimableHasBudget, ClaimableStates, LeasedStates, Expired
<1>6. ResultIsFinal'
  <2> SUFFICES ASSUME NEW k \in JobId, NEW result \in {"succeeded", "empty"}
               PROVE  /\ state'[k] = result =>
                            /\ attemptCount[k] # 0
                            /\ attempt'[k][attemptCount[k]] = result
                      /\ \A n \in Attempt : attempt'[k][n] = result =>
                            n = attemptCount[k] /\ state'[k] = result
    BY <1>a DEF ResultIsFinal
  <2>1. attemptCount[k] # 0 => attemptCount[k] \in Attempt
    BY DEF IInv, TypeOK, Attempt
  <2> QED BY <1>b, <1>d, <2>1, RecoveryOfOneJob, RecoveryOfAttempts
          DEF IInv, ResultIsFinal, Expired, LeasedStates, ClaimableStates,
              TerminalStates
<1>7. PromotedRunsSucceeded'
  <2> SUFFICES ASSUME NEW p \in promoted
               PROVE  /\ state'[p[1]] = "succeeded"
                      /\ run'[p[1]][p[2]] = "succeeded"
                      /\ identity[p[1]].request.promotion = "automatic"
    BY <1>a DEF PromotedRunsSucceeded
  <2>1. p[1] \in JobId /\ p[2] \in Attempt
    BY DEF IInv, TypeOK
  <2> QED BY <1>b, <1>d, <2>1, RecoveryOfOneJob, RecoveryOfAttempts
          DEF IInv, PromotedRunsSucceeded, Expired, LeasedStates, TerminalStates
<1>8. HandlesAreFenced'
  <2>1. \A v \in Worker : handle[v].job # NoJob => handle[v].job \in JobId
    BY DEF IInv, TypeOK, HandleRecord
  <2>2. /\ handle'[w] = [job |-> j, token |-> t, attempt |-> 0, at |-> at]
        /\ \A v \in Worker : v # w => handle'[v] = handle[v]
    BY <1>a DEF IInv, TypeOK
  <2>3. handle[w].token = NoToken
    BY <1>a DEF NoHandle
  <2>4. \A v \in Worker : v # w /\ handle[v].job # NoJob =>
           /\ claimToken'[handle[v].job] = handle[v].token =>
                 /\ state'[handle[v].job] = state[handle[v].job]
                 /\ claimToken[handle[v].job] = handle[v].token
           /\ state'[handle[v].job] # "absent"
    BY <1>b, <1>t, <1>d, <2>1, RecoveryOfOneJob
       DEF IInv, HandlesAreFenced, ClaimableStates, Expired, LeasedStates
  <2>5. \A v \in Worker : handle[v].job = NoJob => handle[v].token = NoToken
    BY DEF IInv, HandlesAreFenced
  <2> QED BY <1>a, <1>b, <1>t, <2>1, <2>2, <2>3, <2>4, <2>5, NullAssumption
          DEF IInv, HandlesAreFenced
<1> QED
  BY <1>1, <1>2, <1>3, <1>4, <1>5, <1>6, <1>7, <1>8 DEF IInv

(* claim_next and claim_job keep the invariant.                            *)
LEMMA ClaimInv == ASSUME IInv, NEW w \in Worker, Claim(w) PROVE IInv'
<1> PICK at \in Anchors : \/ ClaimNext(w, at)
                          \/ \E j \in JobId : ClaimJob(w, j, at)
  BY DEF Claim
<1> at \in Nat
  BY DEF Anchors, IInv, TypeOK
<1> QED BY ClaimRowInv DEF ClaimNext, ClaimJob

(* A worker that owns a claim has a job, and the clock readings it may use *)
(* are naturals.                                                           *)
LEMMA OwnerFacts ==
  ASSUME IInv, NEW w \in Worker, NEW s \in LeasedStates, NEW at \in Readings(w),
         OwnsClaim(w, s, at)
  PROVE  /\ at \in Nat
         /\ handle[w].job \in JobId
         /\ identity[handle[w].job] \in IdentityRecord
         /\ s = "claimed" => handle[w].attempt = 0
         /\ s = "running" => /\ handle[w].attempt = attemptCount[handle[w].job]
                             /\ handle[w].attempt \in Attempt
<1>1. /\ at \in Nat
      /\ handle[w].job \in JobId
  BY DEF Readings, OwnsClaim, IInv, TypeOK, HandleRecord
<1>2. identity[handle[w].job] \in IdentityRecord
  BY <1>1 DEF OwnsClaim, LeasedStates, IInv, TypeOK, ClaimColumns
<1>3. /\ s = "claimed" => handle[w].attempt = 0
      /\ s = "running" => handle[w].attempt = attemptCount[handle[w].job]
  BY DEF OwnsClaim, IInv, HandlesAreFenced
<1>4. s = "running" => attemptCount[handle[w].job] \in Attempt
  BY <1>1, AttemptLimitAssumption
     DEF OwnsClaim, IInv, TypeOK, AttemptLedger, Attempt
<1> QED BY <1>1, <1>2, <1>3, <1>4

(* start_run and start_system_job keep the invariant: a valid claim has an *)
(* attempt left, and it becomes the last and only running one.             *)
LEMMA StartInv == ASSUME IInv, NEW w \in Worker, Start(w) PROVE IInv'
<1> PICK at \in Readings(w) : StartRun(w, at) \/ StartSystemJob(w, at)
  BY DEF Start
<1> DEFINE j == handle[w].job
           n == attemptCount[j] + 1
<1>0. StartAttempt(w, at) /\ OwnsClaim(w, "claimed", at)
  BY DEF StartRun, StartSystemJob, StartAttempt
<1>1. at \in Nat /\ j \in JobId /\ identity[j] \in IdentityRecord
  BY <1>0, OwnerFacts DEF LeasedStates
<1>2. n \in Attempt /\ n <= MaxAttempts(j) /\ n > attemptCount[j]
  <2>1. MaxAttempts(j) \in Attempt
    BY <1>1, RequestAssumption
       DEF MaxAttempts, IdentityRecord, RequestRecord, Attempt
  <2>2. attemptCount[j] \in Nat
    BY <1>1, AttemptLimitAssumption DEF IInv, TypeOK
  <2> QED BY <1>0, <2>1, <2>2, AttemptLimitAssumption DEF StartAttempt, Attempt
<1>3. state[j] = "claimed" /\ claimToken[j] = handle[w].token
  BY <1>0 DEF OwnsClaim
<1>4. /\ state' = [state EXCEPT ![j] = "running"]
      /\ attemptCount' = [attemptCount EXCEPT ![j] = n]
      /\ attempt' = [attempt EXCEPT ![j][n] = "running"]
      /\ handle' = [handle EXCEPT ![w] = [@ EXCEPT !.attempt = n, !.at = at]]
      /\ run' = IF IsSystem(j) THEN run ELSE [run EXCEPT ![j][n] = "running"]
      /\ UNCHANGED <<now, identity, availableAt, claimToken, leaseExpiresAt,
                     promoted>>
  BY <1>0 DEF StartAttempt, StartRun, StartSystemJob
<1> HIDE DEF j, n
<1>5. /\ state'[j] = "running" /\ attemptCount'[j] = n
      /\ \A k \in JobId : k # j => /\ state'[k] = state[k]
                                   /\ attemptCount'[k] = attemptCount[k]
                                   /\ attempt'[k] = attempt[k]
                                   /\ run'[k] = run[k]
      /\ attempt'[j][n] = "running"
      /\ run'[j][n] = IF IsSystem(j) THEN run[j][n] ELSE "running"
      /\ \A m \in Attempt : m # n => /\ attempt'[j][m] = attempt[j][m]
                                     /\ run'[j][m] = run[j][m]
  BY <1>1, <1>2, <1>4 DEF IInv, TypeOK
<1>6. /\ \A v \in Worker : v # w => handle'[v] = handle[v]
      /\ handle'[w].job = j /\ handle'[w].token = handle[w].token
      /\ handle'[w].attempt = n
      /\ handle' \in [Worker -> HandleRecord]
  <2>1. n \in 0..AttemptLimit
    BY <1>2 DEF Attempt
  <2>2. handle[w] \in HandleRecord
    BY DEF IInv, TypeOK
  <2>3. /\ [handle[w] EXCEPT !.attempt = n, !.at = at] \in HandleRecord
        /\ [handle[w] EXCEPT !.attempt = n, !.at = at].job = j
        /\ [handle[w] EXCEPT !.attempt = n, !.at = at].token = handle[w].token
        /\ [handle[w] EXCEPT !.attempt = n, !.at = at].attempt = n
    BY <1>1, <2>1, <2>2 DEF HandleRecord, j
  <2> QED BY <1>4, <2>3 DEF IInv, TypeOK
<1>7. TypeOK'
  <2>1. attempt' \in [JobId -> [Attempt -> AttemptStatuses]]
    BY <1>1, <1>2, <1>4 DEF IInv, TypeOK, AttemptStatuses
  <2>2. run' \in [JobId -> [Attempt -> AttemptStatuses]]
    BY <1>1, <1>2, <1>4 DEF IInv, TypeOK, AttemptStatuses
  <2>3. attemptCount' \in [JobId -> 0..AttemptLimit]
    BY <1>1, <1>2, <1>4 DEF IInv, TypeOK, Attempt
  <2> QED BY <1>1, <1>4, <1>6, <2>1, <2>2, <2>3
          DEF IInv, TypeOK, JobStates, LeasedStates
<1>8. ClaimColumns'
  BY <1>1, <1>3, <1>4, <1>5 DEF IInv, ClaimColumns, LeasedStates
<1>9. AttemptLedger'
  <2>1. attemptCount[j] \in Nat /\ n = attemptCount[j] + 1
    BY <1>1, AttemptLimitAssumption DEF IInv, TypeOK, n
  <2> QED BY <1>1, <1>2, <1>3, <1>5, <2>1 DEF IInv, AttemptLedger, Attempt
<1>10. RunMirrorsAttempt'
  <2>1. \A k \in JobId : IsSystem(k)' = IsSystem(k)
    BY <1>4 DEF IsSystem
  <2> QED BY <1>1, <1>3, <1>5, <2>1 DEF IInv, RunMirrorsAttempt
<1>11. ClaimableHasBudget'
  <2>1. \A k \in JobId : MaxAttempts(k)' = MaxAttempts(k)
    BY <1>4 DEF MaxAttempts
  <2> QED BY <1>1, <1>2, <1>3, <1>5, <2>1
          DEF IInv, ClaimableHasBudget, ClaimableStates
<1>12. ResultIsFinal'
  <2>1. \A m \in Attempt, result \in {"succeeded", "empty"} :
           attempt'[j][m] # result
    BY <1>1, <1>2, <1>3, <1>5 DEF IInv, ResultIsFinal
  <2> QED BY <1>1, <1>5, <2>1 DEF IInv, ResultIsFinal
<1>13. PromotedRunsSucceeded'
  <2> SUFFICES ASSUME NEW p \in promoted
               PROVE  /\ state'[p[1]] = "succeeded"
                      /\ run'[p[1]][p[2]] = "succeeded"
                      /\ identity[p[1]].request.promotion = "automatic"
    BY <1>4 DEF PromotedRunsSucceeded
  <2>1. p[1] \in JobId /\ p[1] # j
    BY <1>3 DEF IInv, TypeOK, PromotedRunsSucceeded
  <2> QED BY <1>5, <2>1 DEF IInv, PromotedRunsSucceeded
<1>14. HandlesAreFenced'
  <2>1. \A v \in Worker : handle[v].job # NoJob => handle[v].job \in JobId
    BY DEF IInv, TypeOK, HandleRecord
  <2>2. \A v \in Worker : v # w /\ handle[v].job # NoJob =>
           handle[v].token # handle[w].token
    BY DEF IInv, HandlesAreFenced
  <2>3. j # NoJob
    BY <1>1, NullAssumption
  <2>4. handle[w].token # NoToken
    BY <2>3 DEF IInv, HandlesAreFenced, j
  <2> QED BY <1>1, <1>3, <1>4, <1>5, <1>6, <2>1, <2>2, <2>3, <2>4
          DEF IInv, HandlesAreFenced, j
<1> QED
  BY <1>7, <1>8, <1>9, <1>10, <1>11, <1>12, <1>13, <1>14 DEF IInv

(* heartbeat keeps the invariant: it moves the lease of a running job and  *)
(* nothing else.                                                           *)
LEMMA HeartbeatInv ==
  ASSUME IInv, NEW w \in Worker, NEW at \in Readings(w), Heartbeat(w, at)
  PROVE  IInv'
<1> DEFINE j == handle[w].job
<1>1. at \in Nat /\ j \in JobId
  BY OwnerFacts DEF Heartbeat, LeasedStates
<1>2. OwnsClaim(w, "running", at)
  BY DEF Heartbeat
<1>3. /\ leaseExpiresAt' = [leaseExpiresAt EXCEPT ![j] = at + LeaseSeconds]
      /\ handle' = [handle EXCEPT ![w].at = at]
      /\ UNCHANGED <<now, state, identity, attemptCount, availableAt,
                     claimToken, attempt, run, promoted>>
  BY DEF Heartbeat
<1>4. at + LeaseSeconds \in Nat /\ at + LeaseSeconds # NoLease
  BY <1>1, LeaseAssumption DEF NoLease
<1>5. TypeOK'
  BY <1>1, <1>3, <1>4 DEF IInv, TypeOK, HandleRecord
<1>6. ClaimColumns'
  BY <1>1, <1>2, <1>3, <1>4
     DEF IInv, TypeOK, ClaimColumns, OwnsClaim, LeasedStates
<1>7. AttemptLedger' /\ ResultIsFinal' /\ PromotedRunsSucceeded'
  BY <1>3 DEF IInv, AttemptLedger, ResultIsFinal, PromotedRunsSucceeded
<1>8. RunMirrorsAttempt' /\ ClaimableHasBudget'
  BY <1>3 DEF IInv, RunMirrorsAttempt, IsSystem, ClaimableHasBudget, MaxAttempts
<1>9. HandlesAreFenced'
  <2>1. \A v \in Worker : /\ handle'[v].job = handle[v].job
                          /\ handle'[v].token = handle[v].token
                          /\ handle'[v].attempt = handle[v].attempt
    BY <1>3 DEF IInv, TypeOK, HandleRecord
  <2> QED BY <1>3, <2>1 DEF IInv, HandlesAreFenced
<1> QED BY <1>5, <1>6, <1>7, <1>8, <1>9 DEF IInv

(* Closing an attempt keeps the invariant when the job's next state agrees *)
(* with the attempt's status, the run with the attempt, and the promotion  *)
(* with the run.                                                           *)
LEMMA CloseInv ==
  ASSUME IInv, NEW w \in Worker, NEW at \in Readings(w),
         OwnsClaim(w, "running", at),
         NEW status \in ClosedStatuses, NEW next, NEW retryAt \in Nat,
         next \in {"retry_wait"} \cup TerminalStates,
         next = "retry_wait" =>
            attemptCount[handle[w].job] < MaxAttempts(handle[w].job),
         \A result \in {"succeeded", "empty"} : status = result <=> next = result,
         CloseAttempt(w, status, next, retryAt),
         run' = IF IsSystem(handle[w].job) THEN run
                ELSE [run EXCEPT ![handle[w].job][handle[w].attempt] = status],
         \/ promoted' = promoted
         \/ /\ promoted' = promoted \cup {<<handle[w].job, handle[w].attempt>>}
            /\ status = "succeeded"
            /\ ~IsSystem(handle[w].job)
            /\ identity[handle[w].job].request.promotion = "automatic"
  PROVE  IInv'
<1> DEFINE j == handle[w].job
           n == handle[w].attempt
<1>1. /\ j \in JobId /\ identity[j] \in IdentityRecord
      /\ n \in Attempt /\ n = attemptCount[j]
      /\ state[j] = "running"
  BY OwnerFacts DEF OwnsClaim, LeasedStates
<1>2. attempt[j][n] = "running"
  BY <1>1 DEF IInv, AttemptLedger
<1>3. /\ state' = [state EXCEPT ![j] = next]
      /\ availableAt' = [availableAt EXCEPT ![j] =
                            IF next = "retry_wait" THEN retryAt ELSE @]
      /\ claimToken' = [claimToken EXCEPT ![j] = NoToken]
      /\ leaseExpiresAt' = [leaseExpiresAt EXCEPT ![j] = NoLease]
      /\ attempt' = [attempt EXCEPT ![j][n] = IF @ = "running" THEN status ELSE @]
      /\ handle' = [handle EXCEPT ![w] = NoHandle]
      /\ UNCHANGED <<now, identity, attemptCount>>
  BY DEF CloseAttempt
<1>4. run' = IF IsSystem(j) THEN run ELSE [run EXCEPT ![j][n] = status]
  OBVIOUS
<1>5. \/ promoted' = promoted
      \/ /\ promoted' = promoted \cup {<<j, n>>}
         /\ status = "succeeded"
         /\ ~IsSystem(j)
         /\ identity[j].request.promotion = "automatic"
  OBVIOUS
<1>6. next = "retry_wait" => attemptCount[j] < MaxAttempts(j)
  OBVIOUS
<1> HIDE DEF j, n
<1>7. /\ state'[j] = next /\ claimToken'[j] = NoToken
      /\ leaseExpiresAt'[j] = NoLease
      /\ \A k \in JobId : k # j => /\ state'[k] = state[k]
                                   /\ claimToken'[k] = claimToken[k]
                                   /\ leaseExpiresAt'[k] = leaseExpiresAt[k]
                                   /\ attempt'[k] = attempt[k]
                                   /\ run'[k] = run[k]
      /\ attempt'[j][n] = status
      /\ run'[j][n] = IF IsSystem(j) THEN run[j][n] ELSE status
      /\ \A m \in Attempt : m # n => /\ attempt'[j][m] = attempt[j][m]
                                     /\ run'[j][m] = run[j][m]
  BY <1>1, <1>2, <1>3, <1>4 DEF IInv, TypeOK
<1>8. /\ \A v \in Worker : v # w => handle'[v] = handle[v]
      /\ handle'[w] = NoHandle
  BY <1>3 DEF IInv, TypeOK
<1>9. TypeOK'
  <2>1. attempt' \in [JobId -> [Attempt -> AttemptStatuses]]
    BY <1>1, <1>3 DEF IInv, TypeOK, AttemptStatuses
  <2>2. run' \in [JobId -> [Attempt -> AttemptStatuses]]
    <3>1. status \in AttemptStatuses /\ run \in [JobId -> [Attempt -> AttemptStatuses]]
      BY DEF AttemptStatuses, IInv, TypeOK
    <3>2. [run EXCEPT ![j][n] = status] \in [JobId -> [Attempt -> AttemptStatuses]]
      BY <1>1, <3>1
    <3> QED BY <1>4, <3>1, <3>2
  <2>3. /\ state' \in [JobId -> JobStates]
        /\ claimToken' \in [JobId -> Token \cup {NoToken}]
    BY <1>3 DEF IInv, TypeOK, JobStates, ClaimableStates
  <2>4. /\ availableAt' \in [JobId -> Nat]
        /\ leaseExpiresAt' \in [JobId -> Nat]
    BY <1>3 DEF IInv, TypeOK, NoLease
  <2>5. handle' \in [Worker -> HandleRecord]
    <3>1. NoHandle \in HandleRecord
      BY AttemptLimitAssumption DEF NoHandle, HandleRecord
    <3> QED BY <1>3, <3>1 DEF IInv, TypeOK
  <2>6. promoted' \subseteq JobId \X Attempt
    BY <1>1, <1>5 DEF IInv, TypeOK
  <2> QED BY <1>3, <2>1, <2>2, <2>3, <2>4, <2>5, <2>6 DEF IInv, TypeOK
<1>10. ClaimColumns'
  BY <1>1, <1>3, <1>7 DEF IInv, ClaimColumns, LeasedStates, TerminalStates
<1>11. AttemptLedger'
  BY <1>1, <1>3, <1>7
     DEF IInv, AttemptLedger, TerminalStates, ClosedStatuses
<1>12. RunMirrorsAttempt'
  <2>1. \A k \in JobId : IsSystem(k)' = IsSystem(k)
    BY <1>3 DEF IsSystem
  <2> QED BY <1>1, <1>7, <2>1 DEF IInv, RunMirrorsAttempt, TerminalStates
<1>13. ClaimableHasBudget'
  <2>1. \A k \in JobId : MaxAttempts(k)' = MaxAttempts(k)
    BY <1>3 DEF MaxAttempts
  <2> QED BY <1>1, <1>3, <1>6, <1>7, <2>1
          DEF IInv, ClaimableHasBudget, ClaimableStates, TerminalStates
<1>14. ResultIsFinal'
  <2>1. \A m \in Attempt, result \in {"succeeded", "empty"} :
           m # n => attempt'[j][m] # result
    BY <1>1, <1>7 DEF IInv, ResultIsFinal
  <2>2. \A result \in {"succeeded", "empty"} :
           attempt'[j][n] = result <=> state'[j] = result
    BY <1>7
  <2>3. n # 0 /\ attemptCount' = attemptCount
    BY <1>1, <1>3 DEF Attempt
  <2> SUFFICES ASSUME NEW k \in JobId, NEW result \in {"succeeded", "empty"}
               PROVE  /\ state'[k] = result =>
                            /\ attemptCount[k] # 0
                            /\ attempt'[k][attemptCount[k]] = result
                      /\ \A m \in Attempt : attempt'[k][m] = result =>
                            m = attemptCount[k] /\ state'[k] = result
    BY <2>3 DEF ResultIsFinal
  <2>4. CASE k = j
    BY <1>1, <2>1, <2>2, <2>3, <2>4
  <2>5. CASE k # j
    BY <1>7, <2>5 DEF IInv, ResultIsFinal
  <2> QED BY <2>4, <2>5
<1>15. PromotedRunsSucceeded'
  <2> SUFFICES ASSUME NEW p \in promoted'
               PROVE  /\ state'[p[1]] = "succeeded"
                      /\ run'[p[1]][p[2]] = "succeeded"
                      /\ identity[p[1]].request.promotion = "automatic"
    BY <1>3 DEF PromotedRunsSucceeded
  <2>1. CASE p \in promoted
    <3>1. p[1] \in JobId /\ p[1] # j
      BY <1>1, <2>1 DEF IInv, TypeOK, PromotedRunsSucceeded
    <3> QED BY <1>7, <2>1, <3>1 DEF IInv, PromotedRunsSucceeded
  <2>2. CASE p \notin promoted
    BY <1>5, <1>7, <2>2
  <2> QED BY <2>1, <2>2
<1>16. HandlesAreFenced'
  <2>1. \A v \in Worker : handle[v].job # NoJob => handle[v].job \in JobId
    BY DEF IInv, TypeOK, HandleRecord
  <2>2. \A v \in Worker : /\ handle[v].job # NoJob => handle[v].token # NoToken
                          /\ handle[v].job = NoJob => handle[v].token = NoToken
    BY DEF IInv, HandlesAreFenced
  <2>3. NoHandle.job = NoJob /\ NoHandle.token = NoToken /\ NoHandle.attempt = 0
    BY DEF NoHandle
  <2> QED BY <1>1, <1>3, <1>7, <1>8, <2>1, <2>2, <2>3
          DEF IInv, HandlesAreFenced, TerminalStates
<1> QED
  BY <1>9, <1>10, <1>11, <1>12, <1>13, <1>14, <1>15, <1>16 DEF IInv

(* finish_run and finish_system_job keep the invariant.                    *)
LEMMA FinishInv == ASSUME IInv, NEW w \in Worker, Finish(w) PROVE IInv'
<1> PICK at \in Readings(w), status \in ClosedStatuses :
        \/ \E retryable, promote \in BOOLEAN, delay \in RetryAfter \cup {0} :
              FinishRun(w, at, status, retryable, delay, promote)
        \/ FinishSystemJob(w, at, status)
  BY DEF Finish
<1> DEFINE j == handle[w].job
<1>1. OwnsClaim(w, "running", at)
  BY DEF FinishRun, FinishSystemJob
<1>2. /\ at \in Nat /\ j \in JobId
      /\ Backoff(j, attemptCount[j]) \in Nat
  BY <1>1, OwnerFacts, BackoffNat DEF LeasedStates, Attempt
<1>3. CASE FinishSystemJob(w, at, status)
  <2> DEFINE next == SystemFinishedState(j, status)
             retryAt == at + Backoff(j, attemptCount[j])
  <2>1. /\ next \in {"retry_wait"} \cup TerminalStates
        /\ next = "retry_wait" => attemptCount[j] < MaxAttempts(j)
        /\ \A result \in {"succeeded", "empty"} : status = result <=> next = result
    BY <1>3 DEF FinishSystemJob, SystemFinishedState, TerminalStates
  <2>2. retryAt \in Nat
    BY <1>2
  <2>3. CloseAttempt(w, status, next, retryAt) /\ IsSystem(j)
        /\ run' = run /\ promoted' = promoted
    BY <1>3 DEF FinishSystemJob
  <2> HIDE DEF next, retryAt
  <2> QED BY <1>1, <2>1, <2>2, <2>3, CloseInv
<1>4. ASSUME NEW retryable \in BOOLEAN, NEW promote \in BOOLEAN,
             NEW delay \in RetryAfter \cup {0},
             FinishRun(w, at, status, retryable, delay, promote)
      PROVE  IInv'
  <2> DEFINE next == FinishedState(j, status, retryable)
             retryAt == at + Larger(Backoff(j, attemptCount[j]), delay)
  <2>1. /\ next \in {"retry_wait"} \cup TerminalStates
        /\ next = "retry_wait" => attemptCount[j] < MaxAttempts(j)
        /\ \A result \in {"succeeded", "empty"} : status = result <=> next = result
    BY DEF FinishedState, TerminalStates
  <2>2. retryAt \in Nat
    BY <1>2, RetryAfterAssumption DEF Larger
  <2>3. /\ CloseAttempt(w, status, next, retryAt)
        /\ ~IsSystem(j)
        /\ run' = [run EXCEPT ![j][handle[w].attempt] = status]
        /\ promote => /\ status = "succeeded"
                      /\ identity[j].request.promotion = "automatic"
        /\ promoted' = IF promote THEN promoted \cup {<<j, handle[w].attempt>>}
                                  ELSE promoted
    BY <1>4 DEF FinishRun, MayPromote
  <2> HIDE DEF next, retryAt
  <2> QED BY <1>1, <2>1, <2>2, <2>3, CloseInv
<1> QED BY <1>3, <1>4

(* cancel keeps the invariant, although it leaves the claim columns of a   *)
(* claimed job behind.                                                     *)
LEMMA CancelInv == ASSUME IInv, NEW j \in JobId, Cancel(j) PROVE IInv'
<1>1. state[j] \in {"queued", "retry_wait", "claimed"}
  BY DEF Cancel, ClaimableStates
<1>2. /\ state' = [state EXCEPT ![j] = "cancelled"]
      /\ UNCHANGED <<now, identity, attemptCount, availableAt, claimToken,
                     leaseExpiresAt, attempt, run, promoted, handle>>
  BY DEF Cancel
<1>3. /\ state'[j] = "cancelled"
      /\ \A k \in JobId : k # j => state'[k] = state[k]
  BY <1>2 DEF IInv, TypeOK
<1>4. TypeOK'
  BY <1>2 DEF IInv, TypeOK, JobStates, TerminalStates
<1>5. ClaimColumns'
  BY <1>1, <1>2, <1>3 DEF IInv, ClaimColumns, LeasedStates
<1>6. AttemptLedger'
  BY <1>1, <1>2, <1>3 DEF IInv, AttemptLedger
<1>7. RunMirrorsAttempt'
  BY <1>1, <1>2, <1>3 DEF IInv, RunMirrorsAttempt, IsSystem
<1>8. ClaimableHasBudget'
  BY <1>1, <1>2, <1>3 DEF IInv, ClaimableHasBudget, MaxAttempts, ClaimableStates
<1>9. ResultIsFinal'
  BY <1>1, <1>2, <1>3 DEF IInv, ResultIsFinal
<1>10. PromotedRunsSucceeded'
  BY <1>1, <1>2, <1>3 DEF IInv, TypeOK, PromotedRunsSucceeded
<1>11. HandlesAreFenced'
  BY <1>1, <1>2, <1>3 DEF IInv, TypeOK, HandlesAreFenced, HandleRecord
<1> QED
  BY <1>4, <1>5, <1>6, <1>7, <1>8, <1>9, <1>10, <1>11 DEF IInv

(* The death of a worker keeps the invariant: only its handle is gone.     *)
LEMMA AbandonInv == ASSUME IInv, NEW w \in Worker, Abandon(w) PROVE IInv'
<1>1. /\ handle' = [handle EXCEPT ![w] = NoHandle]
      /\ UNCHANGED <<now, state, identity, attemptCount, availableAt,
                     claimToken, leaseExpiresAt, attempt, run, promoted>>
  BY DEF Abandon, jobVars
<1>2. NoHandle \in HandleRecord
  BY AttemptLimitAssumption DEF NoHandle, HandleRecord
<1>3. TypeOK'
  BY <1>1, <1>2 DEF IInv, TypeOK
<1>4. /\ ClaimColumns' /\ AttemptLedger' /\ ResultIsFinal'
      /\ PromotedRunsSucceeded'
  BY <1>1 DEF IInv, ClaimColumns, AttemptLedger, ResultIsFinal,
              PromotedRunsSucceeded
<1>5. RunMirrorsAttempt' /\ ClaimableHasBudget'
  BY <1>1 DEF IInv, RunMirrorsAttempt, IsSystem, ClaimableHasBudget, MaxAttempts
<1>6. HandlesAreFenced'
  <2>1. /\ handle'[w] = NoHandle
        /\ \A v \in Worker : v # w => handle'[v] = handle[v]
    BY <1>1 DEF IInv, TypeOK
  <2>2. \A v \in Worker : /\ handle[v].job # NoJob => handle[v].token # NoToken
                          /\ handle[v].job = NoJob => handle[v].token = NoToken
    BY DEF IInv, HandlesAreFenced
  <2>3. NoHandle.job = NoJob /\ NoHandle.token = NoToken /\ NoHandle.attempt = 0
    BY DEF NoHandle
  <2> QED BY <1>1, <2>1, <2>2, <2>3 DEF IInv, HandlesAreFenced
<1> QED BY <1>3, <1>4, <1>5, <1>6 DEF IInv

(* The passing of time keeps the invariant.                                *)
LEMMA TickInv == ASSUME IInv, Tick PROVE IInv'
<1>1. now' = now + 1
  BY DEF Tick
<1>2. UNCHANGED <<state, identity, attemptCount, availableAt, claimToken,
                  leaseExpiresAt, attempt, run, promoted, handle>>
  BY DEF Tick, jobVars
<1>3. TypeOK'
  BY <1>1, <1>2 DEF IInv, TypeOK
<1>4. /\ ClaimColumns' /\ AttemptLedger' /\ RunMirrorsAttempt'
      /\ ClaimableHasBudget' /\ ResultIsFinal' /\ PromotedRunsSucceeded'
      /\ HandlesAreFenced'
  BY <1>2 DEF IInv, ClaimColumns, AttemptLedger, RunMirrorsAttempt, IsSystem,
              ClaimableHasBudget, MaxAttempts, ResultIsFinal,
              PromotedRunsSucceeded, HandlesAreFenced
<1> QED BY <1>3, <1>4 DEF IInv

(* A step that changes nothing keeps the invariant.                        *)
LEMMA StutterInv == ASSUME IInv, UNCHANGED vars PROVE IInv'
<1>1. UNCHANGED <<now, state, identity, attemptCount, availableAt, claimToken,
                  leaseExpiresAt, attempt, run, promoted, handle>>
  BY DEF vars, jobVars
<1>2. TypeOK'
  BY <1>1 DEF IInv, TypeOK
<1>3. /\ ClaimColumns' /\ AttemptLedger' /\ RunMirrorsAttempt'
      /\ ClaimableHasBudget' /\ ResultIsFinal' /\ PromotedRunsSucceeded'
      /\ HandlesAreFenced'
  BY <1>1 DEF IInv, ClaimColumns, AttemptLedger, RunMirrorsAttempt, IsSystem,
              ClaimableHasBudget, MaxAttempts, ResultIsFinal,
              PromotedRunsSucceeded, HandlesAreFenced
<1> QED BY <1>2, <1>3 DEF IInv

(* IInv is inductive: every operation of the store keeps it.               *)
THEOREM Inductive == IInv /\ [Next]_vars => IInv'
<1> SUFFICES ASSUME IInv, [Next]_vars PROVE IInv'
  OBVIOUS
<1>1. CASE Submit
  BY <1>1, SubmitInv
<1>2. ASSUME NEW w \in Worker, Claim(w) PROVE IInv'
  BY <1>2, ClaimInv
<1>3. ASSUME NEW w \in Worker, Start(w) PROVE IInv'
  BY <1>3, StartInv
<1>4. ASSUME NEW w \in Worker, NEW at \in Readings(w), Heartbeat(w, at)
      PROVE  IInv'
  BY <1>4, HeartbeatInv
<1>5. ASSUME NEW w \in Worker, Finish(w) PROVE IInv'
  BY <1>5, FinishInv
<1>6. ASSUME NEW w \in Worker, Abandon(w) PROVE IInv'
  BY <1>6, AbandonInv
<1>7. ASSUME NEW at \in Anchors, RecoverExpired(at) PROVE IInv'
  <2> at \in Nat
    BY DEF Anchors, IInv, TypeOK
  <2> QED BY <1>7, RecoverInv
<1>8. ASSUME NEW j \in JobId, Cancel(j) PROVE IInv'
  BY <1>8, CancelInv
<1>9. CASE Tick
  BY <1>9, TickInv
<1>10. CASE UNCHANGED vars
  BY <1>10, StutterInv
<1> QED
  BY <1>1, <1>2, <1>3, <1>4, <1>5, <1>6, <1>7, <1>8, <1>9, <1>10 DEF Next

(* Every reachable state of the queue satisfies the inductive invariant,   *)
(* for any number of jobs, workers, attempts and any lease length.         *)
THEOREM Invariance == Spec => []IInv
  BY InitInv, Inductive, PTL DEF Spec

(* Every column of the queue keeps its type: no operation writes a state   *)
(* or a status the schema does not know, or counts an attempt beyond the   *)
(* limit.                                                                  *)
THEOREM TypeCorrect == Spec => []TypeOK
<1>1. IInv => TypeOK
  BY DEF IInv
<1> QED BY <1>1, Invariance, PTL

(* Attempts are numbered without gaps and at most the last is running, and *)
(* only while its job is.                                                  *)
THEOREM TablesAgree == Spec => []AttemptLedger
<1>1. IInv => AttemptLedger
  BY DEF IInv
<1> QED BY <1>1, Invariance, PTL

(* Each ingestion_run has the status of its attempt, whichever of start,   *)
(* finish and recovery wrote the two tables last.                          *)
THEOREM RunsMirrorAttempts == Spec => []RunMirrorsAttempt
<1>1. IInv => RunMirrorsAttempt
  BY DEF IInv
<1> QED BY <1>1, Invariance, PTL

(* A job that can be claimed has an attempt left in its budget, so         *)
(* start_run never refuses a valid claim.                                  *)
THEOREM ClaimsCanStart == Spec => []ClaimableHasBudget
<1>1. IInv => ClaimableHasBudget
  BY DEF IInv
<1> QED BY <1>1, Invariance, PTL

(* A successful or empty attempt ends its job for good, however often the  *)
(* job was recovered or retried before.                                    *)
THEOREM ResultsAreFinal == Spec => []ResultIsFinal
<1>1. IInv => ResultIsFinal
  BY DEF IInv
<1> QED BY <1>1, Invariance, PTL

(* Only the successful run of a succeeded job of an automatic definition   *)
(* is promoted.                                                            *)
THEOREM PromotionsAreEarned == Spec => []PromotedRunsSucceeded
<1>1. IInv => PromotedRunsSucceeded
  BY DEF IInv
<1> QED BY <1>1, Invariance, PTL

(* A job carries a token and a lease exactly while it is claimed or        *)
(* running, but for the columns cancel leaves behind.                      *)
THEOREM ClaimColumnsAgree == Spec => []ClaimColumns
<1>1. IInv => ClaimColumns
  BY DEF IInv
<1> QED BY <1>1, Invariance, PTL

(* The claim token fences workers: a handle the store still accepts is that*)
(* of the job's present claim or of its last attempt.                      *)
THEOREM WorkersAreFenced == Spec => []HandlesAreFenced
<1>1. IInv => HandlesAreFenced
  BY DEF IInv
<1> QED BY <1>1, Invariance, PTL

-----------------------------------------------------------------------------
(* The dedupe key: IInv and the two facts about identities that together   *)
(* are inductive.                                                          *)
DedupeInv == IInv /\ InstanceIsOwn /\ DedupeKeysAreUnique

(* An INSERT whose dedupe_key no row has keeps the keys unique.            *)
LEMMA InsertDedupe ==
  ASSUME DedupeInv, NEW j \in JobId, NEW id \in IdentityRecord, NEW at,
         Insert(j, id, at),
         \/ id.instance = j
         \/ id.instance = NoJob /\ Duplicates(id) = {}
  PROVE  (InstanceIsOwn /\ DedupeKeysAreUnique)'
<1>1. /\ state[j] = "absent"
      /\ state'[j] = "queued" /\ identity'[j] = id
      /\ \A k \in JobId : k # j => /\ state'[k] = state[k]
                                   /\ identity'[k] = identity[k]
  BY DEF Insert, DedupeInv, IInv, TypeOK
<1>2. InstanceIsOwn'
  BY <1>1 DEF DedupeInv, InstanceIsOwn
<1>3. ASSUME NEW k \in JobId, k # j, state[k] # "absent"
      PROVE  ~SameDedupeKey(identity[k], id) /\ ~SameDedupeKey(id, identity[k])
  BY <1>3, NullAssumption
     DEF DedupeInv, InstanceIsOwn, SameDedupeKey, Duplicates
<1>4. DedupeKeysAreUnique'
  <2> SUFFICES ASSUME NEW a \in JobId, NEW b \in JobId, a # b,
                      state'[a] # "absent", state'[b] # "absent"
               PROVE  ~SameDedupeKey(identity'[a], identity'[b])
    BY DEF DedupeKeysAreUnique, SameDedupeKey
  <2>1. CASE a # j /\ b # j
    BY <1>1, <2>1 DEF DedupeInv, DedupeKeysAreUnique
  <2>2. CASE a = j
    BY <1>1, <1>3, <2>2
  <2>3. CASE b = j
    BY <1>1, <1>3, <2>3
  <2> QED BY <2>1, <2>2, <2>3
<1> QED BY <1>2, <1>4

(* Each operation that inserts a job looks its key up first or makes an    *)
(* instance id of its own, so the keys stay unique.                        *)
LEMMA SubmitDedupe ==
  ASSUME DedupeInv, Submit PROVE (InstanceIsOwn /\ DedupeKeysAreUnique)'
<1> PICK j \in JobId : \/ \E r \in Request : \/ Enqueue(r, j)
                                             \/ EnqueueBackfill(r, j)
                                             \/ EnqueueProjection(r, j)
                       \/ \E p \in JobId : Retry(p, j)
  BY DEF Submit
<1> IInv
  BY DEF DedupeInv
<1> now \in Nat
  BY DEF IInv, TypeOK
<1>1. ASSUME NEW r \in Request
      PROVE  /\ ScheduledFor(r) \in Nat /\ r.slot \in Nat
             /\ \A i \in {NoJob, j}, at \in Nat :
                   Root(r, i, at) \in IdentityRecord /\ Root(r, i, at).instance = i
  BY RequestAssumption
     DEF ScheduledFor, Root, IdentityRecord, RequestRecord
<1>2. ASSUME NEW r \in Request, Enqueue(r, j)
      PROVE  (InstanceIsOwn /\ DedupeKeysAreUnique)'
  <2> DEFINE at == ScheduledFor(r)
             existing == Duplicates(Root(r, NoJob, at))
  <2>1. CASE existing = {}
    <3>1. Insert(j, Root(r, NoJob, at), at)
      BY <1>2, <2>1 DEF Enqueue
    <3> QED BY <1>1, <2>1, <3>1, InsertDedupe
  <2>2. CASE existing # {}
    <3>1. Insert(j, Root(r, j, at), at)
      BY <1>2, <2>2 DEF Enqueue
    <3> QED BY <1>1, <3>1, InsertDedupe
  <2> QED BY <2>1, <2>2
<1>3. ASSUME NEW r \in Request, EnqueueBackfill(r, j)
      PROVE  (InstanceIsOwn /\ DedupeKeysAreUnique)'
  BY <1>1, <1>3, InsertDedupe DEF EnqueueBackfill
<1>4. ASSUME NEW r \in Request, EnqueueProjection(r, j)
      PROVE  (InstanceIsOwn /\ DedupeKeysAreUnique)'
  BY <1>1, <1>4, InsertDedupe DEF EnqueueProjection
<1>5. ASSUME NEW p \in JobId, Retry(p, j)
      PROVE  (InstanceIsOwn /\ DedupeKeysAreUnique)'
  <2> DEFINE id == [request |-> identity[p].request, trigger |-> "manual",
                    parent |-> p, generation |-> identity[p].generation + 1,
                    instance |-> j, scheduledFor |-> now]
  <2>1. identity[p] \in IdentityRecord
    BY <1>5 DEF Retry, IInv, TypeOK, ClaimColumns
  <2>2. id \in IdentityRecord /\ id.instance = j
    BY <2>1 DEF IdentityRecord, Triggers
  <2>3. Insert(j, id, now)
    BY <1>5 DEF Retry
  <2> HIDE DEF id
  <2> QED BY <2>2, <2>3, InsertDedupe
<1> QED BY <1>2, <1>3, <1>4, <1>5

(* Only an INSERT makes a job present, and nothing rewrites its identity.  *)
LEMMA OtherStepsKeepIdentity ==
  ASSUME IInv, [Next]_vars, ~Submit
  PROVE  /\ identity' = identity
         /\ \A j \in JobId : state'[j] = "absent" <=> state[j] = "absent"
<1>1. ASSUME NEW at \in Anchors, RecoverExpired(at)
      PROVE  /\ identity' = identity
             /\ \A j \in JobId : state'[j] = "absent" <=> state[j] = "absent"
  <2> at \in Nat
    BY DEF Anchors, IInv, TypeOK
  <2> QED BY <1>1, RecoveryOfOneJob
          DEF RecoverExpired, ClaimableStates, Expired, LeasedStates
<1>2. ASSUME NEW w \in Worker, Claim(w)
      PROVE  /\ identity' = identity
             /\ \A j \in JobId : state'[j] = "absent" <=> state[j] = "absent"
  <2> PICK at \in Anchors, i \in JobId : ClaimRow(w, i, at)
    BY <1>2 DEF Claim, ClaimNext, ClaimJob
  <2> at \in Nat
    BY DEF Anchors, IInv, TypeOK
  <2>1. /\ identity' = identity
        /\ state' = [StateAfter(at) EXCEPT ![i] = "claimed"]
        /\ StateAfter(at)[i] \in ClaimableStates
    BY DEF ClaimRow, Due
  <2> QED BY <2>1, RecoveryOfOneJob, RecoveryTables
          DEF ClaimableStates, Expired, LeasedStates
<1>3. ASSUME NEW w \in Worker, Start(w)
      PROVE  /\ identity' = identity
             /\ \A j \in JobId : state'[j] = "absent" <=> state[j] = "absent"
  BY <1>3 DEF Start, StartRun, StartSystemJob, StartAttempt, OwnsClaim, IInv,
              TypeOK
<1>4. ASSUME NEW w \in Worker, Finish(w)
      PROVE  /\ identity' = identity
             /\ \A j \in JobId : state'[j] = "absent" <=> state[j] = "absent"
  <2> PICK status, next, retryAt :
         /\ CloseAttempt(w, status, next, retryAt)
         /\ next # "absent" /\ state[handle[w].job] = "running"
    BY <1>4 DEF Finish, FinishRun, FinishSystemJob, FinishedState,
                SystemFinishedState, OwnsClaim, ClosedStatuses
  <2> QED BY DEF CloseAttempt, IInv, TypeOK
<1>5. ASSUME NEW j \in JobId, Cancel(j)
      PROVE  /\ identity' = identity
             /\ \A k \in JobId : state'[k] = "absent" <=> state[k] = "absent"
  BY <1>5 DEF Cancel, ClaimableStates, IInv, TypeOK
<1> QED
  BY <1>1, <1>2, <1>3, <1>4, <1>5 DEF Next, Heartbeat, Abandon, Tick, vars, jobVars

(* No two jobs ever have one dedupe_key, so the UNIQUE constraint on       *)
(* workflow_job never fails an enqueue, a retry or a repeated manual       *)
(* request.                                                                *)
THEOREM DedupeKeys == Spec => []DedupeKeysAreUnique
<1>1. Init => DedupeInv
  BY InitInv DEF Init, DedupeInv, InstanceIsOwn, DedupeKeysAreUnique
<1>2. DedupeInv /\ [Next]_vars => DedupeInv'
  <2> SUFFICES ASSUME DedupeInv, [Next]_vars PROVE DedupeInv'
    OBVIOUS
  <2>1. IInv'
    BY Inductive DEF DedupeInv
  <2>2. CASE Submit
    BY <2>1, <2>2, SubmitDedupe DEF DedupeInv
  <2>3. CASE ~Submit
    BY <2>1, <2>3, OtherStepsKeepIdentity
       DEF DedupeInv, InstanceIsOwn, DedupeKeysAreUnique, SameDedupeKey
  <2> QED BY <2>2, <2>3
<1>3. DedupeInv => DedupeKeysAreUnique
  BY DEF DedupeInv
<1> QED BY <1>1, <1>2, <1>3, PTL DEF Spec

(* The tables of the queue agree at every commit: the claim columns, the   *)
(* attempts, the runs, the promotions and the dedupe keys together.        *)
THEOREM TablesConsistent == Spec => []TablesAreConsistent
<1>1. IInv /\ DedupeKeysAreUnique => TablesAreConsistent
  BY DEF IInv, TablesAreConsistent
<1> QED BY <1>1, Invariance, DedupeKeys, PTL

-----------------------------------------------------------------------------
(* Action properties.                                                      *)

(* A lease that has expired at a timestamp a caller may pass has expired   *)
(* by the wall clock: such timestamps are never in the future.             *)
LEMMA AnchorFacts ==
  ASSUME IInv, NEW at \in Anchors
  PROVE  /\ at \in Nat /\ at <= now
         /\ \A j \in JobId : leaseExpiresAt[j] > now => ~Expired(j, at)
  BY DEF Anchors, Expired, IInv, TypeOK

(* Until a lease ends only its holder moves the job on, whatever other     *)
(* workers, recovery and operators do and however old the timestamps they  *)
(* pass are.                                                               *)
THEOREM LeaseExclusive == Spec => LiveLeaseIsExclusive
<1> DEFINE A == \A j \in JobId :
                   state[j] \in LeasedStates /\ leaseExpiresAt[j] > now
                       /\ state'[j] # state[j]
                   => \/ HolderActs(j)
                      \/ state[j] = "claimed" /\ state'[j] = "cancelled"
<1>1. ASSUME IInv, [Next]_vars PROVE A \/ UNCHANGED vars
  <2> SUFFICES ASSUME NEW j \in JobId, Next,
                      state[j] \in LeasedStates, leaseExpiresAt[j] > now,
                      state'[j] # state[j]
               PROVE  \/ HolderActs(j)
                      \/ state[j] = "claimed" /\ state'[j] = "cancelled"
    BY <1>1
  <2> IInv
    BY <1>1
  <2>1. ~Submit
    <3>1. \A i, id, at : Insert(i, id, at) => state'[j] = state[j]
      BY DEF Insert, LeasedStates, IInv, TypeOK
    <3> QED BY <3>1 DEF Submit, Enqueue, EnqueueBackfill, EnqueueProjection, Retry
  <2>2. ASSUME NEW at \in Anchors, RecoverExpired(at) PROVE FALSE
    BY <2>2, AnchorFacts, RecoveryOfOneJob DEF RecoverExpired
  <2>3. ASSUME NEW w \in Worker, Claim(w) PROVE FALSE
    <3> PICK at \in Anchors, i \in JobId : ClaimRow(w, i, at)
      BY <2>3 DEF Claim, ClaimNext, ClaimJob
    <3>1. StateAfter(at)[j] = state[j]
      BY AnchorFacts, RecoveryOfOneJob
    <3>2. StateAfter(at)[i] \in ClaimableStates
      BY DEF ClaimRow, Due
    <3>3. i # j
      BY <3>1, <3>2 DEF ClaimableStates, LeasedStates
    <3> QED BY <3>1, <3>3, AnchorFacts, RecoveryTables DEF ClaimRow
  <2>4. ASSUME NEW w \in Worker, Start(w) PROVE HolderActs(j)
    <3> PICK at \in Readings(w) : StartRun(w, at) \/ StartSystemJob(w, at)
      BY <2>4 DEF Start
    <3>1. StartAttempt(w, at) /\ OwnsClaim(w, "claimed", at) /\ handle[w].attempt = 0
      BY DEF StartRun, StartSystemJob, StartAttempt
    <3>2. handle[w].job = j
      BY <3>1 DEF StartAttempt, IInv, TypeOK
    <3>3. handle[w].token = claimToken[j]
      BY <3>1, <3>2 DEF OwnsClaim
    <3>4. attemptCount[j] + 1 # 0
      BY AttemptLimitAssumption DEF IInv, TypeOK
    <3>5. handle[w] \in HandleRecord
      BY DEF IInv, TypeOK
    <3>6. handle'[w] = [handle[w] EXCEPT !.attempt = attemptCount[j] + 1, !.at = at]
      BY <3>1, <3>2 DEF StartAttempt, IInv, TypeOK
    <3>7. handle'[w].attempt = attemptCount[j] + 1
      BY <3>5, <3>6 DEF HandleRecord
    <3>8. handle'[w] # handle[w]
      BY <3>1, <3>4, <3>7
    <3> QED BY <3>2, <3>3, <3>8 DEF HolderActs
  <2>5. ASSUME NEW w \in Worker, Finish(w) PROVE HolderActs(j)
    <3> PICK at, status, next, retryAt :
           CloseAttempt(w, status, next, retryAt) /\ OwnsClaim(w, "running", at)
      BY <2>5 DEF Finish, FinishRun, FinishSystemJob
    <3>1. handle[w].job = j
      BY DEF CloseAttempt, IInv, TypeOK
    <3>2. handle[w].token = claimToken[j] /\ handle[w].job # NoJob
      BY <3>1 DEF OwnsClaim
    <3>3. handle'[w] = NoHandle
      BY DEF CloseAttempt, IInv, TypeOK
    <3>4. handle'[w] # handle[w]
      BY <3>2, <3>3 DEF NoHandle
    <3> QED BY <3>1, <3>2, <3>4 DEF HolderActs
  <2>6. ASSUME NEW i \in JobId, Cancel(i)
        PROVE  state[j] = "claimed" /\ state'[j] = "cancelled"
    BY <2>6 DEF Cancel, ClaimableStates, LeasedStates, IInv, TypeOK
  <2> QED BY <2>1, <2>2, <2>3, <2>4, <2>5, <2>6
          DEF Next, Heartbeat, Abandon, Tick, jobVars
<1>2. IInv /\ [Next]_vars => [A]_vars
  BY <1>1
<1> QED BY <1>2, Invariance, PTL DEF Spec, LiveLeaseIsExclusive

(* A worker whose claim was recovered cannot report an outcome: whatever   *)
(* ends an attempt other than as "failed" is the finish of the worker      *)
(* whose token the job carries, for that very attempt.                     *)
THEOREM LateCommitsRefused == Spec => LateWorkerCannotCommit
<1> DEFINE Held(j, n) == \E w \in Worker : /\ handle[w].job = j
                                           /\ handle[w].token = claimToken[j]
                                           /\ handle[w].attempt = n
           A == \A j \in JobId, n \in Attempt :
                   attempt[j][n] = "running"
                       /\ attempt'[j][n] \notin {"running", "failed"}
                   => Held(j, n)
<1>1. ASSUME IInv, [Next]_vars PROVE A \/ UNCHANGED vars
  <2> SUFFICES ASSUME NEW j \in JobId, NEW n \in Attempt, Next,
                      attempt[j][n] = "running",
                      attempt'[j][n] \notin {"running", "failed"}
               PROVE  Held(j, n)
    BY <1>1
  <2> IInv
    BY <1>1
  <2>1. attempt \in [JobId -> [Attempt -> AttemptStatuses]]
    BY DEF IInv, TypeOK
  <2>2. ~Submit
    <3>1. \A i, id, at : Insert(i, id, at) => attempt' = attempt
      BY DEF Insert
    <3> QED BY <3>1 DEF Submit, Enqueue, EnqueueBackfill, EnqueueProjection, Retry
  <2>3. \A at : FailRunning(attempt, j, at)[n] \in {"running", "failed"}
    BY DEF FailRunning
  <2>4. ASSUME NEW at \in Anchors, RecoverExpired(at) PROVE FALSE
    BY <2>3, <2>4 DEF RecoverExpired
  <2>5. ASSUME NEW w \in Worker, Claim(w) PROVE FALSE
    BY <2>3, <2>5 DEF Claim, ClaimNext, ClaimJob, ClaimRow
  <2>6. ASSUME NEW w \in Worker, Start(w) PROVE FALSE
    <3> PICK at \in Readings(w) : StartRun(w, at) \/ StartSystemJob(w, at)
      BY <2>6 DEF Start
    <3>1. StartAttempt(w, at)
      BY DEF StartRun, StartSystemJob
    <3> QED BY <2>1, <3>1 DEF StartAttempt
  <2>7. ASSUME NEW w \in Worker, Finish(w) PROVE Held(j, n)
    <3> PICK at, status, next, retryAt :
           CloseAttempt(w, status, next, retryAt) /\ OwnsClaim(w, "running", at)
      BY <2>7 DEF Finish, FinishRun, FinishSystemJob
    <3>1. handle[w].job = j /\ handle[w].attempt = n
      BY <2>1 DEF CloseAttempt
    <3>2. handle[w].token = claimToken[j]
      BY <3>1 DEF OwnsClaim
    <3> QED BY <3>1, <3>2
  <2> QED BY <2>2, <2>4, <2>5, <2>6, <2>7
          DEF Next, Heartbeat, Abandon, Cancel, Tick
<1>2. IInv /\ [Next]_vars => [A]_vars
  BY <1>1
<1> QED BY <1>2, Invariance, PTL DEF Spec, LateWorkerCannotCommit

-----------------------------------------------------------------------------
(***************************************************************************)
(* The durable queue implements JobLifecycle: its empty store is an initial*)
(* state of the life cycle, and each of its steps moves every job along one*)
(* edge of the life cycle or leaves it.  One lemma per group of operations *)
(* shows the latter for an arbitrary job k; IInv supplies what an operation*)
(* relies on (the attempt that is running is the last one, a claimable job *)
(* has an attempt left).                                                   *)
(***************************************************************************)

(* The budget of a stored job is fixed by its INSERT.                      *)
LEMMA BudgetIsKept ==
  ASSUME NEW k \in JobId, identity'[k] = identity[k],
         (state'[k] = "absent") <=> (state[k] = "absent")
  PROVE  Budget'[k] = Budget[k]
  BY DEF Budget, MaxAttempts

(* An operation that does not touch a job leaves it where it is.           *)
LEMMA UntouchedStays ==
  ASSUME NEW k \in JobId, identity'[k] = identity[k], state'[k] = state[k],
         attemptCount'[k] = attemptCount[k], attempt'[k] = attempt[k]
  PROVE  Lifecycle!Step(k)
  BY BudgetIsKept DEF Lifecycle!Step, Lifecycle!Stay, Lifecycle!Keeps

(* An INSERT submits one job with a budget within the schema's limit.      *)
LEMMA InsertStep ==
  ASSUME IInv, NEW j \in JobId, NEW id \in IdentityRecord, NEW at,
         Insert(j, id, at), NEW k \in JobId
  PROVE  Lifecycle!Step(k)
<1>1. CASE k = j
  <2>1. identity'[j] = id /\ state'[j] = "queued" /\ state[j] = "absent"
    BY DEF Insert, IInv, TypeOK
  <2>2. Budget'[j] = id.request.attempts
    BY <2>1 DEF Budget, MaxAttempts
  <2>3. Budget'[j] \in 1..AttemptLimit
    BY <2>2, RequestAssumption DEF IdentityRecord, RequestRecord
  <2> QED BY <1>1, <2>1, <2>3 DEF Insert, Lifecycle!Step, Lifecycle!Submit
<1>2. CASE k # j
  BY <1>2, UntouchedStays DEF Insert, IInv, TypeOK
<1> QED BY <1>1, <1>2

(* enqueue, enqueue_backfill, enqueue_projection_delivery and retry.       *)
LEMMA SubmitStep ==
  ASSUME IInv, Submit, NEW k \in JobId
  PROVE  Lifecycle!Step(k)
<1> PICK j \in JobId : \/ \E r \in Request : \/ Enqueue(r, j)
                                             \/ EnqueueBackfill(r, j)
                                             \/ EnqueueProjection(r, j)
                       \/ \E p \in JobId : Retry(p, j)
  BY DEF Submit
<1> now \in Nat
  BY DEF IInv, TypeOK
<1>1. ASSUME NEW r \in Request
      PROVE  /\ ScheduledFor(r) \in Nat /\ r.slot \in Nat
             /\ \A i \in {NoJob, j}, at \in Nat : Root(r, i, at) \in IdentityRecord
  BY RequestAssumption
     DEF ScheduledFor, Root, IdentityRecord, RequestRecord
<1>2. ASSUME NEW r \in Request, Enqueue(r, j) PROVE Lifecycle!Step(k)
  BY <1>1, <1>2, InsertStep DEF Enqueue
<1>3. ASSUME NEW r \in Request, EnqueueBackfill(r, j) PROVE Lifecycle!Step(k)
  BY <1>1, <1>3, InsertStep DEF EnqueueBackfill
<1>4. ASSUME NEW r \in Request, EnqueueProjection(r, j) PROVE Lifecycle!Step(k)
  BY <1>1, <1>4, InsertStep DEF EnqueueProjection
<1>5. ASSUME NEW p \in JobId, Retry(p, j) PROVE Lifecycle!Step(k)
  <2> DEFINE id == [request |-> identity[p].request, trigger |-> "manual",
                    parent |-> p, generation |-> identity[p].generation + 1,
                    instance |-> j, scheduledFor |-> now]
  <2>1. identity[p] \in IdentityRecord
    BY <1>5 DEF Retry, IInv, TypeOK, ClaimColumns
  <2>2. id \in IdentityRecord
    BY <2>1 DEF IdentityRecord, Triggers
  <2>3. Insert(j, id, now)
    BY <1>5 DEF Retry
  <2> HIDE DEF id
  <2> QED BY <2>2, <2>3, InsertStep
<1> QED BY <1>2, <1>3, <1>4, <1>5

(* What recovery does to the attempts of one job: it closes the running    *)
(* one, which is the last, or nothing.                                     *)
LEMMA RecoveredAttempts ==
  ASSUME IInv, NEW at \in Nat, NEW k \in JobId
  PROVE  /\ Expired(k, at) /\ state[k] = "running" =>
              /\ attemptCount[k] \in Attempt
              /\ FailRunning(attempt, k, at) =
                    [attempt[k] EXCEPT ![attemptCount[k]] = "failed"]
         /\ ~(Expired(k, at) /\ state[k] = "running") =>
              FailRunning(attempt, k, at) = attempt[k]
<1>1. attempt[k] \in [Attempt -> AttemptStatuses]
  BY DEF IInv, TypeOK
<1>2. \A n \in Attempt : attempt[k][n] = "running" <=>
          state[k] = "running" /\ n = attemptCount[k]
  BY DEF IInv, AttemptLedger
<1>3. state[k] = "running" => attemptCount[k] \in Attempt
  BY AttemptLimitAssumption DEF IInv, TypeOK, AttemptLedger, Attempt
<1> QED BY <1>1, <1>2, <1>3 DEF FailRunning

(* A job that recovery moves goes back to the queue, or its attempt fails  *)
(* and it waits for the next one or is given up.                           *)
LEMMA RecoveredStep ==
  ASSUME IInv, NEW at \in Nat, NEW k \in JobId,
         identity'[k] = identity[k], attemptCount'[k] = attemptCount[k],
         attempt'[k] = FailRunning(attempt, k, at),
         state'[k] = StateAfter(at)[k]
  PROVE  Lifecycle!Step(k)
<1>1. CASE ~Expired(k, at)
  BY <1>1, RecoveredAttempts, RecoveryOfOneJob, UntouchedStays
<1>2. CASE Expired(k, at)
  <2>1. /\ state[k] \in {"claimed", "running"}
        /\ state'[k] = RecoveredState(k)
    BY <1>2 DEF Expired, LeasedStates, StateAfter
  <2>2. Budget'[k] = Budget[k] /\ Budget[k] = MaxAttempts(k)
    <3>1. state'[k] # "absent"
      BY <2>1 DEF RecoveredState
    <3> QED BY <2>1, <3>1, BudgetIsKept DEF Budget
  <2>3. CASE state[k] = "claimed"
    BY <1>2, <2>1, <2>2, <2>3, RecoveredAttempts
       DEF RecoveredState, Lifecycle!Step, Lifecycle!Return, Lifecycle!Keeps
  <2>4. CASE state[k] = "running"
    <3>1. attempt'[k] = [attempt[k] EXCEPT ![attemptCount[k]] = "failed"]
      BY <1>2, <2>4, RecoveredAttempts
    <3>2. state'[k] \in Lifecycle!After(k, "failed")
      BY <2>1, <2>2, <2>4 DEF RecoveredState, Lifecycle!After, Lifecycle!Results
    <3>3. "failed" \in Lifecycle!Closed
      BY DEF Lifecycle!Closed
    <3> QED BY <2>2, <2>4, <3>1, <3>2, <3>3 DEF Lifecycle!Step, Lifecycle!End
  <2> QED BY <2>1, <2>3, <2>4
<1> QED BY <1>1, <1>2

(* A claim recovers every expired lease and then claims one due job, which *)
(* may be one whose own lease it has just recovered.                       *)
LEMMA ClaimRowStep ==
  ASSUME IInv, NEW w \in Worker, NEW j \in JobId, NEW at \in Nat,
         ClaimRow(w, j, at), NEW k \in JobId
  PROVE  Lifecycle!Step(k)
<1>1. /\ identity'[k] = identity[k]
      /\ attemptCount'[k] = attemptCount[k]
      /\ attempt'[k] = FailRunning(attempt, k, at)
  BY DEF ClaimRow
<1>2. CASE k # j
  <2>1. state'[k] = StateAfter(at)[k]
    BY <1>2 DEF ClaimRow
  <2> QED BY <1>1, <2>1, RecoveredStep
<1>3. CASE k = j
  <2>1. state'[k] = "claimed" /\ StateAfter(at)[k] \in ClaimableStates
    BY <1>3, RecoveryTables DEF ClaimRow, Due
  <2>2. state[k] # "absent"
    BY <2>1, RecoveryOfOneJob DEF ClaimableStates, Expired, LeasedStates
  <2>3. Budget'[k] = Budget[k] /\ Budget[k] = MaxAttempts(k)
    BY <1>1, <2>1, <2>2, BudgetIsKept DEF Budget
  <2>4. CASE ~Expired(k, at)
    BY <1>1, <2>1, <2>3, <2>4, RecoveredAttempts, RecoveryOfOneJob
       DEF ClaimableStates, Lifecycle!Step, Lifecycle!Claim, Lifecycle!Keeps,
           Lifecycle!Waiting
  <2>5. CASE Expired(k, at) /\ state[k] = "claimed"
    BY <1>1, <2>1, <2>5, RecoveredAttempts, UntouchedStays
  <2>6. CASE Expired(k, at) /\ state[k] = "running"
    <3>1. attempt'[k] = [attempt[k] EXCEPT ![attemptCount[k]] = "failed"]
      BY <1>1, <2>6, RecoveredAttempts
    <3>2. attemptCount[k] < MaxAttempts(k)
      BY <2>1, <2>6, RecoveryOfOneJob
    <3>3. state'[k] \in Lifecycle!After(k, "failed")
      BY <2>1, <2>3, <3>2 DEF Lifecycle!After, Lifecycle!Results
    <3>4. "failed" \in Lifecycle!Closed
      BY DEF Lifecycle!Closed
    <3> QED BY <1>1, <2>3, <2>6, <3>1, <3>3, <3>4
            DEF Lifecycle!Step, Lifecycle!End
  <2> QED BY <2>4, <2>5, <2>6 DEF Expired, LeasedStates
<1> QED BY <1>2, <1>3

(* claim_next and claim_job.                                               *)
LEMMA ClaimStep ==
  ASSUME IInv, NEW w \in Worker, Claim(w), NEW k \in JobId
  PROVE  Lifecycle!Step(k)
<1> PICK at \in Anchors, j \in JobId : ClaimRow(w, j, at)
  BY DEF Claim, ClaimNext, ClaimJob
<1> QED BY AnchorFacts, ClaimRowStep

(* start_run and start_system_job begin the next attempt of a claimed job. *)
LEMMA StartStep ==
  ASSUME IInv, NEW w \in Worker, Start(w), NEW k \in JobId
  PROVE  Lifecycle!Step(k)
<1> PICK at \in Readings(w) : StartRun(w, at) \/ StartSystemJob(w, at)
  BY DEF Start
<1> DEFINE j == handle[w].job
           n == attemptCount[j] + 1
<1>1. StartAttempt(w, at) /\ OwnsClaim(w, "claimed", at)
  BY DEF StartRun, StartSystemJob, StartAttempt
<1>2. j \in JobId /\ identity[j] \in IdentityRecord /\ state[j] = "claimed"
  BY <1>1, OwnerFacts DEF LeasedStates, OwnsClaim
<1>3. CASE k = j
  <2>1. /\ state'[k] = "running" /\ attemptCount'[k] = attemptCount[k] + 1
        /\ attempt'[k] = [attempt[k] EXCEPT ![attemptCount[k] + 1] = "running"]
        /\ identity'[k] = identity[k]
    BY <1>1, <1>2, <1>3 DEF StartAttempt, IInv, TypeOK
  <2>2. Budget'[k] = Budget[k] /\ Budget[k] = MaxAttempts(k)
    BY <1>2, <1>3, <2>1, BudgetIsKept DEF Budget
  <2>3. attemptCount[k] < MaxAttempts(k)
    BY <1>2, <1>3 DEF IInv, ClaimableHasBudget
  <2> QED BY <1>2, <1>3, <2>1, <2>2, <2>3 DEF Lifecycle!Step, Lifecycle!Start
<1>4. CASE k # j
  BY <1>1, <1>2, <1>4, UntouchedStays DEF StartAttempt, IInv, TypeOK
<1> QED BY <1>3, <1>4

(* finish_run and finish_system_job close the attempt that is running.     *)
LEMMA FinishStep ==
  ASSUME IInv, NEW w \in Worker, Finish(w), NEW k \in JobId
  PROVE  Lifecycle!Step(k)
<1> PICK at \in Readings(w), status \in ClosedStatuses :
        \/ \E retryable, promote \in BOOLEAN, delay \in RetryAfter \cup {0} :
              FinishRun(w, at, status, retryable, delay, promote)
        \/ FinishSystemJob(w, at, status)
  BY DEF Finish
<1> DEFINE j == handle[w].job
           n == handle[w].attempt
<1>1. OwnsClaim(w, "running", at)
  BY DEF FinishRun, FinishSystemJob
<1>2. /\ j \in JobId /\ state[j] = "running"
      /\ n = attemptCount[j] /\ n \in Attempt
  BY <1>1, OwnerFacts DEF LeasedStates, OwnsClaim
<1>3. PICK next, retryAt :
        /\ CloseAttempt(w, status, next, retryAt)
        /\ next # "absent"
        /\ next \in IF status \in {"succeeded", "empty"} THEN {status}
                    ELSE {"failed"}
                      \cup (IF status = "cancelled" THEN {"cancelled"} ELSE {})
                      \cup (IF attemptCount[j] < MaxAttempts(j)
                            THEN {"retry_wait"} ELSE {"dead_letter"})
  <2>1. CASE FinishSystemJob(w, at, status)
    BY <2>1 DEF FinishSystemJob, SystemFinishedState
  <2>2. ASSUME NEW retryable \in BOOLEAN, NEW promote \in BOOLEAN,
               NEW delay \in RetryAfter \cup {0},
               FinishRun(w, at, status, retryable, delay, promote)
        PROVE  /\ CloseAttempt(w, status, FinishedState(j, status, retryable),
                       at + Larger(Backoff(j, attemptCount[j]), delay))
               /\ FinishedState(j, status, retryable) # "absent"
               /\ FinishedState(j, status, retryable) \in
                    IF status \in {"succeeded", "empty"} THEN {status}
                    ELSE {"failed"}
                      \cup (IF status = "cancelled" THEN {"cancelled"} ELSE {})
                      \cup (IF attemptCount[j] < MaxAttempts(j)
                            THEN {"retry_wait"} ELSE {"dead_letter"})
    <3>1. CloseAttempt(w, status, FinishedState(j, status, retryable),
                       at + Larger(Backoff(j, attemptCount[j]), delay))
      BY <2>2 DEF FinishRun
    <3>2. CASE status \in {"succeeded", "empty"}
      BY <3>1, <3>2 DEF FinishedState
    <3>3. CASE status \notin {"succeeded", "empty"}
      BY <3>1, <3>3 DEF FinishedState
    <3> QED BY <3>2, <3>3
  <2> QED BY <2>1, <2>2
<1>4. CASE k = j
  <2>1. attempt[k][n] = "running" /\ attempt[k] \in [Attempt -> AttemptStatuses]
    BY <1>2, <1>4 DEF IInv, TypeOK, AttemptLedger
  <2>2. /\ state'[k] = next /\ attemptCount'[k] = attemptCount[k]
        /\ attempt'[k] = [attempt[k] EXCEPT ![attemptCount[k]] = status]
        /\ identity'[k] = identity[k]
    BY <1>2, <1>3, <1>4, <2>1 DEF CloseAttempt, IInv, TypeOK
  <2>3. Budget'[k] = Budget[k] /\ Budget[k] = MaxAttempts(k)
    BY <1>2, <1>3, <1>4, <2>2, BudgetIsKept DEF Budget
  <2>4. next \in Lifecycle!After(k, status)
    BY <1>3, <1>4, <2>3 DEF Lifecycle!After, Lifecycle!Results
  <2>5. status \in Lifecycle!Closed
    BY DEF ClosedStatuses, Lifecycle!Closed, Lifecycle!Results
  <2> QED BY <1>2, <1>4, <2>2, <2>3, <2>4, <2>5
          DEF Lifecycle!Step, Lifecycle!End
<1>5. CASE k # j
  BY <1>2, <1>3, <1>5, UntouchedStays DEF CloseAttempt, IInv, TypeOK
<1> QED BY <1>4, <1>5

(* cancel withdraws a job that no attempt is running for.                  *)
LEMMA CancelStep ==
  ASSUME IInv, NEW j \in JobId, Cancel(j), NEW k \in JobId
  PROVE  Lifecycle!Step(k)
<1>1. CASE k = j
  <2>1. /\ state[k] \in {"queued", "retry_wait", "claimed"}
        /\ state'[k] = "cancelled"
    BY <1>1 DEF Cancel, ClaimableStates, IInv, TypeOK
  <2>2. Budget'[k] = Budget[k]
    BY <2>1, BudgetIsKept DEF Cancel
  <2> QED BY <2>1, <2>2
          DEF Cancel, Lifecycle!Step, Lifecycle!Withdraw, Lifecycle!Keeps,
              Lifecycle!Waiting
<1>2. CASE k # j
  BY <1>2, UntouchedStays DEF Cancel, IInv, TypeOK
<1> QED BY <1>1, <1>2

(* Every step of the store moves each job along an edge of the life cycle. *)
LEMMA NextStep ==
  ASSUME IInv, [Next]_vars, NEW k \in JobId
  PROVE  Lifecycle!Step(k)
<1>1. CASE Submit
  BY <1>1, SubmitStep
<1>2. ASSUME NEW w \in Worker, Claim(w) PROVE Lifecycle!Step(k)
  BY <1>2, ClaimStep
<1>3. ASSUME NEW w \in Worker, Start(w) PROVE Lifecycle!Step(k)
  BY <1>3, StartStep
<1>4. ASSUME NEW w \in Worker, Finish(w) PROVE Lifecycle!Step(k)
  BY <1>4, FinishStep
<1>5. ASSUME NEW at \in Anchors, RecoverExpired(at) PROVE Lifecycle!Step(k)
  BY <1>5, AnchorFacts, RecoveredStep DEF RecoverExpired
<1>6. ASSUME NEW j \in JobId, Cancel(j) PROVE Lifecycle!Step(k)
  BY <1>6, CancelStep
<1>7. ASSUME NEW w \in Worker, NEW at \in Readings(w), Heartbeat(w, at)
      PROVE  Lifecycle!Step(k)
  BY <1>7, UntouchedStays DEF Heartbeat
<1>8. ASSUME NEW w \in Worker, Abandon(w) PROVE Lifecycle!Step(k)
  BY <1>8, UntouchedStays DEF Abandon, jobVars
<1>9. CASE Tick
  BY <1>9, UntouchedStays DEF Tick, jobVars
<1>10. CASE UNCHANGED vars
  BY <1>10, UntouchedStays DEF vars, jobVars
<1> QED
  BY <1>1, <1>2, <1>3, <1>4, <1>5, <1>6, <1>7, <1>8, <1>9, <1>10 DEF Next

(* The types of the life cycle's variables.                                *)
LifecycleTyped ==
  /\ state \in [JobId -> Lifecycle!States]
  /\ Budget \in [JobId -> 0..AttemptLimit]
  /\ attemptCount \in [JobId -> 0..AttemptLimit]
  /\ attempt \in [JobId -> [1..AttemptLimit ->
                     Lifecycle!Closed \cup {"none", "running"}]]

(* The tables of a state that satisfies the invariant have those types.    *)
LEMMA LifecycleTypes == IInv => LifecycleTyped
<1> SUFFICES ASSUME IInv PROVE LifecycleTyped
  OBVIOUS
<1>1. state \in [JobId -> Lifecycle!States]
  BY DEF IInv, TypeOK, JobStates, ClaimableStates, LeasedStates, TerminalStates,
         Lifecycle!States, Lifecycle!Waiting, Lifecycle!Results
<1>2. ASSUME NEW j \in JobId, state[j] # "absent"
      PROVE  MaxAttempts(j) \in 0..AttemptLimit
  <2>1. identity[j] \in IdentityRecord
    BY <1>2 DEF IInv, TypeOK, ClaimColumns
  <2> QED BY <2>1, RequestAssumption, AttemptLimitAssumption
          DEF MaxAttempts, IdentityRecord, RequestRecord
<1>3. Budget \in [JobId -> 0..AttemptLimit]
  BY <1>2, AttemptLimitAssumption DEF Budget
<1>4. AttemptStatuses = Lifecycle!Closed \cup {"none", "running"}
  BY DEF AttemptStatuses, ClosedStatuses, Lifecycle!Closed, Lifecycle!Results
<1> QED BY <1>1, <1>3, <1>4 DEF LifecycleTyped, IInv, TypeOK, Attempt

(* The store implements the life cycle a job queue promises, for any       *)
(* number of jobs, workers and attempts, any leases, delays and old        *)
(* timestamps: attempts are numbered, bounded by the budget and closed     *)
(* once, and a job is in a state its last attempt allows.                  *)
THEOREM StoreImplementsLifecycle == Spec => ImplementsLifecycle
<1>1. Init => Lifecycle!Init
  BY DEF Init, Lifecycle!Init, Budget, Attempt
<1>2. ASSUME IInv, LifecycleTyped', [Next]_vars PROVE Lifecycle!Next
  <2>1. \A k \in JobId : Lifecycle!Step(k)
    BY <1>2, NextStep
  <2> QED BY <1>2, <2>1 DEF Lifecycle!Next, LifecycleTyped
<1>3. IInv /\ LifecycleTyped' /\ [Next]_vars
        => [Lifecycle!Next]_(Lifecycle!lifecycleVars)
  BY <1>2
<1> QED BY <1>1, <1>3, Invariance, LifecycleTypes, PTL
        DEF Spec, ImplementsLifecycle, Lifecycle!Spec

=============================================================================
