------------------------- MODULE MemoryQueue_proofs -------------------------
(***************************************************************************)
(* Proofs about the reference queue, for any number of jobs, threads and   *)
(* tokens, any lease, delays and skew: its jobs stay valid, and it         *)
(* implements JobLifecycle.                                                *)
(*                                                                         *)
(* Valid speaks of one job and its attempts as values, so that what an     *)
(* operation does to a job is a lemma about operators, with no variables.  *)
(***************************************************************************)
EXTENDS MemoryQueue, SequenceTheorems, TLAPS

Statuses == Closed \cup {"running"}
Claims == {NoClaim} \cup [job : Job, token : Token]

(* A job that was enqueued, with the attempts s.                           *)
Live(job, s) ==
  /\ job \in Row /\ s \in Seq(Statuses)
  /\ job.state \in Waiting \cup Active \cup Terminal
  /\ job.request \in Request
  /\ job.count = Len(s) /\ Len(s) <= job.request.attempts
  /\ job.state \in Active <=> job.token # None
  /\ job.state \in Active <=> job.lease # 0
  /\ job.state \in Waiting \cup {"claimed"} => Retried(job)
  /\ job.state = "running" => Len(s) > 0

Valid(job, s) == (job = NoJob /\ s = <<>>) \/ Live(job, s)

LEMMA NoJobFacts ==
  /\ NoJob \in Row /\ NoJob.state = "absent" /\ NoJob.request = None
  /\ NoJob.count = 0 /\ NoJob.available = 0 /\ NoJob.token = None
  /\ NoJob.lease = 0
  BY DEF NoJob, Row

LEMMA LiveIsThere ==
  ASSUME NEW job, NEW s, Live(job, s)
  PROVE  job # NoJob
  BY NoJobFacts DEF Live, Waiting, Active, Terminal

LEMMA ValidTypes ==
  ASSUME NEW job, NEW s, Valid(job, s)
  PROVE  job \in Row /\ s \in Seq(Statuses)
<1>1. CASE Live(job, s)
  BY <1>1 DEF Live
<1>2. CASE job = NoJob /\ s = <<>>
  BY <1>2, NoJobFacts
<1> QED BY <1>1, <1>2 DEF Valid

LEMMA BudgetFacts ==
  ASSUME NEW r \in Request
  PROVE  r.attempts \in 1..Limit /\ r.attempts \in Nat
  BY QueueAssumption

(* The invariant, job by job.                                              *)
Shape ==
  /\ now \in 0..MaxTime
  /\ jobs \in [Job -> Row]
  /\ attempts \in [Job -> Seq(Statuses)]
  /\ claims \in [Thread -> Claims]
  /\ \A j \in Job : Valid(jobs[j], attempts[j])

LEMMA InvToShape ==
  ASSUME IInv
  PROVE  Shape
<1>1. ASSUME NEW j \in Job PROVE Valid(jobs[j], attempts[j])
  <2>1. jobs[j] \in Row /\ attempts[j] \in Seq(Statuses)
    BY DEF IInv, Statuses
  <2>2. CASE jobs[j] = NoJob /\ attempts[j] = <<>>
    BY <2>2 DEF Valid
  <2>3. CASE ~(jobs[j] = NoJob /\ attempts[j] = <<>>)
    <3>1. /\ jobs[j].state \in Waiting \cup Active \cup Terminal
          /\ jobs[j].request \in Request
          /\ jobs[j].count = Len(attempts[j])
          /\ Len(attempts[j]) <= jobs[j].request.attempts
      BY <2>3 DEF IInv, JobsAreValid, TypeOK
    <3>2. jobs[j] # NoJob
      BY <3>1, NoJobFacts DEF Waiting, Active, Terminal
    <3> QED BY <2>1, <3>1, <3>2 DEF Valid, Live, IInv, JobsAreValid
  <2> QED BY <2>2, <2>3
<1> QED BY <1>1 DEF Shape, IInv, JobsAreValid, TypeOK, Statuses, Claims

LEMMA ShapeToInv ==
  ASSUME Shape
  PROVE  IInv
<1>1. ASSUME NEW j \in Job
      PROVE  \/ jobs[j] = NoJob /\ attempts[j] = <<>>
             \/ /\ jobs[j].state \in Waiting \cup Active \cup Terminal
                /\ jobs[j].request \in Request
                /\ jobs[j].count = Len(attempts[j])
                /\ jobs[j].available \in Nat
                /\ jobs[j].token \in Token \cup {None}
                /\ jobs[j].lease \in Nat
                /\ Len(attempts[j]) <= jobs[j].request.attempts
                /\ \A n \in DOMAIN attempts[j] :
                      attempts[j][n] \in Closed \cup {"running"}
  <2>1. CASE jobs[j] = NoJob /\ attempts[j] = <<>>
    BY <2>1
  <2>2. CASE Live(jobs[j], attempts[j])
    <3>1. /\ jobs[j].available \in Nat /\ jobs[j].lease \in Nat
          /\ jobs[j].token \in Token \cup {None}
      BY DEF Shape, Row
    <3>2. \A n \in DOMAIN attempts[j] : attempts[j][n] \in Closed \cup {"running"}
      BY DEF Shape, Statuses
    <3> QED BY <2>2, <3>1, <3>2 DEF Live
  <2> QED BY <2>1, <2>2 DEF Shape, Valid
<1>2. ASSUME NEW t \in Thread
      PROVE  claims[t].job \in Job \cup {None} /\ claims[t].token \in Token \cup {None}
  <2>1. claims[t] \in Claims
    BY DEF Shape
  <2> QED BY <2>1 DEF Claims, NoClaim
<1>3. TypeOK
  BY <1>1, <1>2 DEF TypeOK, Shape
<1>4. JobsAreValid
  BY <1>3 DEF JobsAreValid, Shape, Valid, Live
<1>5. ASSUME NEW j \in Job, jobs[j].state = "running" PROVE Len(attempts[j]) > 0
  BY <1>5, NoJobFacts DEF Shape, Valid, Live
<1> QED BY <1>4, <1>5 DEF IInv, Shape, Statuses, Claims

-----------------------------------------------------------------------------
(* What the operations do to a job.                                        *)

LEMMA LastFacts ==
  ASSUME NEW s \in Seq(Statuses), Len(s) > 0, NEW x \in Statuses
  PROVE  /\ WithLast(s, x) \in Seq(Statuses)
         /\ Len(WithLast(s, x)) = Len(s)
         /\ \A n \in 1..Len(s) : WithLast(s, x)[n] = IF n = Len(s) THEN x ELSE s[n]
<1>1. Len(s) \in 1..Len(s)
  OBVIOUS
<1> QED BY <1>1, ExceptSeq DEF WithLast

(* Where _complete_job takes a job whose attempt ended so.                 *)
CompletedState(job, new, status) ==
  \/ new.state = status /\ status \in {"succeeded", "empty", "cancelled"}
  \/ /\ status \notin {"succeeded", "empty", "cancelled"}
     /\ \/ new.state = "failed"
        \/ new.state = "dead_letter" /\ ~Retried(job)
        \/ new.state = "retry_wait" /\ Retried(job)

LEMMA CompletedFacts ==
  ASSUME NEW job \in Row, NEW status \in Closed, NEW retryable \in BOOLEAN,
         NEW at \in Nat, NEW delay \in Nat
  PROVE  LET new == Completed(job, status, retryable, at, delay)
         IN  /\ new \in Row /\ new.request = job.request /\ new.count = job.count
             /\ new.token = None /\ new.lease = 0
             /\ CompletedState(job, new, status)
<1> DEFINE new == Completed(job, status, retryable, at, delay)
           free == [job EXCEPT !.token = None, !.lease = 0]
<1>1. /\ free \in Row /\ free.request = job.request /\ free.count = job.count
      /\ free.token = None /\ free.lease = 0
  BY DEF Row
<1> HIDE DEF free
<1>2. CASE status \in {"succeeded", "empty", "cancelled"}
  <2>1. new = [free EXCEPT !.state = status]
    BY <1>2 DEF Completed, free
  <2> HIDE DEF new
  <2>2. /\ new \in Row /\ new.request = free.request /\ new.count = free.count
        /\ new.token = free.token /\ new.lease = free.lease /\ new.state = status
    BY <1>1, <1>2, <2>1 DEF Row, Waiting, Active, Terminal
  <2>3. /\ new \in Row /\ new.request = job.request /\ new.count = job.count
        /\ new.token = None /\ new.lease = 0
        /\ CompletedState(job, new, status)
    BY <1>1, <1>2, <2>2 DEF CompletedState
  <2> QED BY <2>3 DEF new
<1>3. CASE /\ status \notin {"succeeded", "empty", "cancelled"}
           /\ retryable /\ Retried(job)
  <2>1. new = [free EXCEPT !.state = "retry_wait", !.available = at + delay]
    BY <1>3 DEF Completed, free, Closed
  <2> HIDE DEF new
  <2>2. /\ new \in Row /\ new.request = free.request /\ new.count = free.count
        /\ new.token = free.token /\ new.lease = free.lease
        /\ new.state = "retry_wait"
    <3>1. at + delay \in Nat
      OBVIOUS
    <3> QED BY <1>1, <2>1, <3>1 DEF Row, Waiting
  <2>3. /\ new \in Row /\ new.request = job.request /\ new.count = job.count
        /\ new.token = None /\ new.lease = 0
        /\ CompletedState(job, new, status)
    BY <1>1, <1>3, <2>2 DEF CompletedState
  <2> QED BY <2>3 DEF new
<1>4. CASE /\ status \notin {"succeeded", "empty", "cancelled"}
           /\ ~(retryable /\ Retried(job))
  <2>1. new = [free EXCEPT !.state = IF retryable THEN "dead_letter" ELSE "failed"]
    BY <1>4 DEF Completed, free
  <2> HIDE DEF new
  <2>2. /\ new \in Row /\ new.request = free.request /\ new.count = free.count
        /\ new.token = free.token /\ new.lease = free.lease
        /\ new.state = IF retryable THEN "dead_letter" ELSE "failed"
    BY <1>1, <2>1 DEF Row, Waiting, Active, Terminal
  <2>3. /\ new \in Row /\ new.request = job.request /\ new.count = job.count
        /\ new.token = None /\ new.lease = 0
        /\ CompletedState(job, new, status)
    BY <1>1, <1>4, <2>2 DEF CompletedState
  <2> QED BY <2>3 DEF new
<1> QED BY <1>2, <1>3, <1>4

(* _complete_job with the attempt that ends: the job stays valid.          *)
LEMMA CompletedValid ==
  ASSUME NEW job, NEW s, Live(job, s), job.state = "running",
         NEW status \in Closed, NEW retryable \in BOOLEAN,
         NEW at \in Nat, NEW delay \in Nat
  PROVE  Live(Completed(job, status, retryable, at, delay), WithLast(s, status))
<1> DEFINE new == Completed(job, status, retryable, at, delay)
           s2 == WithLast(s, status)
<1>1. job \in Row /\ s \in Seq(Statuses) /\ Len(s) > 0 /\ status \in Statuses
  BY DEF Live, Statuses
<1>2. s2 \in Seq(Statuses) /\ Len(s2) = Len(s)
  BY <1>1, LastFacts
<1>3. /\ new \in Row /\ new.request = job.request /\ new.count = job.count
      /\ new.token = None /\ new.lease = 0
      /\ CompletedState(job, new, status)
  BY <1>1, CompletedFacts
<1> HIDE DEF new, s2
<1>4. new.state \in Waiting \cup Terminal /\ new.state \notin Active
      /\ new.state # "running" /\ new.state # "claimed"
      /\ (new.state \in Waiting => Retried(job))
  BY <1>3 DEF CompletedState, Waiting, Active, Terminal
<1>5. Retried(job) => Retried(new)
  BY <1>3 DEF Retried
<1>6. Live(new, s2)
  BY <1>2, <1>3, <1>4, <1>5 DEF Live
<1> QED BY <1>6 DEF new, s2

(* The job recovery puts back in the queue.                                *)
Returned(job, at) == [job EXCEPT !.state = "queued", !.available = at,
                                 !.token = None, !.lease = 0]

(* The attempts recovery leaves to a job.                                  *)
RecoveredTries(job, s, at) ==
  IF Expired(job, at) /\ job.state = "running" THEN WithLast(s, "failed") ELSE s

(* What recovery does to a job: nothing, a return to the queue, or the end *)
(* of its attempt.                                                         *)
LEMMA RecoveredForm ==
  ASSUME NEW job, NEW s, NEW at \in Nat, NEW delay \in Nat
  PROVE  /\ ~Expired(job, at) => /\ RecoveredJob(job, at, delay) = job
                                 /\ RecoveredTries(job, s, at) = s
         /\ Expired(job, at) /\ job.state = "claimed" =>
               /\ RecoveredJob(job, at, delay) = Returned(job, at)
               /\ RecoveredTries(job, s, at) = s
         /\ Expired(job, at) /\ job.state = "running" =>
               /\ RecoveredJob(job, at, delay) =
                     Completed(job, "failed", TRUE, at, delay)
               /\ RecoveredTries(job, s, at) = WithLast(s, "failed")
         /\ Expired(job, at) => job.state \in {"claimed", "running"}
<1>1. Expired(job, at) => job.state \in {"claimed", "running"}
  BY DEF Expired, Active
<1>2. ~Expired(job, at) => /\ RecoveredJob(job, at, delay) = job
                           /\ RecoveredTries(job, s, at) = s
  BY DEF RecoveredJob, RecoveredTries, Returned
<1>3. Expired(job, at) /\ job.state = "claimed" =>
               /\ RecoveredJob(job, at, delay) = Returned(job, at)
               /\ RecoveredTries(job, s, at) = s
  BY DEF RecoveredJob, RecoveredTries, Returned
<1>4. Expired(job, at) /\ job.state = "running" =>
               /\ RecoveredJob(job, at, delay) =
                     Completed(job, "failed", TRUE, at, delay)
               /\ RecoveredTries(job, s, at) = WithLast(s, "failed")
  BY DEF RecoveredJob, RecoveredTries
<1> QED BY <1>1, <1>2, <1>3, <1>4

LEMMA ReturnedValid ==
  ASSUME NEW job, NEW s, Live(job, s), job.state = "claimed", NEW at \in Nat
  PROVE  Live(Returned(job, at), s)
<1> DEFINE new == Returned(job, at)
<1>1. /\ new \in Row /\ new.request = job.request /\ new.count = job.count
      /\ new.token = None /\ new.lease = 0 /\ new.state = "queued"
  BY DEF Live, Row, Waiting, Returned
<1> HIDE DEF new
<1>2. Retried(new)
  BY <1>1 DEF Live, Retried
<1>3. Live(new, s)
  BY <1>1, <1>2 DEF Live, Waiting, Active
<1> QED BY <1>3 DEF new

LEMMA RecoveredValid ==
  ASSUME NEW job, NEW s, Valid(job, s), NEW at \in Nat, NEW delay \in Nat
  PROVE  Valid(RecoveredJob(job, at, delay), RecoveredTries(job, s, at))
<1>1. CASE ~Expired(job, at)
  BY <1>1, RecoveredForm, ZenonT(60)
<1>2. CASE Expired(job, at)
  <2>1. Live(job, s)
    BY <1>2, NoJobFacts, RecoveredForm DEF Valid
  <2>2. CASE job.state = "claimed"
    <3>1. Live(Returned(job, at), s)
      BY <2>1, <2>2, ReturnedValid
    <3>2. /\ RecoveredJob(job, at, delay) = Returned(job, at)
          /\ RecoveredTries(job, s, at) = s
      BY <1>2, <2>2, RecoveredForm
    <3> QED BY <3>1, <3>2 DEF Valid
  <2>3. CASE job.state = "running"
    <3>1. Live(Completed(job, "failed", TRUE, at, delay), WithLast(s, "failed"))
      BY <2>1, <2>3, CompletedValid DEF Closed
    <3>2. /\ RecoveredJob(job, at, delay) = Completed(job, "failed", TRUE, at, delay)
          /\ RecoveredTries(job, s, at) = WithLast(s, "failed")
      BY <1>2, <2>3, RecoveredForm
    <3> QED BY <3>1, <3>2 DEF Valid
  <2> QED BY <1>2, <2>2, <2>3, RecoveredForm
<1> QED BY <1>1, <1>2

(* A claim of a job that waits.                                            *)
Claimed(job, token, at) == [job EXCEPT !.state = "claimed", !.token = token,
                                       !.lease = at + Lease]

LEMMA ClaimedValid ==
  ASSUME NEW job, NEW s, Valid(job, s), job.state \in Waiting,
         NEW token \in Token, NEW at \in Nat
  PROVE  Live(Claimed(job, token, at), s)
<1> DEFINE new == Claimed(job, token, at)
<1>0. Live(job, s)
  BY NoJobFacts DEF Valid, Waiting
<1>1. at + Lease \in Nat /\ at + Lease # 0 /\ token # None
  BY QueueAssumption, NoneAssumption
<1>2. /\ new \in Row /\ new.request = job.request /\ new.count = job.count
      /\ new.token = token /\ new.lease = at + Lease /\ new.state = "claimed"
  BY <1>0, <1>1 DEF Live, Row, Active, Claimed
<1> HIDE DEF new
<1>3. Retried(new)
  BY <1>0, <1>2 DEF Live, Retried
<1>4. Live(new, s)
  BY <1>0, <1>1, <1>2, <1>3 DEF Live, Active
<1> QED BY <1>4 DEF new

(* The next attempt of a claimed job.                                      *)
Started(job) == [job EXCEPT !.state = "running", !.count = job.count + 1]

LEMMA StartedValid ==
  ASSUME NEW job, NEW s, Live(job, s), job.state = "claimed"
  PROVE  /\ Live(Started(job), Append(s, "running"))
         /\ Len(s) < job.request.attempts
<1> DEFINE new == Started(job)
<1>1. /\ new \in Row /\ new.request = job.request /\ new.count = job.count + 1
      /\ new.token = job.token /\ new.lease = job.lease /\ new.state = "running"
  <2>1. job \in Row /\ job.count + 1 \in Nat
    BY DEF Live, Row
  <2> QED BY <2>1 DEF Row, Active, Started
<1> HIDE DEF new
<1>2. /\ Append(s, "running") \in Seq(Statuses)
      /\ Len(Append(s, "running")) = Len(s) + 1 /\ Len(s) \in Nat
  BY AppendProperties DEF Live, Statuses
<1>3. Len(s) < job.request.attempts /\ job.request.attempts \in Nat
  BY BudgetFacts DEF Live, Retried, Waiting
<1>4. Len(s) + 1 <= job.request.attempts /\ Len(s) + 1 > 0
  BY <1>2, <1>3
<1>5. Live(new, Append(s, "running"))
  BY <1>1, <1>2, <1>4 DEF Live, Active, Waiting
<1> QED BY <1>3, <1>5 DEF new

-----------------------------------------------------------------------------
(* Every operation keeps every job valid.                                  *)

LEMMA AnchorFacts ==
  ASSUME Shape, NEW at \in Anchors
  PROVE  at \in Nat /\ now \in Nat
  BY QueueAssumption DEF Shape, Anchors

(* Operations on one job.                                                  *)
LEMMA OneJob ==
  ASSUME Shape, NEW j \in Job, NEW job, NEW s, Live(job, s),
         jobs' = [jobs EXCEPT ![j] = job],
         attempts' = [attempts EXCEPT ![j] = s],
         claims' \in [Thread -> Claims], UNCHANGED now
  PROVE  Shape'
<1>1. job \in Row /\ s \in Seq(Statuses)
  BY DEF Live
<1>2. jobs' \in [Job -> Row] /\ attempts' \in [Job -> Seq(Statuses)]
  BY <1>1 DEF Shape
<1>3. ASSUME NEW k \in Job PROVE Valid(jobs'[k], attempts'[k])
  <2>1. CASE k = j
    <3>1. jobs'[k] = job /\ attempts'[k] = s
      BY <2>1 DEF Shape
    <3> QED BY <3>1 DEF Valid
  <2>2. CASE k # j
    <3>1. jobs'[k] = jobs[k] /\ attempts'[k] = attempts[k]
      BY <2>2 DEF Shape
    <3> QED BY <3>1 DEF Shape
  <2> QED BY <2>1, <2>2
<1>4. now' \in 0..MaxTime
  BY DEF Shape
<1> QED BY <1>2, <1>3, <1>4 DEF Shape

(* The claim a thread still holds names an active job.                     *)
LEMMA HeldFacts ==
  ASSUME Shape, NEW t \in Thread, NEW at \in Nat, Holds(t, at)
  PROVE  LET j == claims[t].job
         IN  /\ j \in Job /\ Live(jobs[j], attempts[j])
             /\ jobs[j].state \in Active /\ jobs[j] \in Row
             /\ attempts[j] \in Seq(Statuses)
<1> DEFINE j == claims[t].job
<1>1. claims[t] \in [job : Job, token : Token]
  BY DEF Shape, Holds, Claims
<1>2. j \in Job /\ claims[t].token \in Token
  BY <1>1
<1>3. jobs[j].token # None /\ jobs[j] \in Row /\ attempts[j] \in Seq(Statuses)
  BY <1>2, NoneAssumption DEF Holds, Shape
<1>4. Live(jobs[j], attempts[j])
  BY <1>2, <1>3, NoJobFacts DEF Shape, Valid
<1> QED BY <1>2, <1>3, <1>4 DEF Live

LEMMA EnqueueShape ==
  ASSUME Shape, NEW j \in Job, NEW r \in Request, Enqueue(j, r)
  PROVE  Shape'
<1> DEFINE job == [NoJob EXCEPT !.state = "queued", !.request = r,
                                !.available = now]
<1>1. jobs[j] = NoJob /\ attempts[j] = <<>> /\ now \in Nat
  <2>1. jobs[j] = NoJob
    BY DEF Enqueue
  <2> QED BY <2>1, LiveIsThere, QueueAssumption DEF Shape, Valid
<1>2. /\ job \in Row /\ job.state = "queued" /\ job.request = r /\ job.count = 0
      /\ job.token = None /\ job.lease = 0
  BY <1>1 DEF NoJob, Row, Waiting
<1>3. jobs' = [jobs EXCEPT ![j] = job] /\ UNCHANGED <<now, attempts, claims>>
  BY DEF Enqueue
<1> HIDE DEF job
<1>4. <<>> \in Seq(Statuses) /\ Len(<<>>) = 0 /\ 0 < r.attempts /\ 0 <= r.attempts
  BY BudgetFacts
<1>5. Live(job, <<>>)
  BY <1>2, <1>4 DEF Live, Retried, Waiting, Active
<1>6. attempts' = [attempts EXCEPT ![j] = <<>>] /\ claims' \in [Thread -> Claims]
  BY <1>1, <1>3 DEF Shape
<1> QED BY <1>3, <1>5, <1>6, OneJob

LEMMA CancelShape ==
  ASSUME Shape, NEW j \in Job, Cancel(j)
  PROVE  Shape'
<1> DEFINE job == [jobs[j] EXCEPT !.state = "cancelled"]
<1>1. jobs[j].state \in Waiting /\ jobs[j] \in Row
  BY DEF Cancel, Cancellable, Shape
<1>2. Live(jobs[j], attempts[j])
  BY <1>1, NoJobFacts DEF Shape, Valid, Waiting
<1>3. /\ job \in Row /\ job.state = "cancelled" /\ job.request = jobs[j].request
      /\ job.count = jobs[j].count /\ job.token = jobs[j].token
      /\ job.lease = jobs[j].lease
  BY <1>1 DEF Row, Terminal
<1>4. jobs' = [jobs EXCEPT ![j] = job] /\ UNCHANGED <<now, attempts, claims>>
  BY DEF Cancel, Shape
<1> HIDE DEF job
<1>5. Live(job, attempts[j])
  BY <1>1, <1>2, <1>3 DEF Live, Waiting, Active, Terminal
<1>6. attempts' = [attempts EXCEPT ![j] = attempts[j]] /\ claims' \in [Thread -> Claims]
  BY <1>4 DEF Shape
<1> QED BY <1>4, <1>5, <1>6, OneJob

LEMMA StartShape ==
  ASSUME Shape, NEW t \in Thread, NEW at \in Nat, Start(t, at)
  PROVE  Shape'
<1> DEFINE j == claims[t].job
           job == Started(jobs[j])
           s == Append(attempts[j], "running")
<1>1. j \in Job /\ Live(jobs[j], attempts[j]) /\ jobs[j].state = "claimed"
  BY HeldFacts DEF Start
<1>2. Live(job, s)
  BY <1>1, StartedValid
<1>3. /\ jobs' = [jobs EXCEPT ![j] = job]
      /\ attempts' = [attempts EXCEPT ![j] = s]
      /\ UNCHANGED <<now, claims>>
  BY <1>1 DEF Start, Shape, Started
<1>4. claims' \in [Thread -> Claims]
  BY <1>3 DEF Shape
<1> HIDE DEF job, s, j
<1> QED BY <1>1, <1>2, <1>3, <1>4, OneJob

LEMMA HeartbeatShape ==
  ASSUME Shape, NEW t \in Thread, NEW at \in Nat, Heartbeat(t, at)
  PROVE  Shape'
<1> DEFINE j == claims[t].job
           job == [jobs[j] EXCEPT !.lease = at + Lease]
<1>1. j \in Job /\ Live(jobs[j], attempts[j]) /\ jobs[j].state \in Active
      /\ jobs[j] \in Row
  BY HeldFacts DEF Heartbeat
<1>2. at + Lease \in Nat /\ at + Lease # 0
  BY QueueAssumption
<1>3. /\ job \in Row /\ job.state = jobs[j].state /\ job.request = jobs[j].request
      /\ job.count = jobs[j].count /\ job.token = jobs[j].token
      /\ job.lease = at + Lease
  BY <1>1, <1>2 DEF Row
<1>4. jobs' = [jobs EXCEPT ![j] = job] /\ UNCHANGED <<now, attempts, claims>>
  BY <1>1 DEF Heartbeat, Shape
<1> HIDE DEF job
<1>5. Live(job, attempts[j])
  BY <1>1, <1>2, <1>3 DEF Live, Retried
<1>6. attempts' = [attempts EXCEPT ![j] = attempts[j]] /\ claims' \in [Thread -> Claims]
  BY <1>1, <1>4 DEF Shape
<1> HIDE DEF j
<1> QED BY <1>1, <1>4, <1>5, <1>6, OneJob

LEMMA FinishShape ==
  ASSUME Shape, NEW t \in Thread, NEW at \in Nat, NEW status \in Closed,
         NEW retryable \in BOOLEAN, NEW delay \in Nat,
         Finish(t, at, status, retryable, delay)
  PROVE  Shape'
<1> DEFINE j == claims[t].job
           job == Completed(jobs[j], status, retryable, at, delay)
           s == WithLast(attempts[j], status)
<1>1. j \in Job /\ Live(jobs[j], attempts[j]) /\ jobs[j].state = "running"
  BY HeldFacts DEF Finish
<1>2. Live(job, s)
  BY <1>1, CompletedValid
<1>3. /\ jobs' = [jobs EXCEPT ![j] = job]
      /\ attempts' = [attempts EXCEPT ![j] = s]
      /\ claims' = [claims EXCEPT ![t] = NoClaim]
      /\ UNCHANGED now
  BY <1>1 DEF Finish, Shape
<1>4. claims' \in [Thread -> Claims]
  BY <1>3 DEF Shape, Claims
<1> HIDE DEF job, s, j
<1> QED BY <1>1, <1>2, <1>3, <1>4, OneJob

(* What a recovery leaves of all jobs.                                     *)
LEMMA AfterRecovery ==
  ASSUME Shape, NEW at \in Nat, NEW delay \in [Job -> Delays], NEW k \in Job
  PROVE  LET job == RecoveredJob(jobs[k], at, delay[k])
             s == RecoveredAttempts(k, at)
         IN  /\ s = RecoveredTries(jobs[k], attempts[k], at)
             /\ Valid(job, s) /\ job \in Row /\ s \in Seq(Statuses)
             /\ delay[k] \in Nat
<1> DEFINE job == RecoveredJob(jobs[k], at, delay[k])
           s == RecoveredAttempts(k, at)
<1>1. delay[k] \in Nat
  BY QueueAssumption
<1>2. s = RecoveredTries(jobs[k], attempts[k], at)
  BY DEF RecoveredAttempts, RecoveredTries
<1>3. Valid(jobs[k], attempts[k])
  BY DEF Shape
<1>4. Valid(job, s)
  BY <1>1, <1>2, <1>3, RecoveredValid
<1> HIDE DEF job, s
<1>5. job \in Row /\ s \in Seq(Statuses)
  BY <1>4, ValidTypes
<1> QED BY <1>1, <1>2, <1>4, <1>5 DEF job, s

LEMMA RecoverShape ==
  ASSUME Shape, NEW at \in Nat, NEW delay \in [Job -> Delays], Recover(at, delay)
  PROVE  Shape'
<1>1. /\ jobs' = [j \in Job |-> RecoveredJob(jobs[j], at, delay[j])]
      /\ attempts' = [j \in Job |-> RecoveredAttempts(j, at)]
      /\ UNCHANGED <<now, claims>>
  BY DEF Recover
<1>2. jobs' \in [Job -> Row] /\ attempts' \in [Job -> Seq(Statuses)]
  BY <1>1, AfterRecovery
<1>3. ASSUME NEW k \in Job PROVE Valid(jobs'[k], attempts'[k])
  <2>1. /\ jobs'[k] = RecoveredJob(jobs[k], at, delay[k])
        /\ attempts'[k] = RecoveredAttempts(k, at)
    BY <1>1
  <2> QED BY <2>1, AfterRecovery
<1>4. now' \in 0..MaxTime /\ claims' \in [Thread -> Claims]
  BY <1>1 DEF Shape
<1> QED BY <1>2, <1>3, <1>4 DEF Shape

(* A claim, job by job: recovery, and then one of the jobs that wait.      *)
LEMMA ClaimForm ==
  ASSUME Shape, NEW t \in Thread, NEW at \in Nat, NEW delay \in [Job -> Delays],
         Claim(t, at, delay)
  PROVE  \E j \in Job, token \in Token :
            /\ RecoveredJob(jobs[j], at, delay[j]).state \in Waiting
            /\ jobs' = [k \in Job |-> jobs'[k]]
            /\ jobs'[j] = Claimed(RecoveredJob(jobs[j], at, delay[j]), token, at)
            /\ \A k \in Job \ {j} : jobs'[k] = RecoveredJob(jobs[k], at, delay[k])
            /\ attempts' = [k \in Job |-> RecoveredAttempts(k, at)]
            /\ claims' = [claims EXCEPT ![t] = [job |-> j, token |-> token]]
            /\ UNCHANGED now
<1> DEFINE all == [j \in Job |-> RecoveredJob(jobs[j], at, delay[j])]
           token == CHOOSE x \in FreshTokens : TRUE
<1>1. token \in Token
  BY DEF Claim, FreshTokens
<1> HIDE DEF token
<1>2. PICK j \in First(all, Due(all, at)) :
         /\ jobs' = [all EXCEPT ![j].state = "claimed", ![j].token = token,
                                ![j].lease = at + Lease]
         /\ claims' = [claims EXCEPT ![t] = [job |-> j, token |-> token]]
  BY DEF Claim, token
<1>3. j \in Job /\ all[j].state \in Waiting
  BY DEF First, Due
<1>4. DOMAIN all = Job /\ \A k \in Job : all[k] = RecoveredJob(jobs[k], at, delay[k])
  OBVIOUS
<1>5. /\ attempts' = [k \in Job |-> RecoveredAttempts(k, at)] /\ UNCHANGED now
  BY DEF Claim
<1> HIDE DEF all
<1>6. jobs' = [all EXCEPT ![j] = Claimed(all[j], token, at)]
  BY <1>2, <1>3, <1>4 DEF Claimed
<1>7. /\ jobs'[j] = Claimed(all[j], token, at)
      /\ \A k \in Job \ {j} : jobs'[k] = all[k]
      /\ jobs' = [k \in Job |-> jobs'[k]]
  BY <1>3, <1>4, <1>6
<1>8. /\ all[j] = RecoveredJob(jobs[j], at, delay[j])
      /\ \A k \in Job \ {j} : jobs'[k] = RecoveredJob(jobs[k], at, delay[k])
  BY <1>3, <1>4, <1>7
<1>9. claims' = [claims EXCEPT ![t] = [job |-> j, token |-> token]]
  BY <1>2
<1> QED BY <1>1, <1>3, <1>5, <1>7, <1>8, <1>9

LEMMA ClaimShape ==
  ASSUME Shape, NEW t \in Thread, NEW at \in Nat, NEW delay \in [Job -> Delays],
         Claim(t, at, delay)
  PROVE  Shape'
<1>1. PICK j \in Job, token \in Token :
         /\ RecoveredJob(jobs[j], at, delay[j]).state \in Waiting
         /\ jobs' = [k \in Job |-> jobs'[k]]
         /\ jobs'[j] = Claimed(RecoveredJob(jobs[j], at, delay[j]), token, at)
         /\ \A k \in Job \ {j} : jobs'[k] = RecoveredJob(jobs[k], at, delay[k])
         /\ attempts' = [k \in Job |-> RecoveredAttempts(k, at)]
         /\ claims' = [claims EXCEPT ![t] = [job |-> j, token |-> token]]
         /\ UNCHANGED now
  BY ClaimForm
<1>2. ASSUME NEW k \in Job PROVE Valid(jobs'[k], attempts'[k])
  <2>0. attempts'[k] = RecoveredAttempts(k, at)
    BY <1>1
  <2>1. Valid(RecoveredJob(jobs[k], at, delay[k]), RecoveredAttempts(k, at))
    BY AfterRecovery
  <2>2. CASE k = j
    <3>1. Live(Claimed(RecoveredJob(jobs[k], at, delay[k]), token, at),
               RecoveredAttempts(k, at))
      BY <1>1, <2>1, <2>2, ClaimedValid
    <3> QED BY <1>1, <2>0, <2>2, <3>1 DEF Valid
  <2>3. CASE k # j
    BY <1>1, <2>0, <2>1, <2>3
  <2> QED BY <2>2, <2>3
<1>3. jobs' \in [Job -> Row] /\ attempts' \in [Job -> Seq(Statuses)]
  <2>1. \A k \in Job : jobs'[k] \in Row /\ attempts'[k] \in Seq(Statuses)
    BY <1>2, ValidTypes
  <2>2. jobs' = [k \in Job |-> jobs'[k]] /\ attempts' = [k \in Job |-> attempts'[k]]
    BY <1>1
  <2> QED BY <2>1, <2>2
<1>4. now' \in 0..MaxTime /\ claims' \in [Thread -> Claims]
  <2>1. [job |-> j, token |-> token] \in Claims
    BY DEF Claims
  <2>2. claims \in [Thread -> Claims] /\ now \in 0..MaxTime
    BY DEF Shape
  <2> QED BY <1>1, <2>1, <2>2
<1> QED BY <1>2, <1>3, <1>4 DEF Shape

LEMMA NextShape ==
  ASSUME Shape, [Next]_vars
  PROVE  Shape'
<1>1. ASSUME NEW at \in Anchors, NEW t \in Thread,
             \/ Start(t, at) \/ Heartbeat(t, at)
             \/ \E delay \in [Job -> Delays] : Claim(t, at, delay)
             \/ \E status \in Closed, retryable \in BOOLEAN, delay \in Delays :
                   Finish(t, at, status, retryable, delay)
      PROVE  Shape'
  <2>1. at \in Nat /\ \A delay \in Delays : delay \in Nat
    BY AnchorFacts, QueueAssumption
  <2> QED BY <1>1, <2>1, StartShape, HeartbeatShape, ClaimShape, FinishShape
<1>2. ASSUME NEW at \in Anchors, NEW delay \in [Job -> Delays], Recover(at, delay)
      PROVE  Shape'
  BY <1>2, AnchorFacts, RecoverShape
<1>3. ASSUME NEW j \in Job, Cancel(j) \/ \E r \in Request : Enqueue(j, r)
      PROVE  Shape'
  BY <1>3, CancelShape, EnqueueShape
<1>4. ASSUME NEW t \in Thread, Abandon(t) PROVE Shape'
  <2>1. claims' \in [Thread -> Claims] /\ UNCHANGED <<now, jobs, attempts>>
    BY <1>4 DEF Abandon, Shape, Claims
  <2> QED BY <2>1 DEF Shape
<1>5. CASE Tick
  <2>1. now' \in 0..MaxTime /\ UNCHANGED <<jobs, attempts, claims>>
    BY <1>5, QueueAssumption DEF Tick, Shape
  <2> QED BY <2>1 DEF Shape
<1>6. CASE UNCHANGED vars
  BY <1>6 DEF Shape, vars
<1> QED BY <1>1, <1>2, <1>3, <1>4, <1>5, <1>6 DEF Next

(* The invariant of the reference queue holds in every behaviour: whatever *)
(* leases pass and however late a thread acts on its claim.                *)
THEOREM Inductive == Spec => []IInv
<1>1. Init => Shape
  <2> SUFFICES ASSUME Init PROVE Shape
    OBVIOUS
  <2>1. \A j \in Job : Valid(jobs[j], attempts[j])
    BY DEF Init, Valid
  <2>2. now \in 0..MaxTime /\ claims \in [Thread -> Claims]
    BY QueueAssumption DEF Init, Claims
  <2>3. jobs \in [Job -> Row] /\ attempts \in [Job -> Seq(Statuses)]
    BY NoJobFacts DEF Init
  <2> QED BY <2>1, <2>2, <2>3 DEF Shape
<1>2. Shape /\ [Next]_vars => Shape'
  BY NextShape
<1>3. Shape => IInv
  BY ShapeToInv
<1> QED BY <1>1, <1>2, <1>3, PTL DEF Spec

(* WorkflowJob.__post_init__ refuses no job of the queue: lease fields are *)
(* there exactly while it is active, and one that waits has an attempt     *)
(* left for start().                                                       *)
THEOREM JobsValid == Spec => []JobsAreValid
<1>1. IInv => JobsAreValid
  BY DEF IInv
<1> QED BY <1>1, Inductive, PTL

-----------------------------------------------------------------------------
(* The queue implements JobLifecycle: each step moves every job k along an *)
(* edge of the life cycle or leaves it.                                    *)

Budget(job) == IF job = NoJob THEN 0 ELSE job.request.attempts

OutcomesOf(s) == [n \in 1..Limit |-> IF n <= Len(s) THEN s[n] ELSE "none"]

LEMMA OutcomesOfLast ==
  ASSUME NEW s \in Seq(Statuses), Len(s) > 0, NEW x \in Statuses
  PROVE  OutcomesOf(WithLast(s, x)) = [OutcomesOf(s) EXCEPT ![Len(s)] = x]
<1> DEFINE s2 == WithLast(s, x)
<1>1. /\ Len(s2) = Len(s)
      /\ \A n \in 1..Len(s) : s2[n] = IF n = Len(s) THEN x ELSE s[n]
  BY LastFacts
<1> HIDE DEF s2
<1>2. Len(s) \in Nat /\ Limit \in Nat
  BY QueueAssumption
<1>3. ASSUME NEW n \in 1..Limit
      PROVE  OutcomesOf(s2)[n] = [OutcomesOf(s) EXCEPT ![Len(s)] = x][n]
  <2>1. CASE n <= Len(s)
    <3>1. n \in 1..Len(s)
      BY <1>2, <2>1
    <3> QED BY <1>1, <1>2, <2>1, <3>1 DEF OutcomesOf
  <2>2. CASE ~(n <= Len(s))
    <3>1. n # Len(s)
      BY <1>2, <2>2
    <3> QED BY <1>1, <2>2, <3>1 DEF OutcomesOf
  <2> QED BY <2>1, <2>2
<1>4. OutcomesOf(s2) = [OutcomesOf(s) EXCEPT ![Len(s)] = x]
  BY <1>3 DEF OutcomesOf
<1> QED BY <1>4 DEF s2

LEMMA OutcomesOfAppend ==
  ASSUME NEW s \in Seq(Statuses), Len(s) < Limit, NEW x \in Statuses
  PROVE  OutcomesOf(Append(s, x)) = [OutcomesOf(s) EXCEPT ![Len(s) + 1] = x]
<1> DEFINE s2 == Append(s, x)
<1>1. /\ Len(s2) = Len(s) + 1 /\ s2[Len(s) + 1] = x
      /\ \A n \in 1..Len(s) : s2[n] = s[n]
  BY AppendProperties
<1> HIDE DEF s2
<1>2. Len(s) \in Nat /\ Limit \in Nat
  BY QueueAssumption
<1>3. ASSUME NEW n \in 1..Limit
      PROVE  OutcomesOf(s2)[n] = [OutcomesOf(s) EXCEPT ![Len(s) + 1] = x][n]
  <2>1. CASE n <= Len(s)
    <3>1. n \in 1..Len(s) /\ n <= Len(s) + 1 /\ n # Len(s) + 1
      BY <1>2, <2>1
    <3> QED BY <1>1, <2>1, <3>1 DEF OutcomesOf
  <2>2. CASE n = Len(s) + 1
    <3>1. n <= Len(s2)
      BY <1>1, <1>2, <2>2
    <3> QED BY <1>1, <2>2, <3>1 DEF OutcomesOf
  <2>3. CASE n > Len(s) + 1
    <3>1. ~(n <= Len(s)) /\ ~(n <= Len(s2)) /\ n # Len(s) + 1
      BY <1>1, <1>2, <2>3
    <3> QED BY <3>1 DEF OutcomesOf
  <2> QED BY <1>2, <2>1, <2>2, <2>3
<1>4. OutcomesOf(s2) = [OutcomesOf(s) EXCEPT ![Len(s) + 1] = x]
  BY <1>3 DEF OutcomesOf
<1> QED BY <1>4 DEF s2

(* An operation that does not change what the life cycle sees of a job.    *)
LEMMA StayStep ==
  ASSUME NEW k \in Job, jobs'[k].state = jobs[k].state,
         jobs'[k].count = jobs[k].count, Budget(jobs'[k]) = Budget(jobs[k]),
         attempts'[k] = attempts[k]
  PROVE  Lifecycle!Step(k)
  BY DEF Lifecycle!Step, Lifecycle!Stay, Lifecycle!Keeps, Budget, Outcomes

LEMMA SameStep ==
  ASSUME NEW k \in Job, jobs'[k] = jobs[k], attempts'[k] = attempts[k]
  PROVE  Lifecycle!Step(k)
  BY StayStep

(* A job that goes back to the queue, is claimed or cancelled.             *)
LEMMA MoveStep ==
  ASSUME NEW k \in Job, jobs'[k].count = jobs[k].count,
         Budget(jobs'[k]) = Budget(jobs[k]), attempts'[k] = attempts[k],
         \/ jobs[k].state \in Waiting /\ jobs'[k].state \in {"claimed", "cancelled"}
         \/ jobs[k].state = "claimed" /\ jobs'[k].state = "queued"
  PROVE  Lifecycle!Step(k)
<1>1. Lifecycle!Keeps(k)
  BY DEF Lifecycle!Keeps, Budget, Outcomes
<1> QED BY <1>1 DEF Lifecycle!Step, Lifecycle!Claim, Lifecycle!Return,
                    Lifecycle!Withdraw, Lifecycle!Waiting, Waiting

(* An attempt that ends.                                                   *)
LEMMA EndStep ==
  ASSUME NEW k \in Job, Live(jobs[k], attempts[k]), jobs[k].state = "running",
         NEW status \in Closed, attempts'[k] = WithLast(attempts[k], status),
         jobs'[k].count = jobs[k].count, Budget(jobs'[k]) = Budget(jobs[k]),
         \/ jobs'[k].state = "failed" /\ status \notin {"succeeded", "empty"}
         \/ jobs'[k].state = status /\ status \in {"succeeded", "empty", "cancelled"}
         \/ /\ jobs'[k].state = "dead_letter" /\ ~Retried(jobs[k])
            /\ status \notin {"succeeded", "empty"}
         \/ /\ jobs'[k].state \in {"retry_wait", "claimed"} /\ Retried(jobs[k])
            /\ status \notin {"succeeded", "empty"}
  PROVE  Lifecycle!Step(k)
<1>1. /\ attempts[k] \in Seq(Statuses) /\ Len(attempts[k]) > 0
      /\ jobs[k].count = Len(attempts[k]) /\ status \in Statuses
      /\ Budget(jobs[k]) = jobs[k].request.attempts
  BY LiveIsThere DEF Live, Statuses, Budget
<1>2. OutcomesOf(attempts'[k]) =
         [OutcomesOf(attempts[k]) EXCEPT ![jobs[k].count] = status]
  BY <1>1, OutcomesOfLast
<1>3. jobs'[k].state \in Lifecycle!After(k, status)
  <2>1. Retried(jobs[k]) <=> jobs[k].count < Budget(jobs[k])
    BY <1>1 DEF Retried
  <2> QED BY <2>1 DEF Lifecycle!After, Lifecycle!Results, Budget
<1>4. status \in Lifecycle!Closed
  BY DEF Lifecycle!Closed, Lifecycle!Results, Closed
<1> QED BY <1>2, <1>3, <1>4
        DEF Lifecycle!Step, Lifecycle!End, Budget, Outcomes, OutcomesOf

(* What recovery does to a job, which may then be claimed.                 *)
LEMMA RecoveredStep ==
  ASSUME Shape, NEW at \in Nat, NEW delay \in [Job -> Delays], NEW k \in Job,
         attempts'[k] = RecoveredAttempts(k, at),
         \/ jobs'[k] = RecoveredJob(jobs[k], at, delay[k])
         \/ /\ RecoveredJob(jobs[k], at, delay[k]).state \in Waiting
            /\ \E token \in Token :
                  jobs'[k] = Claimed(RecoveredJob(jobs[k], at, delay[k]), token, at)
  PROVE  Lifecycle!Step(k)
<1> DEFINE job == RecoveredJob(jobs[k], at, delay[k])
<1>1. /\ attempts'[k] = RecoveredTries(jobs[k], attempts[k], at)
      /\ job \in Row /\ delay[k] \in Nat
      /\ jobs[k] \in Row /\ Valid(jobs[k], attempts[k])
  BY AfterRecovery DEF Shape
<1>2. \/ jobs'[k] = job
      \/ /\ job.state \in Waiting /\ jobs'[k].state = "claimed"
         /\ jobs'[k].count = job.count /\ jobs'[k].request = job.request
  BY <1>1 DEF Claimed, Row
<1>3. CASE ~Expired(jobs[k], at)
  <2>1. job = jobs[k] /\ attempts'[k] = attempts[k]
    BY <1>1, <1>3, RecoveredForm, ZenonT(60)
  <2>2. CASE jobs'[k] = job
    BY <2>1, <2>2, SameStep
  <2>3. CASE /\ job.state \in Waiting /\ jobs'[k].state = "claimed"
             /\ jobs'[k].count = job.count /\ jobs'[k].request = job.request
    <3>1. Budget(jobs'[k]) = Budget(jobs[k])
      BY <2>1, <2>3, NoJobFacts DEF Budget, Waiting
    <3> QED BY <2>1, <2>3, <3>1, MoveStep
  <2> QED BY <1>2, <2>2, <2>3
<1>4. CASE Expired(jobs[k], at) /\ jobs[k].state = "claimed"
  <2>1. job = Returned(jobs[k], at) /\ attempts'[k] = attempts[k]
    BY <1>1, <1>4, RecoveredForm, ZenonT(60)
  <2>2. /\ job.state = "queued" /\ job.count = jobs[k].count
        /\ job.request = jobs[k].request
    BY <1>1, <2>1 DEF Returned, Row
  <2>3. /\ jobs'[k].state \in {"queued", "claimed"} /\ jobs'[k].count = jobs[k].count
        /\ jobs'[k].request = jobs[k].request
    BY <1>2, <2>2
  <2>4. Budget(jobs'[k]) = Budget(jobs[k])
    BY <1>4, <2>3, NoJobFacts DEF Budget
  <2>5. CASE jobs'[k].state = "queued"
    BY <1>4, <2>1, <2>3, <2>4, <2>5, MoveStep
  <2>6. CASE jobs'[k].state = "claimed"
    BY <1>4, <2>1, <2>3, <2>4, <2>6, StayStep
  <2> QED BY <2>3, <2>5, <2>6
<1>5. CASE Expired(jobs[k], at) /\ jobs[k].state = "running"
  <2>1. /\ job = Completed(jobs[k], "failed", TRUE, at, delay[k])
        /\ attempts'[k] = WithLast(attempts[k], "failed")
    BY <1>1, <1>5, RecoveredForm, ZenonT(60)
  <2>2. Live(jobs[k], attempts[k])
    BY <1>1, <1>5, NoJobFacts DEF Valid
  <2>3. /\ job.count = jobs[k].count /\ job.request = jobs[k].request
        /\ CompletedState(jobs[k], job, "failed")
    <3>1. "failed" \in Closed
      BY DEF Closed
    <3>2. ASSUME NEW retryable \in BOOLEAN
          PROVE  LET new == Completed(jobs[k], "failed", retryable, at, delay[k])
                 IN  /\ new.request = jobs[k].request /\ new.count = jobs[k].count
                     /\ CompletedState(jobs[k], new, "failed")
      BY <1>1, <3>1, CompletedFacts
    <3> QED BY <2>1, <3>2
  <2> HIDE DEF job
  <2>4. \/ jobs'[k].state = "failed"
        \/ jobs'[k].state = "dead_letter" /\ ~Retried(jobs[k])
        \/ jobs'[k].state \in {"retry_wait", "claimed"} /\ Retried(jobs[k])
    BY <1>2, <2>3 DEF CompletedState, Waiting
  <2>5. jobs'[k].count = jobs[k].count /\ jobs'[k].request = jobs[k].request
    BY <1>2, <2>3
  <2>6. Budget(jobs'[k]) = Budget(jobs[k])
    BY <1>5, <2>4, <2>5, NoJobFacts DEF Budget
  <2> QED BY <1>5, <2>1, <2>2, <2>4, <2>5, <2>6, EndStep DEF Closed
<1> QED BY <1>3, <1>4, <1>5, RecoveredForm

LEMMA EnqueueStep ==
  ASSUME Shape, NEW j \in Job, NEW r \in Request, Enqueue(j, r), NEW k \in Job
  PROVE  Lifecycle!Step(k)
<1>1. CASE k = j
  <2>1. /\ jobs[k] = NoJob /\ jobs'[k].state = "queued" /\ jobs'[k].request = r
        /\ jobs'[k].count = 0 /\ attempts' = attempts
    BY <1>1 DEF Enqueue, Shape, NoJob
  <2>2. Budget(jobs'[k]) \in 1..Limit
    BY <2>1, NoJobFacts, BudgetFacts DEF Budget
  <2> QED BY <2>1, <2>2, NoJobFacts
          DEF Lifecycle!Step, Lifecycle!Submit, Budget, Outcomes
<1>2. CASE k # j
  <2>1. jobs'[k] = jobs[k] /\ attempts'[k] = attempts[k]
    BY <1>2 DEF Enqueue, Shape
  <2> QED BY <2>1, SameStep
<1> QED BY <1>1, <1>2

LEMMA CancelStep ==
  ASSUME Shape, NEW j \in Job, Cancel(j), NEW k \in Job
  PROVE  Lifecycle!Step(k)
<1>1. CASE k = j
  <2>1. /\ jobs[k].state \in Waiting /\ jobs'[k].state = "cancelled"
        /\ jobs'[k].request = jobs[k].request /\ jobs'[k].count = jobs[k].count
        /\ attempts' = attempts
    BY <1>1 DEF Cancel, Cancellable, Shape, Row
  <2>2. Budget(jobs'[k]) = Budget(jobs[k])
    BY <2>1, NoJobFacts DEF Budget, Waiting
  <2> QED BY <2>1, <2>2, MoveStep
<1>2. CASE k # j
  <2>1. jobs'[k] = jobs[k] /\ attempts'[k] = attempts[k]
    BY <1>2 DEF Cancel, Shape
  <2> QED BY <2>1, SameStep
<1> QED BY <1>1, <1>2

LEMMA StartStep ==
  ASSUME Shape, NEW t \in Thread, NEW at \in Nat, Start(t, at), NEW k \in Job
  PROVE  Lifecycle!Step(k)
<1> DEFINE j == claims[t].job
<1>1. j \in Job /\ Live(jobs[j], attempts[j]) /\ jobs[j].state = "claimed"
      /\ jobs[j] \in Row
  BY HeldFacts, SMTT(30) DEF Start
<1>2. CASE k = j
  <2>1. /\ jobs'[k].state = "running" /\ jobs'[k].count = jobs[k].count + 1
        /\ jobs'[k].request = jobs[k].request
        /\ attempts'[k] = Append(attempts[k], "running")
    BY <1>1, <1>2 DEF Start, Shape, Row
  <2>2. /\ attempts[k] \in Seq(Statuses) /\ jobs[k].count = Len(attempts[k])
        /\ jobs[k].request \in Request /\ "running" \in Statuses
        /\ Len(attempts[k]) < jobs[k].request.attempts /\ Len(attempts[k]) \in Nat
    <3>1. Live(jobs[k], attempts[k]) /\ jobs[k].state = "claimed"
      BY <1>1, <1>2
    <3>2. /\ attempts[k] \in Seq(Statuses) /\ jobs[k].count = Len(attempts[k])
          /\ jobs[k].request \in Request
      BY <3>1 DEF Live
    <3>3. Len(attempts[k]) < jobs[k].request.attempts
      BY <3>1, StartedValid
    <3>4. Len(attempts[k]) \in Nat
      BY <3>2, LenProperties
    <3>5. "running" \in Statuses
      BY DEF Statuses
    <3> QED BY <3>2, <3>3, <3>4, <3>5
  <2>3. Len(attempts[k]) < Limit
    BY <2>2, BudgetFacts, QueueAssumption
  <2>4. OutcomesOf(attempts'[k]) =
          [OutcomesOf(attempts[k]) EXCEPT ![jobs[k].count + 1] = "running"]
    BY <2>1, <2>2, <2>3, OutcomesOfAppend
  <2>5. Budget(jobs'[k]) = Budget(jobs[k]) /\ jobs[k].count < Budget(jobs[k])
    BY <1>1, <1>2, <2>1, <2>2, NoJobFacts DEF Budget
  <2> QED BY <1>1, <1>2, <2>1, <2>4, <2>5
          DEF Lifecycle!Step, Lifecycle!Start, Budget, Outcomes, OutcomesOf
<1>3. CASE k # j
  <2>1. jobs'[k] = jobs[k] /\ attempts'[k] = attempts[k]
    BY <1>1, <1>3 DEF Start, Shape
  <2> QED BY <2>1, SameStep
<1> QED BY <1>2, <1>3

LEMMA HeartbeatStep ==
  ASSUME Shape, NEW t \in Thread, NEW at \in Nat, Heartbeat(t, at), NEW k \in Job
  PROVE  Lifecycle!Step(k)
<1> DEFINE j == claims[t].job
<1>1. j \in Job /\ jobs[j].state \in Active /\ jobs[j] \in Row
  BY HeldFacts DEF Heartbeat
<1>2. /\ jobs'[k].state = jobs[k].state /\ jobs'[k].count = jobs[k].count
      /\ jobs'[k].request = jobs[k].request /\ attempts'[k] = attempts[k]
      /\ k # j => jobs'[k] = jobs[k]
  BY <1>1 DEF Heartbeat, Shape, Row
<1>3. Budget(jobs'[k]) = Budget(jobs[k])
  BY <1>1, <1>2, NoJobFacts DEF Budget, Active
<1> QED BY <1>2, <1>3, StayStep

LEMMA FinishStep ==
  ASSUME Shape, NEW t \in Thread, NEW at \in Nat, NEW status \in Closed,
         NEW retryable \in BOOLEAN, NEW delay \in Nat,
         Finish(t, at, status, retryable, delay), NEW k \in Job
  PROVE  Lifecycle!Step(k)
<1> DEFINE j == claims[t].job
<1>1. j \in Job /\ Live(jobs[j], attempts[j]) /\ jobs[j].state = "running"
      /\ jobs[j] \in Row
  BY HeldFacts DEF Finish
<1>2. CASE k = j
  <2>1. /\ jobs'[k] = Completed(jobs[k], status, retryable, at, delay)
        /\ attempts'[k] = WithLast(attempts[k], status)
    BY <1>1, <1>2 DEF Finish, Shape
  <2>2. /\ jobs'[k].count = jobs[k].count /\ jobs'[k].request = jobs[k].request
        /\ CompletedState(jobs[k], jobs'[k], status)
    BY <1>1, <1>2, <2>1, CompletedFacts
  <2>3. \/ jobs'[k].state = "failed" /\ status \notin {"succeeded", "empty"}
        \/ jobs'[k].state = status /\ status \in {"succeeded", "empty", "cancelled"}
        \/ /\ jobs'[k].state = "dead_letter" /\ ~Retried(jobs[k])
           /\ status \notin {"succeeded", "empty"}
        \/ /\ jobs'[k].state \in {"retry_wait", "claimed"} /\ Retried(jobs[k])
           /\ status \notin {"succeeded", "empty"}
    BY <2>2 DEF CompletedState
  <2>4. Budget(jobs'[k]) = Budget(jobs[k])
    BY <1>1, <1>2, <2>2, <2>3, NoJobFacts DEF Budget
  <2> QED BY <1>1, <1>2, <2>1, <2>2, <2>3, <2>4, EndStep
<1>3. CASE k # j
  <2>1. jobs'[k] = jobs[k] /\ attempts'[k] = attempts[k]
    BY <1>1, <1>3 DEF Finish, Shape
  <2> QED BY <2>1, SameStep
<1> QED BY <1>2, <1>3

LEMMA RecoverStep ==
  ASSUME Shape, NEW at \in Nat, NEW delay \in [Job -> Delays], Recover(at, delay),
         NEW k \in Job
  PROVE  Lifecycle!Step(k)
<1>1. /\ attempts'[k] = RecoveredAttempts(k, at)
      /\ jobs'[k] = RecoveredJob(jobs[k], at, delay[k])
  BY DEF Recover
<1> QED BY <1>1, RecoveredStep

LEMMA ClaimStep ==
  ASSUME Shape, NEW t \in Thread, NEW at \in Nat, NEW delay \in [Job -> Delays],
         Claim(t, at, delay), NEW k \in Job
  PROVE  Lifecycle!Step(k)
<1>1. PICK j \in Job, token \in Token :
         /\ RecoveredJob(jobs[j], at, delay[j]).state \in Waiting
         /\ jobs'[j] = Claimed(RecoveredJob(jobs[j], at, delay[j]), token, at)
         /\ \A i \in Job \ {j} : jobs'[i] = RecoveredJob(jobs[i], at, delay[i])
         /\ attempts' = [i \in Job |-> RecoveredAttempts(i, at)]
  BY ClaimForm
<1>2. attempts'[k] = RecoveredAttempts(k, at)
  BY <1>1
<1>3. CASE k = j
  BY <1>1, <1>2, <1>3, RecoveredStep
<1>4. CASE k # j
  BY <1>1, <1>2, <1>4, RecoveredStep
<1> QED BY <1>3, <1>4

(* Every step of the queue moves each job along an edge of the life cycle. *)
LEMMA NextStep ==
  ASSUME Shape, [Next]_vars, NEW k \in Job
  PROVE  Lifecycle!Step(k)
<1>1. ASSUME NEW at \in Anchors, NEW t \in Thread,
             \/ Start(t, at) \/ Heartbeat(t, at)
             \/ \E delay \in [Job -> Delays] : Claim(t, at, delay)
             \/ \E status \in Closed, retryable \in BOOLEAN, delay \in Delays :
                   Finish(t, at, status, retryable, delay)
      PROVE  Lifecycle!Step(k)
  <2>1. at \in Nat /\ \A delay \in Delays : delay \in Nat
    BY AnchorFacts, QueueAssumption
  <2> QED BY <1>1, <2>1, StartStep, HeartbeatStep, ClaimStep, FinishStep
<1>2. ASSUME NEW at \in Anchors, NEW delay \in [Job -> Delays], Recover(at, delay)
      PROVE  Lifecycle!Step(k)
  BY <1>2, AnchorFacts, RecoverStep
<1>3. ASSUME NEW j \in Job, Cancel(j) \/ \E r \in Request : Enqueue(j, r)
      PROVE  Lifecycle!Step(k)
  BY <1>3, CancelStep, EnqueueStep
<1>4. ASSUME NEW t \in Thread, Abandon(t) PROVE Lifecycle!Step(k)
  BY <1>4, SameStep DEF Abandon
<1>5. CASE Tick
  BY <1>5, SameStep DEF Tick
<1>6. CASE UNCHANGED vars
  BY <1>6, SameStep DEF vars
<1> QED BY <1>1, <1>2, <1>3, <1>4, <1>5, <1>6 DEF Next

(* The types of what the life cycle sees of the queue.                     *)
LifecycleTyped ==
  /\ [j \in Job |-> jobs[j].state] \in [Job -> Lifecycle!States]
  /\ [j \in Job |-> IF jobs[j] = NoJob THEN 0 ELSE jobs[j].request.attempts]
        \in [Job -> 0..Limit]
  /\ [j \in Job |-> jobs[j].count] \in [Job -> 0..Limit]
  /\ [j \in Job |-> Outcomes(j)]
        \in [Job -> [1..Limit -> Lifecycle!Closed \cup {"none", "running"}]]

LEMMA LifecycleTypes == Shape => LifecycleTyped
<1> SUFFICES ASSUME Shape, NEW j \in Job
             PROVE  /\ jobs[j].state \in Lifecycle!States
                    /\ Budget(jobs[j]) \in 0..Limit
                    /\ jobs[j].count \in 0..Limit
                    /\ Outcomes(j) \in
                          [1..Limit -> Lifecycle!Closed \cup {"none", "running"}]
  BY DEF LifecycleTyped, Budget
<1>1. jobs[j] \in Row /\ attempts[j] \in Seq(Statuses) /\ Valid(jobs[j], attempts[j])
  BY DEF Shape
<1>2. jobs[j].state \in Lifecycle!States
  BY <1>1 DEF Row, Waiting, Active, Terminal, Lifecycle!States, Lifecycle!Waiting,
              Lifecycle!Results
<1>3. Limit \in Nat
  BY QueueAssumption
<1>4. Budget(jobs[j]) \in 0..Limit /\ jobs[j].count \in 0..Limit
  <2>1. CASE jobs[j] = NoJob
    BY <1>3, <2>1, NoJobFacts DEF Budget
  <2>2. CASE Live(jobs[j], attempts[j])
    <3>1. jobs[j] # NoJob /\ jobs[j].request \in Request
          /\ jobs[j].count = Len(attempts[j])
          /\ Len(attempts[j]) <= jobs[j].request.attempts /\ Len(attempts[j]) \in Nat
      BY <1>1, <2>2, LiveIsThere DEF Live
    <3>2. jobs[j].request.attempts \in 1..Limit
      BY <3>1, BudgetFacts
    <3> QED BY <1>3, <3>1, <3>2 DEF Budget
  <2> QED BY <1>1, <2>1, <2>2 DEF Valid
<1>5. ASSUME NEW n \in 1..Limit
      PROVE  (IF n <= Len(attempts[j]) THEN attempts[j][n] ELSE "none")
                \in Lifecycle!Closed \cup {"none", "running"}
  <2>1. CASE n <= Len(attempts[j])
    <3>1. n \in DOMAIN attempts[j]
      BY <1>1, <1>3, <2>1
    <3>2. attempts[j][n] \in Statuses
      BY <1>1, <3>1
    <3> QED BY <2>1, <3>2 DEF Statuses, Closed, Lifecycle!Closed, Lifecycle!Results
  <2>2. CASE ~(n <= Len(attempts[j]))
    BY <2>2
  <2> QED BY <2>1, <2>2
<1>6. Outcomes(j) \in [1..Limit -> Lifecycle!Closed \cup {"none", "running"}]
  BY <1>5 DEF Outcomes
<1> QED BY <1>2, <1>4, <1>6

(* The reference queue implements the life cycle a job queue promises, for *)
(* any number of jobs, threads, tokens and attempts, any lease, delays and *)
(* old timestamps: attempts are numbered, bounded by the budget and closed *)
(* once, and a job is in a state its last attempt allows.                  *)
THEOREM QueueImplementsLifecycle == Spec => ImplementsLifecycle
<1>1. Init => Lifecycle!Init
  <2> SUFFICES ASSUME Init PROVE Lifecycle!Init
    OBVIOUS
  <2>1. \A j \in Job : jobs[j] = NoJob /\ attempts[j] = <<>>
    BY DEF Init
  <2>2. ASSUME NEW j \in Job PROVE Outcomes(j) = [n \in 1..Limit |-> "none"]
    <3>1. attempts[j] = <<>> /\ Len(attempts[j]) = 0
      BY <2>1
    <3>2. \A n \in 1..Limit : ~(n <= Len(attempts[j]))
      BY <3>1, QueueAssumption
    <3> QED BY <3>2 DEF Outcomes
  <2> QED BY <2>1, <2>2, NoJobFacts DEF Lifecycle!Init
<1>2. ASSUME Shape, LifecycleTyped', [Next]_vars PROVE Lifecycle!Next
  <2>1. \A k \in Job : Lifecycle!Step(k)
    BY <1>2, NextStep
  <2> QED BY <1>2, <2>1 DEF Lifecycle!Next, LifecycleTyped
<1>3. Shape /\ LifecycleTyped' /\ [Next]_vars
        => [Lifecycle!Next]_(Lifecycle!lifecycleVars)
  BY <1>2
<1>4. IInv => Shape
  BY InvToShape
<1> QED BY <1>1, <1>3, <1>4, Inductive, LifecycleTypes, PTL
        DEF Spec, ImplementsLifecycle, Lifecycle!Spec

=============================================================================
