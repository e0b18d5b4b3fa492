---------------------------- MODULE RefreshLedger ----------------------------
(***************************************************************************)
(* The durable ledger of agent refresh requests: submit_agent_refresh and  *)
(* the approval operations of OperationalStore, called by one-shot facade  *)
(* processes (agent_tools/facade.py through refresh_api/broker.py).        *)
(*                                                                         *)
(* A process reads the clock BEFORE it asks the store, so what it submits  *)
(* is stamped with an anchor that may be older than what is already stored.*)
(* submit_agent_refresh commits the workflow job and the ledger row in two *)
(* transactions under one writer lease: a process that dies between them   *)
(* leaves an orphan job, which a replay of the request binds later.  Past  *)
(* the ONSPD daily limit a job needs a confirmation, which only a recorded *)
(* host decision releases, in three further store calls.                   *)
(***************************************************************************)
EXTENDS Integers, Sequences, FiniteSets

CONSTANTS
    Caller,      \* one-shot facade processes
    Request,     \* refresh_request_id values the trusted host hands out
    Principal,   \* principal together with its capability scope
    Cohort,      \* dedupe_key: datasource, profile and bounded scope
    Quoted,      \* the cohorts of the ONSPD datasource
    Intent,      \* the rest of what the request fingerprint covers
    DailyLimit,  \* _ONSPD_REFRESH_DAILY_LIMIT
    Cooldown,    \* the profile's cooldown
    Ttl,         \* _REFRESH_CONFIRMATION_TTL
    DayLength,   \* a London calendar day
    MaxTime,     \* bound: the clock stops here
    MaxEvents,   \* bound: decisions and replays recorded per approval
    None         \* no row

ASSUME QuotedAssumption == Quoted \subseteq Cohort
ASSUME LimitAssumption == DailyLimit \in Nat /\ MaxEvents \in Nat
ASSUME DurationAssumption == /\ Cooldown \in Nat
                             /\ Ttl \in Nat \ {0}
                             /\ DayLength \in Nat \ {0}
                             /\ MaxTime \in Nat
ASSUME NoneAssumption == None \notin Caller

Fingerprint == [cohort : Cohort, intent : Intent]

(* The `_refresh_control' part of an agent job's request_json, together    *)
(* with its request_instance_id.  submittedAt is also its created_at.      *)
Job == [request : Request, principal : Principal, fingerprint : Fingerprint,
        submittedAt : Nat, cooldownUntil : Nat]

LedgerRow == [principal : Principal, fingerprint : Fingerprint, job : Nat,
              disposition : {"accepted", "deduplicated"},
              submittedAt : Nat, cooldownUntil : Nat]

ConfirmationRow == [principal : Principal, fingerprint : Fingerprint,
                    issuedAt : Nat, expiresAt : Nat]

Event == [type : {"decision", "replay"}, decision : {"approve", "deny"}]

Process == [pc       : {"idle", "submit", "enqueued", "bind", "decide",
                        "recover", "resend"},
            request  : Request \cup {None},
            principal: Principal \cup {None},
            fingerprint : Fingerprint \cup {None},
            token    : BOOLEAN,
            decision : {"approve", "deny", "none"},
            at       : Nat]

VARIABLES
    now,
    jobs,          \* workflow_job rows with trigger agent_request, in order
    ledger,        \* refresh_request by request_id
    confirmation,  \* refresh_confirmation by request_id (UNIQUE there)
    approval,      \* the requests with an agent_refresh_approval row
    events,        \* agent_refresh_approval_event by approval, event_seq order
    lock,          \* the process inside a two-transaction writer session
    proc           \* what each facade process is doing

vars == <<now, jobs, ledger, confirmation, approval, events, lock, proc>>

Idle == [pc |-> "idle", request |-> None, principal |-> None,
         fingerprint |-> None, token |-> FALSE, decision |-> "none", at |-> 0]

TypeOK ==
    /\ now \in Nat
    /\ jobs \in Seq(Job)
    /\ ledger \in [Request -> LedgerRow \cup {None}]
    /\ confirmation \in [Request -> ConfirmationRow \cup {None}]
    /\ approval \subseteq Request
    /\ events \in [Request -> Seq(Event)]
    /\ lock \in Caller \cup {None}
    /\ proc \in [Caller -> Process]

Init ==
    /\ now = 0
    /\ jobs = <<>>
    /\ ledger = [r \in Request |-> None]
    /\ confirmation = [r \in Request |-> None]
    /\ approval = {}
    /\ events = [r \in Request |-> <<>>]
    /\ lock = None
    /\ proc = [c \in Caller |-> Idle]

-----------------------------------------------------------------------------
(* What submit_agent_refresh looks up.                                     *)

Day(t) == t \div DayLength

SameIdentity(row, c) == /\ row.principal = proc[c].principal
                        /\ row.fingerprint = proc[c].fingerprint

Cooling(row, cohort, at) == /\ row.fingerprint.cohort = cohort
                            /\ row.cooldownUntil > at

(* _refresh_job_by_request_id.                                             *)
(* Mutant: the job left by a crash is not looked for.                      *)
RecoverableNever(r) == {}
Recoverable(r) == {i \in DOMAIN jobs : jobs[i].request = r}

Bound(i) == \E r \in Request : ledger[r] # None /\ ledger[r].job = i

(* _active_refresh_dedupe: ledger rows that are cooling, and orphan jobs.  *)
(* Mutant: an orphan of a crash does not take part in the cooldown.        *)
ActiveDedupeLedgerOnly(cohort, at) ==
    {[job |-> ledger[r].job, submittedAt |-> ledger[r].submittedAt,
      cooldownUntil |-> ledger[r].cooldownUntil] :
        r \in {q \in Request : /\ ledger[q] # None
                               /\ Cooling(ledger[q], cohort, at)}}
ActiveDedupe(cohort, at) ==
    {[job |-> ledger[r].job, submittedAt |-> ledger[r].submittedAt,
      cooldownUntil |-> ledger[r].cooldownUntil] :
        r \in {q \in Request : /\ ledger[q] # None
                               /\ Cooling(ledger[q], cohort, at)}}
    \cup
    {[job |-> i, submittedAt |-> jobs[i].submittedAt,
      cooldownUntil |-> jobs[i].cooldownUntil] :
        i \in {k \in DOMAIN jobs : ~Bound(k) /\ Cooling(jobs[k], cohort, at)}}

(* _refresh_jobs_in_london_day and the limit.                              *)
JobsInDay(t) == Cardinality({i \in DOMAIN jobs :
                                /\ jobs[i].fingerprint.cohort \in Quoted
                                /\ Day(jobs[i].submittedAt) = Day(t)})

NeedsConfirmation(c) ==
    /\ proc[c].fingerprint.cohort \in Quoted
    /\ JobsInDay(proc[c].at) >= DailyLimit

(* Mutant: the token is not checked for expiry when the job is made.       *)
ConfirmedForever(c) ==
    proc[c].token /\ confirmation[proc[c].request] # None

(* _validate_refresh_confirmation.  The token is the request's own.        *)
Confirmed(c) ==
    /\ proc[c].token
    /\ confirmation[proc[c].request] # None
    /\ confirmation[proc[c].request].expiresAt > proc[c].at

(* The request id is not already bound to another principal or request.    *)
IdentityHolds(c) ==
    LET r == proc[c].request
    IN  IF ledger[r] # None THEN SameIdentity(ledger[r], c)
        ELSE /\ confirmation[r] # None => SameIdentity(confirmation[r], c)
             /\ \A i \in Recoverable(r) : SameIdentity(jobs[i], c)

(* No answer exists yet: no row, no job of its own, no cooling cohort.      *)
Unanswered(c) == /\ ledger[proc[c].request] = None
                 /\ Recoverable(proc[c].request) = {}
                 /\ ActiveDedupe(proc[c].fingerprint.cohort, proc[c].at) = {}

-----------------------------------------------------------------------------
(* A facade process asks for a refresh: the broker reads the clock.        *)

RequestRefresh(c, r, p, f) ==
    /\ proc[c].pc = "idle"
    /\ proc' = [proc EXCEPT ![c] = [Idle EXCEPT !.pc = "submit", !.request = r,
                                       !.principal = p, !.fingerprint = f,
                                       !.at = now]]
    /\ UNCHANGED <<now, jobs, ledger, confirmation, approval, events, lock>>

Submitting(c) == proc[c].pc = "submit" /\ lock = None

Finish(c) == proc' = [proc EXCEPT ![c] = Idle]

(* The ledger already answers the request, or an identity check, the quota *)
(* or an expired confirmation refuses it: nothing is written.              *)
AnswerOrRefuse(c) ==
    LET r == proc[c].request
    IN  /\ Submitting(c)
        /\ \/ ledger[r] # None
           \/ ~IdentityHolds(c)
           \/ /\ Unanswered(c)
              /\ IF NeedsConfirmation(c)
                 THEN IF proc[c].token
                      THEN ~Confirmed(c)
                      ELSE /\ confirmation[r] # None
                           /\ confirmation[r].expiresAt <= proc[c].at
                 ELSE proc[c].token
        /\ Finish(c)
        /\ UNCHANGED <<now, jobs, ledger, confirmation, approval, events, lock>>

(* _record_refresh_request.                                                *)
RecordRow(c, row) ==
    /\ ledger' = [ledger EXCEPT ![proc[c].request] = row]
    /\ Finish(c)
    /\ UNCHANGED <<now, jobs, confirmation, approval, events>>

(* A job that a crash left without its ledger row is bound to it, with the *)
(* instants stored in the job.                                             *)
RecoverJob(c) ==
    /\ Submitting(c)
    /\ ledger[proc[c].request] = None
    /\ IdentityHolds(c)
    /\ \E i \in Recoverable(proc[c].request) :
          RecordRow(c, [principal |-> proc[c].principal,
                        fingerprint |-> proc[c].fingerprint,
                        job |-> i, disposition |-> "accepted",
                        submittedAt |-> jobs[i].submittedAt,
                        cooldownUntil |-> jobs[i].cooldownUntil])
    /\ UNCHANGED lock

DedupedUntil(prior, at) == prior.cooldownUntil

(* The latest cooling job of the cohort answers; on a tie of submittedAt   *)
(* the code takes the larger (random) job id.                              *)
Deduplicate(c) ==
    LET at    == proc[c].at
        prior == ActiveDedupe(proc[c].fingerprint.cohort, at)
    IN  /\ Submitting(c)
        /\ ledger[proc[c].request] = None
        /\ IdentityHolds(c)
        /\ Recoverable(proc[c].request) = {}
        /\ \E d \in prior :
              /\ \A e \in prior : e.submittedAt <= d.submittedAt
              /\ RecordRow(c, [principal |-> proc[c].principal,
                               fingerprint |-> proc[c].fingerprint,
                               job |-> d.job, disposition |-> "deduplicated",
                               submittedAt |-> at,
                               cooldownUntil |-> DedupedUntil(d, at)])
        /\ UNCHANGED lock

(* _issue_refresh_confirmation: a new row, or the pending one again.       *)
IssueConfirmation(c) ==
    LET r == proc[c].request
    IN  /\ Submitting(c)
        /\ IdentityHolds(c)
        /\ Unanswered(c)
        /\ NeedsConfirmation(c)
        /\ ~proc[c].token
        /\ confirmation[r] # None => confirmation[r].expiresAt > proc[c].at
        /\ confirmation' =
              IF confirmation[r] # None THEN confirmation
              ELSE [confirmation EXCEPT ![r] =
                      [principal |-> proc[c].principal,
                       fingerprint |-> proc[c].fingerprint,
                       issuedAt |-> proc[c].at,
                       expiresAt |-> proc[c].at + Ttl]]
        /\ proc' = [proc EXCEPT ![c].pc = "bind", ![c].at = now]
        /\ UNCHANGED <<now, jobs, ledger, approval, events, lock>>

(* enqueue commits the job; the writer lease is kept for the ledger row.   *)
EnqueueJob(c) ==
    /\ Submitting(c)
    /\ IdentityHolds(c)
    /\ Unanswered(c)
    /\ IF NeedsConfirmation(c) THEN Confirmed(c) ELSE ~proc[c].token
    /\ jobs' = Append(jobs, [request |-> proc[c].request,
                             principal |-> proc[c].principal,
                             fingerprint |-> proc[c].fingerprint,
                             submittedAt |-> proc[c].at,
                             cooldownUntil |-> proc[c].at + Cooldown])
    /\ proc' = [proc EXCEPT ![c].pc = "enqueued"]
    /\ lock' = c
    /\ UNCHANGED <<now, ledger, confirmation, approval, events>>

RecordJob(c) ==
    /\ proc[c].pc = "enqueued"
    /\ RecordRow(c, [principal |-> proc[c].principal,
                     fingerprint |-> proc[c].fingerprint,
                     job |-> Len(jobs), disposition |-> "accepted",
                     submittedAt |-> proc[c].at,
                     cooldownUntil |-> proc[c].at + Cooldown])
    /\ lock' = None

-----------------------------------------------------------------------------
(* Approvals.                                                              *)

Live(r, t) == confirmation[r] # None /\ confirmation[r].expiresAt > t

(* What the facade passes as `now': read after its previous store call.    *)
Readings(c) == proc[c].at..now

(* create_agent_refresh_approval copies the confirmation's instants, so the*)
(* approval expires with it.                                               *)
BindApproval(c) ==
    LET r == proc[c].request
    IN  /\ proc[c].pc = "bind"
        /\ lock = None
        /\ \E t \in Readings(c) :
              approval' = IF Live(r, t) /\ SameIdentity(confirmation[r], c)
                          THEN approval \cup {r} ELSE approval
        /\ Finish(c)
        /\ UNCHANGED <<now, jobs, ledger, confirmation, events, lock>>

(* _approve_refresh looks the approval up, in its own host context.        *)
ApproveRefresh(c, r, decision) ==
    /\ proc[c].pc = "idle"
    /\ r \in approval
    /\ Live(r, now)
    /\ proc' = [proc EXCEPT ![c] =
                  [Idle EXCEPT !.pc = "decide", !.request = r,
                               !.principal = confirmation[r].principal,
                               !.fingerprint = confirmation[r].fingerprint,
                               !.decision = decision, !.at = now]]
    /\ UNCHANGED <<now, jobs, ledger, confirmation, approval, events, lock>>

(* Mutant: an earlier decision is not looked at.                           *)
NeverConflicts(r, decision) == TRUE
NoConflict(r, decision) ==
    \A n \in DOMAIN events[r] :
        events[r][n].type = "decision" => events[r][n].decision = decision

(* decide_agent_refresh_approval: recorded, replayed, or refused.  A denial *)
(* ends there.                                                             *)
Decide(c) ==
    LET r == proc[c].request
        first == \A n \in DOMAIN events[r] : events[r][n].type # "decision"
    IN  /\ proc[c].pc = "decide"
        /\ lock = None
        /\ Len(events[r]) < MaxEvents
        /\ \E t \in Readings(c) :
              LET recorded == Live(r, t) /\ NoConflict(r, proc[c].decision)
              IN  /\ events' = IF recorded
                               THEN [events EXCEPT ![r] = Append(@,
                                       [type |-> IF first THEN "decision"
                                                 ELSE "replay",
                                        decision |-> proc[c].decision])]
                               ELSE events
                  /\ proc' = [proc EXCEPT ![c] =
                                IF recorded /\ proc[c].decision = "approve"
                                THEN [@ EXCEPT !.pc = "recover", !.at = now]
                                ELSE Idle]
        /\ UNCHANGED <<now, jobs, ledger, confirmation, approval, lock>>

(* recover_agent_refresh_approval releases the token if it is still valid; *)
(* then the broker reads the clock again for the second submission.        *)
RecoverToken(c) ==
    /\ proc[c].pc = "recover"
    /\ \E t \in Readings(c) :
          proc' = [proc EXCEPT ![c] =
                     IF Live(proc[c].request, t)
                     THEN [@ EXCEPT !.pc = "resend", !.token = TRUE, !.at = 0]
                     ELSE Idle]
    /\ UNCHANGED <<now, jobs, ledger, confirmation, approval, events, lock>>

Resend(c) ==
    /\ proc[c].pc = "resend"
    /\ proc' = [proc EXCEPT ![c].pc = "submit", ![c].at = now]
    /\ UNCHANGED <<now, jobs, ledger, confirmation, approval, events, lock>>

-----------------------------------------------------------------------------

(* The process dies, or finds the writer lease taken and fails: what it has *)
(* committed stays, its lease is freed by the operating system.            *)
Crash(c) ==
    /\ proc[c].pc # "idle"
    /\ Finish(c)
    /\ lock' = IF lock = c THEN None ELSE lock
    /\ UNCHANGED <<now, jobs, ledger, confirmation, approval, events>>

Tick ==
    /\ now < MaxTime
    /\ now' = now + 1
    /\ UNCHANGED <<jobs, ledger, confirmation, approval, events, lock, proc>>

Submit(c) == \/ AnswerOrRefuse(c)
             \/ RecoverJob(c)
             \/ Deduplicate(c)
             \/ IssueConfirmation(c)
             \/ EnqueueJob(c)

Next ==
    \/ \E c \in Caller :
          \/ \E r \in Request, p \in Principal, f \in Fingerprint :
                RequestRefresh(c, r, p, f)
          \/ Submit(c)
          \/ RecordJob(c)
          \/ BindApproval(c)
          \/ \E r \in Request, d \in {"approve", "deny"} :
                ApproveRefresh(c, r, d)
          \/ Decide(c)
          \/ RecoverToken(c)
          \/ Resend(c)
          \/ Crash(c)
    \/ Tick

Spec == Init /\ [][Next]_vars

-----------------------------------------------------------------------------

(* A request id never has two jobs, however often it is replayed and where *)
(* the process dies: _refresh_job_by_request_id is never ambiguous.        *)
OneJobPerRequest ==
    \A i, j \in DOMAIN jobs : i # j => jobs[i].request # jobs[j].request

(* A request id belongs to one principal and one fingerprint, in all four  *)
(* tables, though three code paths may be the first to write it.           *)
IdentityIsBound ==
    \A r \in Request :
        LET rows == {ledger[r], confirmation[r]} \ {None}
            made == {jobs[i] : i \in {k \in DOMAIN jobs : jobs[k].request = r}}
        IN  \A a, b \in rows \cup made : /\ a.principal = b.principal
                                         /\ a.fingerprint = b.fingerprint

(* A ledger row names a job of its own cohort and cools down with it: an   *)
(* accepted row is its own job's, a deduplicated one never extends it.     *)
LedgerMatchesJob ==
    \A r \in Request : ledger[r] # None =>
        LET row == ledger[r]
        IN  /\ row.job \in DOMAIN jobs
            /\ jobs[row.job].fingerprint.cohort = row.fingerprint.cohort
            /\ jobs[row.job].cooldownUntil = row.cooldownUntil
            /\ row.disposition = "accepted" <=> jobs[row.job].request = r

(* The ledger, the confirmations and the jobs tell one story: at most one  *)
(* job per request id, one owner of it, and a row that agrees with the job *)
(* it names, wherever the process died between the job and its row.        *)
LedgerIsConsistent ==
    TypeOK /\ OneJobPerRequest /\ IdentityIsBound /\ LedgerMatchesJob

(* Two jobs of one cohort are a cooldown apart, whatever crashed between   *)
(* them and however stale the anchors were.                                *)
CooldownIsShared ==
    \A i, j \in DOMAIN jobs :
        i < j /\ jobs[i].fingerprint.cohort = jobs[j].fingerprint.cohort =>
            jobs[i].submittedAt + Cooldown <= jobs[j].submittedAt

(* Past the daily limit a job exists only with a confirmation that was     *)
(* valid when it was submitted and that the host approved and never denied.*)
QuotaNeedsApproval ==
    \A j \in DOMAIN jobs :
        LET r == jobs[j].request
            earlier == {i \in 1..(j - 1) :
                          /\ jobs[i].fingerprint.cohort \in Quoted
                          /\ Day(jobs[i].submittedAt) = Day(jobs[j].submittedAt)}
        IN  /\ jobs[j].fingerprint.cohort \in Quoted
            /\ Cardinality(earlier) >= DailyLimit
            => /\ confirmation[r] # None
               /\ jobs[j].submittedAt \in
                     confirmation[r].issuedAt..(confirmation[r].expiresAt - 1)
               /\ events[r] # <<>>
               /\ \A n \in DOMAIN events[r] : events[r][n].decision = "approve"

(* The first event of an approval decides and the others only repeat it.   *)
DecisionIsFinal ==
    \A r \in Request : \A n \in DOMAIN events[r] :
        /\ events[r][n].type = "decision" <=> n = 1
        /\ events[r][n].decision = events[r][1].decision

-----------------------------------------------------------------------------
(* The inductive invariant of the proofs.                                  *)

(* A job cools down from its own submission, and no confirmation is issued *)
(* in the future.                                                          *)
InstantsAreStored ==
    /\ \A i \in DOMAIN jobs : jobs[i].cooldownUntil = jobs[i].submittedAt + Cooldown
    /\ \A r \in Request : confirmation[r] # None => confirmation[r].issuedAt <= now

HostApproved(r) == events[r] # <<>> /\ events[r][1].decision = "approve"

(* What a process may rely on between its store calls: the writer lease and*)
(* the job it has just committed, or the approval and the confirmation     *)
(* behind its token.                                                       *)
ProcessIsSound(c) ==
    LET p == proc[c]
    IN  /\ p.pc # "idle" => /\ p.request \in Request
                            /\ p.principal \in Principal
                            /\ p.fingerprint \in Fingerprint
        /\ p.at <= now
        /\ p.pc = "decide" => p.decision # "none"
        /\ p.pc = "enqueued" <=> lock = c
        /\ p.pc = "enqueued" =>
              /\ jobs # <<>> /\ ledger[p.request] = None
              /\ jobs[Len(jobs)] = [request |-> p.request,
                                    principal |-> p.principal,
                                    fingerprint |-> p.fingerprint,
                                    submittedAt |-> p.at,
                                    cooldownUntil |-> p.at + Cooldown]
        /\ p.pc \in {"recover", "resend"} \/ p.token => HostApproved(p.request)
        /\ p.token => /\ p.pc \in {"resend", "submit", "enqueued"}
                      /\ confirmation[p.request] # None
                      /\ p.pc = "submit" =>
                            confirmation[p.request].issuedAt <= p.at

IInv == /\ LedgerIsConsistent
        /\ CooldownIsShared
        /\ QuotaNeedsApproval
        /\ DecisionIsFinal
        /\ InstantsAreStored
        /\ \A c \in Caller : ProcessIsSound(c)

=============================================================================
