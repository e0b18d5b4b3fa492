------------------------ MODULE RefreshLedger_proofs ------------------------
(***************************************************************************)
(* Proofs about the ledger of agent refreshes, for any number of processes,*)
(* requests, principals and cohorts, and every limit and duration.         *)
(*                                                                         *)
(* IInv is inductive.  Most actions only move one process; the others write*)
(* one table each: a ledger row, a job, a confirmation or an event.        *)
(***************************************************************************)
EXTENDS RefreshLedger, SequenceTheorems, TLAPS

(* The parts of IInv that speak of the tables only.                        *)
Tables == /\ OneJobPerRequest /\ IdentityIsBound /\ LedgerMatchesJob
          /\ CooldownIsShared /\ QuotaNeedsApproval /\ DecisionIsFinal
          /\ InstantsAreStored

LEMMA InvParts ==
  IInv <=> TypeOK /\ Tables /\ \A c \in Caller : ProcessIsSound(c)
  BY DEF IInv, Tables, LedgerIsConsistent

LEMMA IdleFacts ==
  /\ Idle \in Process
  /\ Idle.pc = "idle" /\ Idle.token = FALSE /\ Idle.at = 0
  BY DEF Idle, Process

LEMMA InitInv ==
  ASSUME Init
  PROVE  IInv
<1>1. TypeOK
  BY IdleFacts DEF Init, TypeOK
<1>2. DOMAIN jobs = {} /\ \A r \in Request : DOMAIN events[r] = {}
  BY DEF Init
<1>3. Tables
  BY <1>2 DEF Tables, Init, OneJobPerRequest, IdentityIsBound, LedgerMatchesJob,
              CooldownIsShared, QuotaNeedsApproval, DecisionIsFinal,
              InstantsAreStored
<1>4. ASSUME NEW c \in Caller PROVE ProcessIsSound(c)
  <2>1. proc[c] = Idle /\ lock # c /\ now = 0
    BY NoneAssumption DEF Init
  <2> QED BY <2>1, IdleFacts DEF ProcessIsSound
<1> QED BY <1>1, <1>3, <1>4, InvParts

(* Steps that write none of the tables the invariant speaks of.            *)
LEMMA TablesKept ==
  ASSUME TypeOK, Tables, UNCHANGED <<jobs, ledger, confirmation, events>>,
         now' \in Nat, now' >= now
  PROVE  Tables'
<1>1. InstantsAreStored'
  <2>1. ASSUME NEW r \in Request, confirmation[r] # None
        PROVE  confirmation[r].issuedAt <= now'
    <3>1. confirmation[r] \in ConfirmationRow /\ now \in Nat
      BY <2>1 DEF TypeOK
    <3>2. confirmation[r].issuedAt \in Nat /\ confirmation[r].issuedAt <= now
      BY <2>1, <3>1 DEF ConfirmationRow, Tables, InstantsAreStored
    <3> QED BY <3>1, <3>2
  <2> QED BY <2>1 DEF Tables, InstantsAreStored
<1>2. OneJobPerRequest' /\ CooldownIsShared' /\ DecisionIsFinal'
  BY DEF Tables, OneJobPerRequest, CooldownIsShared, DecisionIsFinal
<1>3. IdentityIsBound'
  BY DEF Tables, IdentityIsBound
<1>4. LedgerMatchesJob'
  BY DEF Tables, LedgerMatchesJob
<1>5. QuotaNeedsApproval'
  BY DEF Tables, QuotaNeedsApproval, Day
<1> QED BY <1>1, <1>2, <1>3, <1>4, <1>5 DEF Tables

(* A process is not disturbed by what another one does: nobody writes jobs *)
(* or rows while it holds the lease, confirmations are issued once and the *)
(* first event of an approval stays.                                       *)
LEMMA OthersSound ==
  ASSUME IInv, NEW q \in Caller, proc'[q] = proc[q], now' \in Nat, now' >= now,
         lock' = q <=> lock = q,
         proc[q].pc = "enqueued" => UNCHANGED <<jobs, ledger>>,
         \A r \in Request : confirmation[r] # None =>
                               confirmation'[r] = confirmation[r],
         \A r \in Request : HostApproved(r) => HostApproved(r)'
  PROVE  ProcessIsSound(q)'
<1>1. ProcessIsSound(q) /\ now \in Nat /\ proc[q] \in Process
  BY DEF IInv, LedgerIsConsistent, TypeOK
<1>2. proc[q].at \in Nat /\ proc[q].at <= now
  BY <1>1 DEF Process, ProcessIsSound
<1>3. proc[q].at <= now'
  BY <1>1, <1>2
<1>4. proc[q].token => proc[q].request \in Request
  BY <1>1 DEF ProcessIsSound
<1>5. proc[q].pc \in {"recover", "resend"} => proc[q].request \in Request
  BY <1>1 DEF ProcessIsSound
<1>6. proc[q].pc \in {"recover", "resend"} \/ proc[q].token =>
         HostApproved(proc[q].request)'
  <2>1. ASSUME NEW r \in Request, HostApproved(r), r = proc[q].request
        PROVE  HostApproved(proc[q].request)'
    BY <2>1 DEF HostApproved
  <2> QED BY <1>1, <1>4, <1>5, <2>1 DEF ProcessIsSound
<1>7. proc[q].token => /\ proc[q].pc \in {"resend", "submit", "enqueued"}
                       /\ confirmation'[proc[q].request] # None
                       /\ proc[q].pc = "submit" =>
                             confirmation'[proc[q].request].issuedAt <= proc[q].at
  BY <1>1, <1>4 DEF ProcessIsSound
<1>8. proc[q].pc = "enqueued" <=> lock' = q
  BY <1>1 DEF ProcessIsSound
<1>9. proc[q].pc = "enqueued" =>
         /\ jobs' # <<>> /\ ledger'[proc[q].request] = None
         /\ jobs'[Len(jobs')] = [request |-> proc[q].request,
                                 principal |-> proc[q].principal,
                                 fingerprint |-> proc[q].fingerprint,
                                 submittedAt |-> proc[q].at,
                                 cooldownUntil |-> proc[q].at + Cooldown]
  BY <1>1 DEF ProcessIsSound
<1>10. /\ proc[q].pc # "idle" => /\ proc[q].request \in Request
                                 /\ proc[q].principal \in Principal
                                 /\ proc[q].fingerprint \in Fingerprint
       /\ proc[q].pc = "decide" => proc[q].decision # "none"
  BY <1>1 DEF ProcessIsSound
<1> QED BY <1>3, <1>6, <1>7, <1>8, <1>9, <1>10 DEF ProcessIsSound

(* A step of one process that writes none of those tables.                 *)
LEMMA ProcessStep ==
  ASSUME IInv, NEW c \in Caller,
         UNCHANGED <<now, jobs, ledger, confirmation, events>>,
         approval' \subseteq Request,
         \E p \in Process : proc' = [proc EXCEPT ![c] = p],
         lock' \in Caller \cup {None},
         \A q \in Caller \ {c} : lock' = q <=> lock = q,
         ProcessIsSound(c)'
  PROVE  IInv'
<1>1. TypeOK'
  BY DEF IInv, LedgerIsConsistent, TypeOK
<1>2. Tables'
  BY TablesKept, InvParts DEF TypeOK
<1>3. ASSUME NEW q \in Caller, q # c PROVE ProcessIsSound(q)'
  <2>1. proc'[q] = proc[q] /\ now' \in Nat /\ now' >= now
    BY <1>3 DEF IInv, LedgerIsConsistent, TypeOK
  <2>2. \A r \in Request : HostApproved(r) => HostApproved(r)'
    BY DEF HostApproved
  <2> QED BY <1>3, <2>1, <2>2, OthersSound
<1> QED BY <1>1, <1>2, <1>3 DEF IInv, Tables, LedgerIsConsistent

-----------------------------------------------------------------------------
(* Steps that only move a process.                                         *)

LEMMA CallerFacts ==
  ASSUME IInv, NEW c \in Caller
  PROVE  /\ proc[c] \in Process /\ ProcessIsSound(c) /\ now \in Nat
         /\ proc \in [Caller -> Process] /\ lock \in Caller \cup {None}
         /\ approval \subseteq Request
         /\ lock = c <=> proc[c].pc = "enqueued"
  BY DEF IInv, LedgerIsConsistent, TypeOK, ProcessIsSound

(* An operation that is answered, refused or dies.                         *)
LEMMA FinishInv ==
  ASSUME IInv, NEW c \in Caller, Finish(c), lock' # c,
         lock' = lock \/ (lock = c /\ lock' = None),
         UNCHANGED <<now, jobs, ledger, confirmation, events>>,
         approval' \subseteq Request
  PROVE  IInv'
<1>1. proc' = [proc EXCEPT ![c] = Idle] /\ proc'[c] = Idle
  BY CallerFacts DEF Finish
<1>2. ProcessIsSound(c)'
  <2>1. now' \in Nat
    BY CallerFacts
  <2> QED BY <1>1, <2>1, IdleFacts DEF ProcessIsSound
<1>3. /\ lock' \in Caller \cup {None}
      /\ \A q \in Caller \ {c} : lock' = q <=> lock = q
  BY CallerFacts, NoneAssumption
<1> QED BY <1>1, <1>2, <1>3, IdleFacts, ProcessStep

(* Requests and decisions that begin, refusals, bindings and crashes.      *)
LEMMA RequestRefreshInv ==
  ASSUME IInv, NEW c \in Caller, NEW r \in Request, NEW p \in Principal,
         NEW f \in Fingerprint, RequestRefresh(c, r, p, f)
  PROVE  IInv'
<1> DEFINE P == [Idle EXCEPT !.pc = "submit", !.request = r, !.principal = p,
                             !.fingerprint = f, !.at = now]
<1>1. /\ P \in Process /\ P.pc = "submit" /\ P.request = r /\ P.principal = p
      /\ P.fingerprint = f /\ P.at = now /\ P.token = FALSE
  BY CallerFacts DEF Idle, Process
<1>2. /\ proc' = [proc EXCEPT ![c] = P] /\ lock' = lock /\ lock # c
      /\ UNCHANGED <<now, jobs, ledger, confirmation, approval, events>>
  BY CallerFacts DEF RequestRefresh
<1> HIDE DEF P
<1>3. proc'[c] = P /\ now' \in Nat
  BY <1>2, CallerFacts
<1>4. ProcessIsSound(c)'
  BY <1>1, <1>2, <1>3 DEF ProcessIsSound
<1> QED BY <1>1, <1>2, <1>4, CallerFacts, ProcessStep

LEMMA ApproveRefreshInv ==
  ASSUME IInv, NEW c \in Caller, NEW r \in Request, NEW d \in {"approve", "deny"},
         ApproveRefresh(c, r, d)
  PROVE  IInv'
<1> DEFINE P == [Idle EXCEPT !.pc = "decide", !.request = r,
                             !.principal = confirmation[r].principal,
                             !.fingerprint = confirmation[r].fingerprint,
                             !.decision = d, !.at = now]
<1>0. confirmation[r] \in ConfirmationRow
  BY DEF ApproveRefresh, Live, IInv, LedgerIsConsistent, TypeOK
<1>1. /\ P \in Process /\ P.pc = "decide" /\ P.request = r
      /\ P.principal \in Principal /\ P.fingerprint \in Fingerprint
      /\ P.at = now /\ P.token = FALSE /\ P.decision # "none"
  BY <1>0, CallerFacts DEF Idle, Process, ConfirmationRow
<1>2. /\ proc' = [proc EXCEPT ![c] = P] /\ lock' = lock /\ lock # c
      /\ UNCHANGED <<now, jobs, ledger, confirmation, approval, events>>
  BY CallerFacts DEF ApproveRefresh
<1> HIDE DEF P
<1>3. proc'[c] = P /\ now' \in Nat
  BY <1>2, CallerFacts
<1>4. ProcessIsSound(c)'
  BY <1>1, <1>2, <1>3 DEF ProcessIsSound
<1> QED BY <1>1, <1>2, <1>4, CallerFacts, ProcessStep

LEMMA EndInv ==
  ASSUME IInv, NEW c \in Caller, AnswerOrRefuse(c) \/ BindApproval(c) \/ Crash(c)
  PROVE  IInv'
<1>1. CASE AnswerOrRefuse(c)
  <2>1. /\ Finish(c) /\ lock = None
        /\ UNCHANGED <<now, jobs, ledger, confirmation, approval, events, lock>>
    BY <1>1 DEF AnswerOrRefuse, Submitting
  <2> QED BY <2>1, NoneAssumption, CallerFacts, FinishInv
<1>2. CASE BindApproval(c)
  <2>1. /\ Finish(c) /\ lock = None
        /\ UNCHANGED <<now, jobs, ledger, confirmation, events, lock>>
    BY <1>2 DEF BindApproval
  <2>2. approval' \subseteq Request
    <3>1. proc[c].request \in Request /\ approval \subseteq Request
      BY <1>2, CallerFacts DEF BindApproval, ProcessIsSound
    <3>2. approval' = approval \cup {proc[c].request} \/ approval' = approval
      BY <1>2 DEF BindApproval
    <3> QED BY <3>1, <3>2
  <2> QED BY <2>1, <2>2, NoneAssumption, CallerFacts, FinishInv
<1>3. CASE Crash(c)
  <2>1. /\ Finish(c) /\ lock' = IF lock = c THEN None ELSE lock
        /\ UNCHANGED <<now, jobs, ledger, confirmation, approval, events>>
    BY <1>3 DEF Crash
  <2>2. lock' # c /\ (lock' = lock \/ (lock = c /\ lock' = None))
    <3>1. CASE lock = c
      BY <2>1, <3>1, NoneAssumption
    <3>2. CASE lock # c
      BY <2>1, <3>2
    <3> QED BY <3>1, <3>2
  <2>3. approval' \subseteq Request
    BY <2>1, CallerFacts
  <2> QED BY <2>1, <2>2, <2>3, FinishInv
<1> QED BY <1>1, <1>2, <1>3

(* The token is released to a process whose approval is recorded, and the  *)
(* second submission is stamped after the confirmation was issued.         *)
LEMMA TokenInv ==
  ASSUME IInv, NEW c \in Caller, RecoverToken(c) \/ Resend(c)
  PROVE  IInv'
<1>0. /\ proc[c].request \in Request /\ HostApproved(proc[c].request)
      /\ proc[c].principal \in Principal /\ proc[c].fingerprint \in Fingerprint
      /\ UNCHANGED <<now, jobs, ledger, confirmation, approval, events, lock>>
      /\ lock # c
  BY CallerFacts DEF RecoverToken, Resend, ProcessIsSound
<1>1. CASE RecoverToken(c)
  <2>1. PICK t \in Readings(c) :
           proc' = [proc EXCEPT ![c] =
                      IF Live(proc[c].request, t)
                      THEN [@ EXCEPT !.pc = "resend", !.token = TRUE, !.at = 0]
                      ELSE Idle]
    BY <1>1 DEF RecoverToken
  <2>2. CASE ~Live(proc[c].request, t)
    <3>1. Finish(c)
      BY <2>1, <2>2 DEF Finish
    <3>2. approval' \subseteq Request
      BY <1>0, CallerFacts
    <3>3. lock' = lock /\ lock' # c
      BY <1>0
    <3>4. UNCHANGED <<now, jobs, ledger, confirmation, events>>
      BY <1>0
    <3> QED BY <3>1, <3>2, <3>3, <3>4, FinishInv
  <2>3. CASE Live(proc[c].request, t)
    <3> DEFINE P == [proc[c] EXCEPT !.pc = "resend", !.token = TRUE, !.at = 0]
    <3>1. /\ P \in Process /\ P.pc = "resend" /\ P.request = proc[c].request
          /\ P.principal = proc[c].principal /\ P.fingerprint = proc[c].fingerprint
          /\ P.at = 0 /\ P.token = TRUE
      BY CallerFacts, ZenonT(60) DEF Process
    <3>2. proc' = [proc EXCEPT ![c] = P]
      BY <2>1, <2>3, CallerFacts
    <3> HIDE DEF P
    <3>3. proc'[c] = P /\ now' \in Nat /\ 0 <= now'
      BY <1>0, <3>2, CallerFacts
    <3>4. confirmation[proc[c].request] # None
      BY <2>3 DEF Live
    <3>5. ProcessIsSound(c)'
      BY <1>0, <3>1, <3>3, <3>4 DEF ProcessIsSound, HostApproved
    <3> QED BY <1>0, <3>1, <3>2, <3>5, CallerFacts, ProcessStep
  <2> QED BY <2>2, <2>3
<1>2. CASE Resend(c)
  <2> DEFINE P == [proc[c] EXCEPT !.pc = "submit", !.at = now]
  <2>1. /\ P \in Process /\ P.pc = "submit" /\ P.request = proc[c].request
        /\ P.principal = proc[c].principal /\ P.fingerprint = proc[c].fingerprint
        /\ P.at = now /\ P.token = proc[c].token
    BY CallerFacts DEF Process
  <2>2. proc' = [proc EXCEPT ![c] = P]
    BY <1>2, CallerFacts DEF Resend
  <2> HIDE DEF P
  <2>3. proc'[c] = P /\ now' \in Nat
    BY <1>0, <2>2, CallerFacts
  <2>4. proc[c].token => /\ confirmation[proc[c].request] # None
                         /\ confirmation[proc[c].request].issuedAt <= now
    BY <1>0, CallerFacts DEF IInv, InstantsAreStored, ProcessIsSound
  <2>5. ProcessIsSound(c)'
    BY <1>0, <2>1, <2>3, <2>4 DEF ProcessIsSound, HostApproved
  <2> QED BY <1>0, <2>1, <2>2, <2>5, CallerFacts, ProcessStep
<1> QED BY <1>1, <1>2

LEMMA TickInv ==
  ASSUME IInv, Tick
  PROVE  IInv'
<1>1. now \in Nat /\ now' \in Nat /\ now' >= now
  BY DEF IInv, LedgerIsConsistent, TypeOK, Tick
<1>2. TypeOK'
  BY <1>1 DEF IInv, LedgerIsConsistent, TypeOK, Tick
<1>3. Tables'
  BY <1>1, TablesKept, InvParts DEF Tick
<1>4. ASSUME NEW q \in Caller PROVE ProcessIsSound(q)'
  <2>1. \A r \in Request : HostApproved(r) => HostApproved(r)'
    BY DEF HostApproved, Tick
  <2> QED BY <1>1, <2>1, OthersSound DEF Tick
<1> QED BY <1>2, <1>3, <1>4 DEF IInv, Tables, LedgerIsConsistent

-----------------------------------------------------------------------------
(* Steps that write the ledger.                                            *)

Owns(row, p, f) == row.principal = p /\ row.fingerprint = f

(* The rows and jobs of a request have one owner: the ones that are there, *)
(* and the new one.                                                        *)
RowsOf(r) == {ledger[r], confirmation[r]} \ {None}
MadeFor(r) == {jobs[i] : i \in {k \in DOMAIN jobs : jobs[k].request = r}}

LEMMA IdentityForm ==
  IdentityIsBound <=>
    \A r \in Request : \A a, b \in RowsOf(r) \cup MadeFor(r) :
        a.principal = b.principal /\ a.fingerprint = b.fingerprint
  BY DEF IdentityIsBound, RowsOf, MadeFor

(* The owner of a request has all of it.                                   *)
OwnedBy(r, p, f) == \A a \in RowsOf(r) \cup MadeFor(r) : Owns(a, p, f)

(* A ledger row is written by the owner of the request, for a job that it  *)
(* agrees with, under the lease.                                           *)
LEMMA RecordRowInv ==
  ASSUME IInv, NEW c \in Caller, NEW row \in LedgerRow, RecordRow(c, row),
         proc[c].request \in Request, ledger[proc[c].request] = None,
         OwnedBy(proc[c].request, row.principal, row.fingerprint),
         row.job \in DOMAIN jobs,
         jobs[row.job].fingerprint.cohort = row.fingerprint.cohort,
         jobs[row.job].cooldownUntil = row.cooldownUntil,
         row.disposition = "accepted" <=> jobs[row.job].request = proc[c].request,
         lock \in {None, c}, lock' = None
  PROVE  IInv'
<1> DEFINE r == proc[c].request
<1>1. /\ ledger' = [ledger EXCEPT ![r] = row] /\ ledger'[r] = row
      /\ \A q \in Request : q # r => ledger'[q] = ledger[q]
      /\ proc' = [proc EXCEPT ![c] = Idle] /\ proc'[c] = Idle
      /\ UNCHANGED <<now, jobs, confirmation, approval, events>>
  BY DEF RecordRow, Finish, IInv, LedgerIsConsistent, TypeOK
<1>2. TypeOK'
  BY <1>1, IdleFacts DEF IInv, LedgerIsConsistent, TypeOK
<1>3. IdentityIsBound'
  <2>1. ASSUME NEW q \in Request, NEW a \in (RowsOf(q) \cup MadeFor(q))',
               NEW b \in (RowsOf(q) \cup MadeFor(q))'
        PROVE  a.principal = b.principal /\ a.fingerprint = b.fingerprint
    <3>1. CASE q # r
      <4>1. RowsOf(q)' = RowsOf(q) /\ MadeFor(q)' = MadeFor(q)
        BY <1>1, <3>1 DEF RowsOf, MadeFor
      <4> QED BY <4>1, IdentityForm DEF IInv, LedgerIsConsistent
    <3>2. CASE q = r
      <4>1. (RowsOf(q) \cup MadeFor(q))' \subseteq RowsOf(q) \cup MadeFor(q) \cup {row}
        BY <1>1, <3>2 DEF RowsOf, MadeFor
      <4> QED BY <3>2, <4>1 DEF OwnedBy, Owns
    <3> QED BY <3>1, <3>2
  <2>2. (\A q \in Request : \A a, b \in RowsOf(q) \cup MadeFor(q) :
           a.principal = b.principal /\ a.fingerprint = b.fingerprint)'
    BY <2>1
  <2> QED BY <2>2 DEF IdentityIsBound, RowsOf, MadeFor
<1>4. LedgerMatchesJob'
  BY <1>1 DEF IInv, LedgerIsConsistent, LedgerMatchesJob
<1>5. OneJobPerRequest' /\ CooldownIsShared' /\ DecisionIsFinal' /\ InstantsAreStored'
  BY <1>1 DEF IInv, LedgerIsConsistent, OneJobPerRequest, CooldownIsShared,
              DecisionIsFinal, InstantsAreStored
<1>6. QuotaNeedsApproval'
  BY <1>1 DEF IInv, QuotaNeedsApproval, Day
<1>7. ASSUME NEW q \in Caller PROVE ProcessIsSound(q)'
  <2>0. now' \in Nat /\ now' >= now
    BY <1>1, CallerFacts
  <2>1. CASE q = c
    BY <1>1, <2>0, <2>1, IdleFacts, NoneAssumption DEF ProcessIsSound
  <2>2. CASE q # c
    <3>1. proc'[q] = proc[q] /\ (lock' = q <=> lock = q)
      BY <1>1, <2>2, NoneAssumption DEF IInv, LedgerIsConsistent, TypeOK
    <3>2. proc[q].pc # "enqueued"
      BY <2>2, NoneAssumption, CallerFacts
    <3>3. \A u \in Request : HostApproved(u) => HostApproved(u)'
      BY <1>1 DEF HostApproved
    <3> QED BY <1>1, <2>0, <3>1, <3>2, <3>3, OthersSound
  <2> QED BY <2>1, <2>2
<1> QED BY <1>2, <1>3, <1>4, <1>5, <1>6, <1>7 DEF IInv, LedgerIsConsistent

(* What the identity checks of a submission establish.                     *)
LEMMA SubmitFacts ==
  ASSUME IInv, NEW c \in Caller, Submitting(c)
  PROVE  /\ proc[c].request \in Request /\ proc[c].principal \in Principal
         /\ proc[c].fingerprint \in Fingerprint /\ proc[c].at \in Nat
         /\ ledger[proc[c].request] = None /\ IdentityHolds(c) =>
               OwnedBy(proc[c].request, proc[c].principal, proc[c].fingerprint)
<1>1. /\ proc[c].request \in Request /\ proc[c].principal \in Principal
      /\ proc[c].fingerprint \in Fingerprint /\ proc[c].at \in Nat
  BY CallerFacts DEF Submitting, ProcessIsSound, Process
<1>2. ASSUME ledger[proc[c].request] = None, IdentityHolds(c)
      PROVE  OwnedBy(proc[c].request, proc[c].principal, proc[c].fingerprint)
  BY <1>2 DEF IdentityHolds, SameIdentity, Recoverable, OwnedBy, Owns, RowsOf,
              MadeFor
<1> QED BY <1>1, <1>2

LEMMA JobFacts ==
  ASSUME IInv
  PROVE  /\ jobs \in Seq(Job) /\ DOMAIN jobs = 1..Len(jobs) /\ Len(jobs) \in Nat
         /\ \A i \in DOMAIN jobs :
               /\ jobs[i] \in Job
               /\ jobs[i].submittedAt \in Nat /\ jobs[i].cooldownUntil \in Nat
               /\ jobs[i].fingerprint \in Fingerprint
               /\ jobs[i].cooldownUntil = jobs[i].submittedAt + Cooldown
<1>1. /\ jobs \in Seq(Job) /\ DOMAIN jobs = 1..Len(jobs) /\ Len(jobs) \in Nat
  BY DEF IInv, LedgerIsConsistent, TypeOK
<1>2. \A i \in DOMAIN jobs : jobs[i] \in Job
  BY <1>1
<1> QED BY <1>1, <1>2 DEF Job, IInv, InstantsAreStored

LEMMA RecoverJobInv ==
  ASSUME IInv, NEW c \in Caller, RecoverJob(c)
  PROVE  IInv'
<1>1. /\ Submitting(c) /\ ledger[proc[c].request] = None /\ IdentityHolds(c)
      /\ lock = None /\ lock' = None
  BY DEF RecoverJob, Submitting
<1>2. PICK i \in Recoverable(proc[c].request) :
         RecordRow(c, [principal |-> proc[c].principal,
                       fingerprint |-> proc[c].fingerprint,
                       job |-> i, disposition |-> "accepted",
                       submittedAt |-> jobs[i].submittedAt,
                       cooldownUntil |-> jobs[i].cooldownUntil])
  BY DEF RecoverJob
<1> DEFINE row == [principal |-> proc[c].principal,
                   fingerprint |-> proc[c].fingerprint,
                   job |-> i, disposition |-> "accepted",
                   submittedAt |-> jobs[i].submittedAt,
                   cooldownUntil |-> jobs[i].cooldownUntil]
<1>3. i \in DOMAIN jobs /\ jobs[i].request = proc[c].request
  BY DEF Recoverable
<1>4. jobs[i].fingerprint = proc[c].fingerprint
  BY <1>1 DEF IdentityHolds, SameIdentity
<1>5. /\ row \in LedgerRow /\ row.principal = proc[c].principal
      /\ row.fingerprint = proc[c].fingerprint /\ row.job = i
      /\ row.disposition = "accepted" /\ row.cooldownUntil = jobs[i].cooldownUntil
  <2>1. i \in Nat
    BY <1>3, JobFacts
  <2> QED BY <1>1, <1>3, <2>1, SubmitFacts, JobFacts DEF LedgerRow
<1>6. RecordRow(c, row)
  BY <1>2
<1> HIDE DEF row
<1> QED BY <1>1, <1>3, <1>4, <1>5, <1>6, SubmitFacts, RecordRowInv

LEMMA DeduplicateInv ==
  ASSUME IInv, NEW c \in Caller, Deduplicate(c)
  PROVE  IInv'
<1> DEFINE prior == ActiveDedupe(proc[c].fingerprint.cohort, proc[c].at)
<1>1. /\ Submitting(c) /\ ledger[proc[c].request] = None /\ IdentityHolds(c)
      /\ lock = None /\ lock' = None /\ Recoverable(proc[c].request) = {}
  BY DEF Deduplicate, Submitting
<1>2. PICK d \in prior :
         RecordRow(c, [principal |-> proc[c].principal,
                       fingerprint |-> proc[c].fingerprint,
                       job |-> d.job, disposition |-> "deduplicated",
                       submittedAt |-> proc[c].at,
                       cooldownUntil |-> d.cooldownUntil])
  BY DEF Deduplicate, DedupedUntil
<1> DEFINE row == [principal |-> proc[c].principal,
                   fingerprint |-> proc[c].fingerprint,
                   job |-> d.job, disposition |-> "deduplicated",
                   submittedAt |-> proc[c].at,
                   cooldownUntil |-> d.cooldownUntil]
<1>3. /\ d.job \in DOMAIN jobs /\ jobs[d.job].cooldownUntil = d.cooldownUntil
      /\ jobs[d.job].fingerprint.cohort = proc[c].fingerprint.cohort
  <2>1. \/ \E q \in Request :
             /\ ledger[q] # None
             /\ Cooling(ledger[q], proc[c].fingerprint.cohort, proc[c].at)
             /\ d = [job |-> ledger[q].job, submittedAt |-> ledger[q].submittedAt,
                     cooldownUntil |-> ledger[q].cooldownUntil]
        \/ \E i \in DOMAIN jobs :
             /\ Cooling(jobs[i], proc[c].fingerprint.cohort, proc[c].at)
             /\ d = [job |-> i, submittedAt |-> jobs[i].submittedAt,
                     cooldownUntil |-> jobs[i].cooldownUntil]
    BY DEF ActiveDedupe
  <2> QED BY <2>1 DEF Cooling, IInv, LedgerIsConsistent, LedgerMatchesJob
<1>4. jobs[d.job].request # proc[c].request
  BY <1>1, <1>3 DEF Recoverable
<1>5. /\ row \in LedgerRow /\ row.principal = proc[c].principal
      /\ row.fingerprint = proc[c].fingerprint /\ row.job = d.job
      /\ row.disposition # "accepted" /\ row.cooldownUntil = d.cooldownUntil
  <2>1. d.job \in Nat /\ d.cooldownUntil \in Nat
    BY <1>3, JobFacts
  <2> QED BY <1>1, <2>1, SubmitFacts DEF LedgerRow
<1>6. RecordRow(c, row)
  BY <1>2
<1> HIDE DEF row, prior
<1> QED BY <1>1, <1>3, <1>4, <1>5, <1>6, SubmitFacts, RecordRowInv

(* The row of a job that was just committed: nobody wrote in between.      *)
LEMMA RecordJobInv ==
  ASSUME IInv, NEW c \in Caller, RecordJob(c)
  PROVE  IInv'
<1> DEFINE row == [principal |-> proc[c].principal,
                   fingerprint |-> proc[c].fingerprint,
                   job |-> Len(jobs), disposition |-> "accepted",
                   submittedAt |-> proc[c].at,
                   cooldownUntil |-> proc[c].at + Cooldown]
           job == [request |-> proc[c].request, principal |-> proc[c].principal,
                   fingerprint |-> proc[c].fingerprint,
                   submittedAt |-> proc[c].at,
                   cooldownUntil |-> proc[c].at + Cooldown]
<1>1. /\ proc[c].pc = "enqueued" /\ RecordRow(c, row) /\ lock' = None
  BY DEF RecordJob
<1>2. /\ proc[c].request \in Request /\ proc[c].principal \in Principal
      /\ proc[c].fingerprint \in Fingerprint /\ proc[c].at \in Nat
      /\ lock = c /\ jobs # <<>> /\ ledger[proc[c].request] = None
      /\ jobs[Len(jobs)] = job
  BY <1>1, CallerFacts DEF ProcessIsSound, Process
<1>3. Len(jobs) \in DOMAIN jobs
  BY <1>2, JobFacts, EmptySeq
<1>4. /\ jobs[Len(jobs)].request = proc[c].request
      /\ jobs[Len(jobs)].principal = proc[c].principal
      /\ jobs[Len(jobs)].fingerprint = proc[c].fingerprint
      /\ jobs[Len(jobs)].cooldownUntil = proc[c].at + Cooldown
  BY <1>2
<1>5. /\ row \in LedgerRow /\ row.principal = proc[c].principal
      /\ row.fingerprint = proc[c].fingerprint /\ row.job = Len(jobs)
      /\ row.disposition = "accepted" /\ row.cooldownUntil = proc[c].at + Cooldown
  BY <1>2, JobFacts, DurationAssumption DEF LedgerRow
<1> HIDE DEF row, job
<1>6. OwnedBy(proc[c].request, proc[c].principal, proc[c].fingerprint)
  <2>1. jobs[Len(jobs)] \in MadeFor(proc[c].request)
    BY <1>3, <1>4 DEF MadeFor
  <2> QED BY <1>2, <1>4, <2>1, IdentityForm
          DEF OwnedBy, Owns, IInv, LedgerIsConsistent
<1> QED BY <1>1, <1>2, <1>3, <1>4, <1>5, <1>6, RecordRowInv

-----------------------------------------------------------------------------
(* A job is committed.                                                     *)

(* What the refusals before it leave: the cohort is not cooling, whether   *)
(* its jobs have their ledger rows or lost them to a crash.                *)
LEMMA CohortIsCool ==
  ASSUME IInv, NEW c \in Caller, Submitting(c), Unanswered(c),
         NEW i \in DOMAIN jobs,
         jobs[i].fingerprint.cohort = proc[c].fingerprint.cohort
  PROVE  jobs[i].submittedAt + Cooldown <= proc[c].at
<1> DEFINE C == proc[c].fingerprint.cohort
           at == proc[c].at
<1>1. /\ jobs[i].cooldownUntil \in Nat /\ at \in Nat
      /\ jobs[i].cooldownUntil = jobs[i].submittedAt + Cooldown
  BY JobFacts, SubmitFacts
<1>2. ActiveDedupe(C, at) = {}
  BY DEF Unanswered
<1>3. ~(jobs[i].cooldownUntil > at)
  <2>1. SUFFICES ASSUME jobs[i].cooldownUntil > at PROVE FALSE
    OBVIOUS
  <2>2. CASE Bound(i)
    <3>1. PICK r \in Request : ledger[r] # None /\ ledger[r].job = i
      BY <2>2 DEF Bound
    <3>2. /\ ledger[r].fingerprint.cohort = C
          /\ ledger[r].cooldownUntil > at
      BY <2>1, <3>1 DEF IInv, LedgerIsConsistent, LedgerMatchesJob
    <3>3. r \in {q \in Request : ledger[q] # None /\ Cooling(ledger[q], C, at)}
      BY <3>1, <3>2 DEF Cooling
    <3>4. [job |-> ledger[r].job, submittedAt |-> ledger[r].submittedAt,
           cooldownUntil |-> ledger[r].cooldownUntil] \in ActiveDedupe(C, at)
      BY <3>3 DEF ActiveDedupe
    <3> QED BY <1>2, <3>4
  <2>3. CASE ~Bound(i)
    <3>1. i \in {k \in DOMAIN jobs : ~Bound(k) /\ Cooling(jobs[k], C, at)}
      BY <2>1, <2>3 DEF Cooling
    <3>2. [job |-> i, submittedAt |-> jobs[i].submittedAt,
           cooldownUntil |-> jobs[i].cooldownUntil] \in ActiveDedupe(C, at)
      BY <3>1 DEF ActiveDedupe
    <3> QED BY <1>2, <3>2
  <2> QED BY <2>2, <2>3
<1> QED BY <1>1, <1>3

(* A token that is used past the limit is valid and the host released it.  *)
LEMMA TokenIsApproved ==
  ASSUME IInv, NEW c \in Caller, Submitting(c), Confirmed(c)
  PROVE  LET r == proc[c].request
         IN  /\ confirmation[r] # None
             /\ proc[c].at \in confirmation[r].issuedAt..(confirmation[r].expiresAt - 1)
             /\ events[r] # <<>>
             /\ \A n \in DOMAIN events[r] : events[r][n].decision = "approve"
<1> DEFINE r == proc[c].request
<1>1. /\ r \in Request /\ proc[c].at \in Nat /\ proc[c].token
      /\ confirmation[r] # None /\ confirmation[r].expiresAt > proc[c].at
  BY SubmitFacts DEF Confirmed
<1>2. confirmation[r].issuedAt \in Nat /\ confirmation[r].expiresAt \in Nat
  <2>1. confirmation[r] \in ConfirmationRow
    BY <1>1 DEF IInv, LedgerIsConsistent, TypeOK
  <2> QED BY <2>1 DEF ConfirmationRow
<1>3. HostApproved(r) /\ confirmation[r].issuedAt <= proc[c].at
  BY <1>1, CallerFacts DEF ProcessIsSound, Submitting
<1>4. \A n \in DOMAIN events[r] : events[r][n].decision = "approve"
  BY <1>1, <1>3 DEF HostApproved, IInv, DecisionIsFinal
<1> QED BY <1>1, <1>2, <1>3, <1>4 DEF HostApproved

LEMMA EnqueueJobInv ==
  ASSUME IInv, NEW c \in Caller, EnqueueJob(c)
  PROVE  IInv'
<1> DEFINE r == proc[c].request
           job == [request |-> r, principal |-> proc[c].principal,
                   fingerprint |-> proc[c].fingerprint,
                   submittedAt |-> proc[c].at,
                   cooldownUntil |-> proc[c].at + Cooldown]
           N == Len(jobs)
<1>1. /\ Submitting(c) /\ IdentityHolds(c) /\ Unanswered(c)
      /\ NeedsConfirmation(c) => Confirmed(c)
      /\ jobs' = Append(jobs, job)
      /\ proc' = [proc EXCEPT ![c].pc = "enqueued"]
      /\ lock' = c /\ lock = None /\ proc[c].pc = "submit"
      /\ UNCHANGED <<now, ledger, confirmation, approval, events>>
  BY DEF EnqueueJob, Submitting
<1>2. /\ r \in Request /\ proc[c].principal \in Principal
      /\ proc[c].fingerprint \in Fingerprint /\ proc[c].at \in Nat
      /\ proc[c].at + Cooldown \in Nat
      /\ ledger[r] = None /\ Recoverable(r) = {}
      /\ OwnedBy(r, proc[c].principal, proc[c].fingerprint)
  BY <1>1, SubmitFacts, DurationAssumption DEF Unanswered
<1>3. /\ job \in Job /\ job.request = r /\ job.principal = proc[c].principal
      /\ job.fingerprint = proc[c].fingerprint /\ job.submittedAt = proc[c].at
      /\ job.cooldownUntil = proc[c].at + Cooldown
  BY <1>2 DEF Job
<1> HIDE DEF job
<1>4. /\ jobs' \in Seq(Job) /\ Len(jobs') = N + 1 /\ N \in Nat
      /\ DOMAIN jobs = 1..N /\ DOMAIN jobs' = 1..(N + 1)
      /\ jobs'[N + 1] = job
      /\ \A i \in 1..N : jobs'[i] = jobs[i]
  BY <1>1, <1>3, JobFacts, AppendProperties
<1>5. \A i \in DOMAIN jobs' : \/ i \in DOMAIN jobs /\ jobs'[i] = jobs[i]
                              \/ i = N + 1 /\ jobs'[i] = job
  BY <1>4
<1> DEFINE P == [proc[c] EXCEPT !.pc = "enqueued"]
<1>6. /\ P \in Process /\ proc' = [proc EXCEPT ![c] = P] /\ proc'[c] = P
      /\ P.pc = "enqueued" /\ P.request = r /\ P.principal = proc[c].principal
      /\ P.fingerprint = proc[c].fingerprint /\ P.at = proc[c].at
      /\ P.token = proc[c].token
  BY <1>1, CallerFacts, ZenonT(60) DEF Process
<1> HIDE DEF P
<1>7. TypeOK'
  <2>1. proc' \in [Caller -> Process]
    BY <1>6, CallerFacts
  <2> QED BY <1>1, <1>4, <2>1 DEF IInv, LedgerIsConsistent, TypeOK
<1>8. OneJobPerRequest'
  <2>1. \A i \in DOMAIN jobs : jobs[i].request # r
    BY <1>2 DEF Recoverable
  <2> QED BY <1>3, <1>5, <2>1 DEF IInv, LedgerIsConsistent, OneJobPerRequest
<1>9. IdentityIsBound'
  <2>1. ASSUME NEW q \in Request, NEW a \in (RowsOf(q) \cup MadeFor(q))',
               NEW b \in (RowsOf(q) \cup MadeFor(q))'
        PROVE  a.principal = b.principal /\ a.fingerprint = b.fingerprint
    <3>1. RowsOf(q)' = RowsOf(q)
      BY <1>1 DEF RowsOf
    <3>2. \A x \in MadeFor(q)' : x \in MadeFor(q) \/ (q = r /\ x = job)
      BY <1>3, <1>5 DEF MadeFor
    <3>3. CASE q # r
      BY <3>1, <3>2, <3>3, IdentityForm DEF IInv, LedgerIsConsistent
    <3>4. CASE q = r
      BY <1>2, <1>3, <3>1, <3>2, <3>4 DEF OwnedBy, Owns
    <3> QED BY <3>3, <3>4
  <2>2. (\A q \in Request : \A a, b \in RowsOf(q) \cup MadeFor(q) :
           a.principal = b.principal /\ a.fingerprint = b.fingerprint)'
    BY <2>1
  <2> QED BY <2>2 DEF IdentityIsBound, RowsOf, MadeFor
<1>10. LedgerMatchesJob'
  BY <1>1, <1>4 DEF IInv, LedgerIsConsistent, LedgerMatchesJob
<1>11. CooldownIsShared'
  <2>1. ASSUME NEW i \in DOMAIN jobs', NEW j \in DOMAIN jobs', i < j,
               jobs'[i].fingerprint.cohort = jobs'[j].fingerprint.cohort
        PROVE  jobs'[i].submittedAt + Cooldown <= jobs'[j].submittedAt
    <3>1. i \in 1..N /\ jobs'[i] = jobs[i]
      BY <1>4, <2>1
    <3>2. CASE j \in 1..N
      BY <1>4, <2>1, <3>1, <3>2 DEF IInv, CooldownIsShared
    <3>3. CASE j = N + 1
      <4>1. jobs[i].fingerprint.cohort = proc[c].fingerprint.cohort
        BY <1>3, <1>4, <2>1, <3>1, <3>3
      <4>2. jobs[i].submittedAt + Cooldown <= proc[c].at
        BY <1>1, <1>4, <3>1, <4>1, CohortIsCool
      <4> QED BY <1>3, <1>4, <3>1, <3>3, <4>2
    <3> QED BY <1>4, <3>2, <3>3
  <2> QED BY <2>1 DEF CooldownIsShared
<1>12. QuotaNeedsApproval'
  <2> DEFINE E(j) == {i \in 1..(j - 1) :
                        /\ jobs[i].fingerprint.cohort \in Quoted
                        /\ Day(jobs[i].submittedAt) = Day(jobs[j].submittedAt)}
             Approved(q, t) ==
                /\ confirmation[q] # None
                /\ t \in confirmation[q].issuedAt..(confirmation[q].expiresAt - 1)
                /\ events[q] # <<>>
                /\ \A n \in DOMAIN events[q] : events[q][n].decision = "approve"
             F(j) == {i \in 1..(j - 1) :
                        /\ jobs'[i].fingerprint.cohort \in Quoted
                        /\ Day(jobs'[i].submittedAt) = Day(jobs'[j].submittedAt)}
  <2>1. ASSUME NEW j \in DOMAIN jobs', jobs'[j].fingerprint.cohort \in Quoted,
               Cardinality(F(j)) >= DailyLimit
        PROVE  Approved(jobs'[j].request, jobs'[j].submittedAt)
    <3>1. CASE j \in 1..N
      <4>1. jobs'[j] = jobs[j] /\ F(j) = E(j)
        BY <1>4, <3>1
      <4>2. j \in DOMAIN jobs /\ jobs[j].fingerprint.cohort \in Quoted
            /\ Cardinality(E(j)) >= DailyLimit
        BY <1>4, <2>1, <3>1, <4>1
      <4>3. Approved(jobs[j].request, jobs[j].submittedAt)
        BY <4>2 DEF IInv, QuotaNeedsApproval
      <4> QED BY <4>1, <4>3
    <3>2. CASE j = N + 1
      <4>1. jobs'[j].request = r /\ jobs'[j].submittedAt = proc[c].at
            /\ jobs'[j].fingerprint = proc[c].fingerprint
        BY <1>3, <1>4, <3>2
      <4>2. F(j) = {i \in DOMAIN jobs :
                      /\ jobs[i].fingerprint.cohort \in Quoted
                      /\ Day(jobs[i].submittedAt) = Day(proc[c].at)}
        BY <1>4, <3>2, <4>1
      <4>3. NeedsConfirmation(c)
        BY <2>1, <4>1, <4>2 DEF NeedsConfirmation, JobsInDay
      <4>4. Approved(r, proc[c].at)
        BY <1>1, <4>3, TokenIsApproved
      <4> QED BY <4>1, <4>4
    <3> QED BY <1>4, <3>1, <3>2
  <2>2. ASSUME NEW j \in DOMAIN jobs'
        PROVE  jobs'[j].fingerprint.cohort \in Quoted /\ Cardinality(F(j)) >= DailyLimit
                  => Approved(jobs'[j].request, jobs'[j].submittedAt)
    BY <2>1, <2>2
  <2> QED BY <1>1, <2>2 DEF QuotaNeedsApproval, Day
<1>13. DecisionIsFinal' /\ InstantsAreStored'
  <2>1. \A i \in DOMAIN jobs' : jobs'[i].cooldownUntil = jobs'[i].submittedAt + Cooldown
    BY <1>3, <1>5, JobFacts
  <2> QED BY <1>1, <2>1 DEF IInv, DecisionIsFinal, InstantsAreStored
<1>14. ASSUME NEW q \in Caller PROVE ProcessIsSound(q)'
  <2>0. /\ now' \in Nat /\ now' >= now /\ proc[c].at <= now'
        /\ \A u \in Request : HostApproved(u) => HostApproved(u)'
    <3>0. now' = now /\ now \in Nat /\ proc[c].at <= now
      BY <1>1, CallerFacts DEF ProcessIsSound
    <3>1. now' \in Nat /\ now' >= now /\ proc[c].at <= now'
      BY <3>0
    <3>2. \A u \in Request : HostApproved(u) => HostApproved(u)'
      BY <1>1 DEF HostApproved
    <3> QED BY <3>1, <3>2
  <2>1. CASE q = c
    <3>1. jobs' # <<>> /\ jobs'[Len(jobs')] = job
      BY <1>4, EmptySeq
    <3>2. proc[c].token => /\ HostApproved(r) /\ confirmation[r] # None
      BY CallerFacts DEF ProcessIsSound
    <3> QED BY <1>1, <1>2, <1>6, <2>0, <2>1, <3>1, <3>2
            DEF ProcessIsSound, job
  <2>2. CASE q # c
    <3>1. proc'[q] = proc[q] /\ lock' # q /\ lock # q
      BY <1>1, <2>2, NoneAssumption DEF IInv, LedgerIsConsistent, TypeOK
    <3>2. proc[q].pc # "enqueued"
      BY <3>1, CallerFacts
    <3> QED BY <1>1, <2>0, <3>1, <3>2, OthersSound
  <2> QED BY <2>1, <2>2
<1> QED BY <1>7, <1>8, <1>9, <1>10, <1>11, <1>12, <1>13, <1>14
        DEF IInv, LedgerIsConsistent

-----------------------------------------------------------------------------
(* Confirmations and decisions.                                            *)

(* A confirmation is issued to the owner of the request, once.             *)
LEMMA IssueConfirmationInv ==
  ASSUME IInv, NEW c \in Caller, IssueConfirmation(c)
  PROVE  IInv'
<1> DEFINE r == proc[c].request
           row == [principal |-> proc[c].principal,
                   fingerprint |-> proc[c].fingerprint,
                   issuedAt |-> proc[c].at, expiresAt |-> proc[c].at + Ttl]
           P == [proc[c] EXCEPT !.pc = "bind", !.at = now]
<1>1. /\ Submitting(c) /\ IdentityHolds(c) /\ Unanswered(c) /\ ~proc[c].token
      /\ lock = None /\ lock' = None /\ proc[c].pc = "submit"
      /\ UNCHANGED <<now, jobs, ledger, approval, events>>
      /\ confirmation' = IF confirmation[r] # None THEN confirmation
                         ELSE [confirmation EXCEPT ![r] = row]
  BY DEF IssueConfirmation, Submitting
<1>2. /\ r \in Request /\ proc[c].principal \in Principal
      /\ proc[c].fingerprint \in Fingerprint /\ proc[c].at \in Nat
      /\ OwnedBy(r, proc[c].principal, proc[c].fingerprint)
  BY <1>1, SubmitFacts DEF Unanswered
<1>3. /\ row \in ConfirmationRow /\ row.principal = proc[c].principal
      /\ row.fingerprint = proc[c].fingerprint /\ row.issuedAt = proc[c].at
      /\ row.expiresAt = proc[c].at + Ttl
  BY <1>2, DurationAssumption DEF ConfirmationRow
<1>4. /\ P \in Process /\ proc' = [proc EXCEPT ![c] = P] /\ proc'[c] = P
      /\ P.pc = "bind" /\ P.request = r /\ P.principal = proc[c].principal
      /\ P.fingerprint = proc[c].fingerprint /\ P.at = now /\ ~P.token
  <2>1. proc[c] \in Process /\ proc \in [Caller -> Process] /\ now \in Nat
    BY CallerFacts
  <2>2. P \in Process /\ P.pc = "bind" /\ P.request = r
        /\ P.principal = proc[c].principal /\ P.fingerprint = proc[c].fingerprint
        /\ P.at = now /\ ~P.token
    BY <1>1, <2>1 DEF Process
  <2>3. proc' = [proc EXCEPT ![c] = P]
    BY <2>1 DEF IssueConfirmation
  <2> QED BY <2>1, <2>2, <2>3
<1>5. now \in Nat /\ proc[c].at <= now /\ now' = now
  BY <1>1, CallerFacts DEF ProcessIsSound
<1>6. confirmation \in [Request -> ConfirmationRow \cup {None}]
  BY DEF IInv, LedgerIsConsistent, TypeOK
<1> HIDE DEF row, P
<1>7. /\ confirmation' \in [Request -> ConfirmationRow \cup {None}]
      /\ \A q \in Request : confirmation[q] # None => confirmation'[q] = confirmation[q]
      /\ \A q \in Request : \/ confirmation'[q] = confirmation[q]
                            \/ q = r /\ confirmation'[q] = row
  BY <1>1, <1>2, <1>3, <1>6
<1>8. TypeOK'
  <2>1. proc' \in [Caller -> Process]
    BY <1>4, CallerFacts
  <2> QED BY <1>1, <1>7, <2>1 DEF IInv, LedgerIsConsistent, TypeOK
<1>9. IdentityIsBound'
  <2>1. ASSUME NEW q \in Request, NEW a \in (RowsOf(q) \cup MadeFor(q))',
               NEW b \in (RowsOf(q) \cup MadeFor(q))'
        PROVE  a.principal = b.principal /\ a.fingerprint = b.fingerprint
    <3>1. MadeFor(q)' = MadeFor(q)
      BY <1>1 DEF MadeFor
    <3>2. CASE confirmation'[q] = confirmation[q]
      <4>1. RowsOf(q)' = RowsOf(q)
        BY <1>1, <3>2 DEF RowsOf
      <4> QED BY <3>1, <4>1, IdentityForm DEF IInv, LedgerIsConsistent
    <3>3. CASE q = r /\ confirmation'[q] = row
      <4>1. \A x \in RowsOf(q)' : x \in RowsOf(q) \/ x = row
        BY <1>1, <3>3 DEF RowsOf
      <4> QED BY <1>2, <1>3, <3>1, <3>3, <4>1 DEF OwnedBy, Owns
    <3> QED BY <1>7, <3>2, <3>3
  <2>2. (\A q \in Request : \A a, b \in RowsOf(q) \cup MadeFor(q) :
           a.principal = b.principal /\ a.fingerprint = b.fingerprint)'
    BY <2>1
  <2> QED BY <2>2 DEF IdentityIsBound, RowsOf, MadeFor
<1>10. OneJobPerRequest' /\ LedgerMatchesJob' /\ CooldownIsShared' /\ DecisionIsFinal'
  <2>1. LedgerMatchesJob'
    BY <1>1 DEF IInv, LedgerIsConsistent, LedgerMatchesJob
  <2> QED BY <1>1, <2>1 DEF IInv, LedgerIsConsistent, OneJobPerRequest,
                            CooldownIsShared, DecisionIsFinal
<1>11. QuotaNeedsApproval'
  <2>1. \A j \in DOMAIN jobs : jobs[j].request \in Request
    BY JobFacts DEF Job
  <2> QED BY <1>1, <1>7, <2>1 DEF IInv, QuotaNeedsApproval, Day
<1>12. InstantsAreStored'
  BY <1>1, <1>3, <1>5, <1>7 DEF IInv, InstantsAreStored
<1>13. ASSUME NEW q \in Caller PROVE ProcessIsSound(q)'
  <2>1. CASE q = c
    BY <1>1, <1>2, <1>4, <1>5, <2>1, NoneAssumption DEF ProcessIsSound
  <2>2. CASE q # c
    <3>1. proc'[q] = proc[q] /\ lock' = lock /\ now' \in Nat /\ now' >= now
      BY <1>1, <1>4, <1>5, <2>2 DEF IInv, LedgerIsConsistent, TypeOK
    <3>2. \A u \in Request : HostApproved(u) => HostApproved(u)'
      BY <1>1 DEF HostApproved
    <3>3. lock' = q <=> lock = q
      BY <3>1
    <3>4. UNCHANGED <<jobs, ledger>>
      BY <1>1
    <3> QED BY <1>7, <3>1, <3>2, <3>3, <3>4, OthersSound
  <2> QED BY <2>1, <2>2
<1> QED BY <1>8, <1>9, <1>10, <1>11, <1>12, <1>13 DEF IInv, LedgerIsConsistent

(* A decision is recorded as the first event, and only repeated after it.  *)
LEMMA DecideInv ==
  ASSUME IInv, NEW c \in Caller, Decide(c)
  PROVE  IInv'
<1> DEFINE r == proc[c].request
           d == proc[c].decision
           first == \A n \in DOMAIN events[r] : events[r][n].type # "decision"
           e == [type |-> IF first THEN "decision" ELSE "replay", decision |-> d]
<1>1. /\ proc[c].pc = "decide" /\ lock = None /\ lock' = lock /\ lock # c
      /\ UNCHANGED <<now, jobs, ledger, confirmation, approval>>
      /\ r \in Request /\ proc[c].principal \in Principal
      /\ proc[c].fingerprint \in Fingerprint /\ d \in {"approve", "deny"}
      /\ now \in Nat /\ now' = now
  BY CallerFacts, NoneAssumption DEF Decide, ProcessIsSound, Process
<1>2. PICK t \in Readings(c) :
        /\ events' = IF Live(r, t) /\ NoConflict(r, d)
                     THEN [events EXCEPT ![r] = Append(@, e)] ELSE events
        /\ proc' = [proc EXCEPT ![c] =
                      IF (Live(r, t) /\ NoConflict(r, d)) /\ d = "approve"
                      THEN [@ EXCEPT !.pc = "recover", !.at = now]
                      ELSE Idle]
  BY DEF Decide
<1>3. CASE ~(Live(r, t) /\ NoConflict(r, d))
  <2>1. Finish(c) /\ events' = events
    BY <1>2, <1>3 DEF Finish
  <2>2. approval' \subseteq Request
    BY <1>1, CallerFacts
  <2>3. UNCHANGED <<now, jobs, ledger, confirmation, events>>
    BY <1>1, <2>1
  <2>4. lock' # c /\ lock' = lock
    BY <1>1
  <2> QED BY <2>1, <2>2, <2>3, <2>4, FinishInv
<1>4. CASE Live(r, t) /\ NoConflict(r, d)
  <2> DEFINE P == IF d = "approve" THEN [proc[c] EXCEPT !.pc = "recover", !.at = now]
                  ELSE Idle
             N == Len(events[r])
  <2>1. /\ e \in Event /\ e.decision = d
        /\ e.type = IF first THEN "decision" ELSE "replay"
    BY <1>1 DEF Event
  <2>2. events \in [Request -> Seq(Event)] /\ events[r] \in Seq(Event)
    BY <1>1 DEF IInv, LedgerIsConsistent, TypeOK
  <2>3. /\ events' = [events EXCEPT ![r] = Append(events[r], e)]
        /\ proc' = [proc EXCEPT ![c] = P]
    BY <1>1, <1>2, <1>4, CallerFacts
  <2>4. P \in Process /\ proc'[c] = P
    BY <1>1, <2>3, CallerFacts, IdleFacts, ZenonT(60) DEF Process
  <2>5. /\ events'[r] = Append(events[r], e) /\ events'[r] \in Seq(Event)
        /\ \A q \in Request : q # r => events'[q] = events[q]
    BY <1>1, <2>1, <2>2, <2>3
  <2> HIDE DEF e
  <2>6. /\ N \in Nat /\ DOMAIN events[r] = 1..N /\ DOMAIN events'[r] = 1..(N + 1)
        /\ events'[r][N + 1] = e /\ \A n \in 1..N : events'[r][n] = events[r][n]
        /\ events'[r] # <<>>
    <3>1. events'[r][N + 1] = e /\ Len(events'[r]) = N + 1
          /\ \A n \in 1..N : events'[r][n] = events[r][n]
      BY <2>1, <2>2, <2>5, AppendProperties
    <3> QED BY <2>2, <2>5, <3>1, EmptySeq
  <2>7. /\ \A n \in 1..N : events[r][n].type = "decision" <=> n = 1
        /\ \A n \in 1..N : events[r][n].decision = events[r][1].decision
    BY <1>1, <2>6 DEF IInv, DecisionIsFinal
  <2>8. N > 0 => /\ events[r][1].type = "decision" /\ events[r][1].decision = d
    <3>1. N > 0 => 1 \in 1..N
      BY <2>6
    <3> QED BY <1>4, <2>6, <2>7, <3>1 DEF NoConflict
  <2>9. first <=> N = 0
    <3>1. N = 0 => first
      BY <2>6
    <3>2. N > 0 => ~first
      <4>1. N > 0 => 1 \in DOMAIN events[r]
        BY <2>6
      <4> QED BY <2>8, <4>1
    <3> QED BY <2>6, <3>1, <3>2
  <2> HIDE DEF first
  <2>10. /\ e.type = "decision" <=> N + 1 = 1
         /\ \A n \in 1..(N + 1) : events'[r][n].decision = d
    <3>1. e.type = "decision" <=> N + 1 = 1
      BY <2>1, <2>6, <2>9
    <3>2. ASSUME NEW n \in 1..(N + 1) PROVE events'[r][n].decision = d
      <4>1. CASE n = N + 1
        BY <2>1, <2>6, <4>1
      <4>2. CASE n \in 1..N
        <5>1. N > 0 /\ events'[r][n] = events[r][n]
          BY <2>6, <4>2
        <5> QED BY <2>7, <2>8, <4>2, <5>1
      <4> QED BY <2>6, <4>1, <4>2
    <3> QED BY <3>1, <3>2
  <2>11. DecisionIsFinal'
    <3>1. ASSUME NEW q \in Request, NEW n \in DOMAIN events'[q]
          PROVE  /\ events'[q][n].type = "decision" <=> n = 1
                 /\ events'[q][n].decision = events'[q][1].decision
      <4>1. CASE q # r
        BY <2>5, <3>1, <4>1 DEF IInv, DecisionIsFinal
      <4>2. CASE q = r
        <5>1. n \in 1..(N + 1) /\ 1 \in 1..(N + 1)
          BY <2>6, <3>1, <4>2
        <5>2. events'[r][n].type = "decision" <=> n = 1
          <6>1. CASE n = N + 1
            BY <2>6, <2>10, <6>1
          <6>2. CASE n \in 1..N
            BY <2>6, <2>7, <6>2
          <6> QED BY <2>6, <5>1, <6>1, <6>2
        <5> QED BY <2>10, <4>2, <5>1, <5>2
      <4> QED BY <4>1, <4>2
    <3> QED BY <3>1 DEF DecisionIsFinal
  <2>12. TypeOK'
    <3>1. events' \in [Request -> Seq(Event)] /\ proc' \in [Caller -> Process]
      BY <2>2, <2>3, <2>4, <2>5, CallerFacts
    <3> QED BY <1>1, <3>1 DEF IInv, LedgerIsConsistent, TypeOK
  <2>13. \A q \in Request : HostApproved(q) => HostApproved(q)'
    <3>1. ASSUME NEW q \in Request, q = r, HostApproved(q) PROVE HostApproved(q)'
      <4>1. 1 \in 1..N
        <5>1. N # 0
          BY <2>2, <3>1, EmptySeq DEF HostApproved
        <5> QED BY <2>6, <5>1
      <4>2. events'[q] # <<>> /\ events'[q][1] = events[q][1]
        BY <2>6, <3>1, <4>1
      <4> QED BY <3>1, <4>2 DEF HostApproved
    <3>2. ASSUME NEW q \in Request, q # r, HostApproved(q) PROVE HostApproved(q)'
      BY <2>5, <3>2 DEF HostApproved
    <3> QED BY <3>1, <3>2
  <2>14. QuotaNeedsApproval'
    <3>1. \A j \in DOMAIN jobs : jobs[j].request \in Request
      BY JobFacts DEF Job
    <3>2. ASSUME NEW q \in Request, events[q] # <<>>,
                 \A n \in DOMAIN events[q] : events[q][n].decision = "approve"
          PROVE  /\ events'[q] # <<>>
                 /\ \A n \in DOMAIN events'[q] : events'[q][n].decision = "approve"
      <4>1. CASE q # r
        BY <2>5, <3>2, <4>1
      <4>2. CASE q = r
        <5>1. N # 0
          BY <2>2, <3>2, <4>2, EmptySeq
        <5>2. 1 \in 1..N
          BY <2>6, <5>1
        <5>3. d = "approve"
          BY <2>6, <2>8, <3>2, <4>2, <5>2
        <5> QED BY <2>6, <2>10, <4>2, <5>3
      <4> QED BY <4>1, <4>2
    <3> QED BY <1>1, <3>1, <3>2 DEF IInv, QuotaNeedsApproval, Day
  <2>15. /\ OneJobPerRequest' /\ LedgerMatchesJob' /\ CooldownIsShared'
         /\ IdentityIsBound' /\ InstantsAreStored'
    <3>1. LedgerMatchesJob'
      BY <1>1 DEF IInv, LedgerIsConsistent, LedgerMatchesJob
    <3>2. IdentityIsBound'
      BY <1>1 DEF IInv, LedgerIsConsistent, IdentityIsBound
    <3> QED BY <1>1, <3>1, <3>2 DEF IInv, LedgerIsConsistent, OneJobPerRequest,
                              CooldownIsShared, InstantsAreStored
  <2>16. ASSUME NEW q \in Caller PROVE ProcessIsSound(q)'
    <3>1. CASE q = c
      <4>1. CASE d = "approve"
        <5>1. /\ P.pc = "recover" /\ P.request = r /\ P.principal = proc[c].principal
              /\ P.fingerprint = proc[c].fingerprint /\ P.at = now /\ ~P.token
          <6>1. ~proc[c].token
            BY <1>1, CallerFacts DEF ProcessIsSound
          <6> QED BY <4>1, <6>1, CallerFacts DEF Process
        <5>2. events'[r] # <<>> /\ events'[r][1].decision = "approve"
          <6>1. 1 \in 1..(N + 1)
            BY <2>6
          <6> QED BY <2>6, <2>10, <4>1, <6>1
        <5> HIDE DEF P
        <5> QED BY <1>1, <2>4, <3>1, <5>1, <5>2 DEF ProcessIsSound, HostApproved
      <4>2. CASE d # "approve"
        <5>1. proc'[c] = Idle
          BY <2>4, <4>2
        <5> QED BY <1>1, <3>1, <5>1, IdleFacts DEF ProcessIsSound
      <4> QED BY <4>1, <4>2
    <3>2. CASE q # c
      <4>1. proc'[q] = proc[q] /\ now' \in Nat /\ now' >= now
        BY <1>1, <2>3, <3>2 DEF IInv, LedgerIsConsistent, TypeOK
      <4>2. UNCHANGED <<jobs, ledger>> /\ (lock' = q <=> lock = q)
        BY <1>1
      <4>3. \A u \in Request : confirmation[u] # None =>
                                  confirmation'[u] = confirmation[u]
        BY <1>1
      <4> QED BY <2>13, <4>1, <4>2, <4>3, OthersSound
    <3> QED BY <3>1, <3>2
  <2> QED BY <2>11, <2>12, <2>14, <2>15, <2>16 DEF IInv, LedgerIsConsistent
<1> QED BY <1>3, <1>4

-----------------------------------------------------------------------------

LEMMA NextInv ==
  ASSUME IInv, [Next]_vars
  PROVE  IInv'
<1>1. CASE UNCHANGED vars
  <2>1. TypeOK'
    BY <1>1 DEF IInv, LedgerIsConsistent, TypeOK, vars
  <2>2. now' \in Nat /\ now' >= now
    BY <1>1 DEF IInv, LedgerIsConsistent, TypeOK, vars
  <2>3. Tables'
    BY <1>1, <2>2, TablesKept, InvParts DEF vars
  <2>4. ASSUME NEW q \in Caller PROVE ProcessIsSound(q)'
    <3>1. \A r \in Request : HostApproved(r) => HostApproved(r)'
      BY <1>1 DEF HostApproved, vars
    <3> QED BY <1>1, <2>2, <3>1, OthersSound DEF vars
  <2> QED BY <2>1, <2>3, <2>4 DEF IInv, Tables, LedgerIsConsistent
<1>2. ASSUME NEW c \in Caller, Submit(c) PROVE IInv'
  BY <1>2, EndInv, RecoverJobInv, DeduplicateInv, IssueConfirmationInv,
     EnqueueJobInv DEF Submit
<1>3. ASSUME NEW c \in Caller,
             \/ RecordJob(c) \/ BindApproval(c) \/ Decide(c) \/ RecoverToken(c)
             \/ Resend(c) \/ Crash(c)
      PROVE  IInv'
  BY <1>3, RecordJobInv, EndInv, DecideInv, TokenInv
<1>4. ASSUME NEW c \in Caller, NEW r \in Request, NEW p \in Principal,
             NEW f \in Fingerprint, RequestRefresh(c, r, p, f)
      PROVE  IInv'
  BY <1>4, RequestRefreshInv
<1>5. ASSUME NEW c \in Caller, NEW r \in Request, NEW d \in {"approve", "deny"},
             ApproveRefresh(c, r, d)
      PROVE  IInv'
  BY <1>5, ApproveRefreshInv
<1> QED BY <1>1, <1>2, <1>3, <1>4, <1>5, TickInv DEF Next

(* The invariant of the ledger holds in every behaviour: whatever process  *)
(* dies between the job and its row, and however stale its clock reading.  *)
THEOREM Inductive == Spec => []IInv
<1>1. Init => IInv
  BY InitInv
<1>2. IInv /\ [Next]_vars => IInv'
  BY NextInv
<1> QED BY <1>1, <1>2, PTL DEF Spec

(* Jobs, ledger rows and confirmations tell one story: one job and one     *)
(* owner per request id, and rows that agree with the job they name.       *)
THEOREM LedgerConsistent == Spec => []LedgerIsConsistent
<1>1. IInv => LedgerIsConsistent
  BY DEF IInv
<1> QED BY <1>1, Inductive, PTL

(* Two jobs of one cohort are a cooldown apart, whatever crashed between   *)
(* them and however stale the anchors were.                                *)
THEOREM CooldownShared == Spec => []CooldownIsShared
<1>1. IInv => CooldownIsShared
  BY DEF IInv
<1> QED BY <1>1, Inductive, PTL

(* Past the daily limit a job exists only with a confirmation that was     *)
(* valid when it was submitted and that the host approved and never denied.*)
THEOREM QuotaApproved == Spec => []QuotaNeedsApproval
<1>1. IInv => QuotaNeedsApproval
  BY DEF IInv
<1> QED BY <1>1, Inductive, PTL

(* The first event of an approval decides and the others only repeat it.   *)
THEOREM DecisionFinal == Spec => []DecisionIsFinal
<1>1. IInv => DecisionIsFinal
  BY DEF IInv
<1> QED BY <1>1, Inductive, PTL

=============================================================================
