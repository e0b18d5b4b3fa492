---------------------------- MODULE HostThrottle -----------------------------
(***************************************************************************)
(* The durable per-host request gate: the host_throttle table, the two     *)
(* store operations permit_host and record_host_response, and the loop of  *)
(* acquire and acquire_to_artifact that uses them around each HTTP hop.    *)
(*                                                                         *)
(* Each store operation is one transaction, but the gate reads the clock   *)
(* before it, and the request, its response and its recording are separate *)
(* steps: another process may be permitted, answered or blocked between    *)
(* them, and a process may die with a response it has not recorded.        *)
(***************************************************************************)
EXTENDS Integers, FiniteSets

CONSTANTS
    Host,          \* rate_limit_group values
    Acquirer,      \* processes with an acquisition to make
    Interval,      \* _HOST_PERMIT_INTERVAL
    RetryAfter,    \* seconds a 429 may ask for, 0 for a date in the past
    Horizon,       \* the last instant a datetime can represent
    MaxRedirects,  \* policy.max_redirects
    MaxTime,       \* bound: the clock stops here
    None           \* SQL NULL, and no host

ASSUME ThrottleAssumption ==
    /\ Interval \in Nat \ {0}
    /\ RetryAfter \subseteq Nat
    /\ Horizon \in Nat /\ MaxRedirects \in Nat /\ MaxTime \in Nat

Row == [nextAllowed : Nat, blockedUntil : Nat \cup {None}]

(* What the code tells apart in a response: a 429 with its Retry-After (or *)
(* none), a redirect, or anything else.                                    *)
Response == [kind : {"throttled"}, retryAfter : RetryAfter \cup {None}]
            \cup [kind : {"redirect"}, to : Host]
            \cup [kind : {"done"}]

ASSUME NoneAssumption == /\ None \notin Host
                         /\ None \notin Nat
                         /\ None \notin Row
                         /\ None \notin Response

VARIABLES
    now,
    throttle,   \* host_throttle by host, None before the first INSERT
    acquirer,   \* where each acquisition is
    lastPermit, \* history: the anchor of the last paced permit of a host
    deadline    \* history: the latest Retry-After deadline ever recorded

gateVars == <<now, throttle, acquirer, lastPermit, deadline>>

(* pc "clock": about to read the clock for permit; "permit": it has, in at; *)
(* "open": the request may be sent; "answered": the response is there;     *)
(* "record": the clock is read for record_response.                        *)
AcquirerState ==
    [pc : {"idle", "clock", "permit", "open", "answered", "record"},
     host : Host \cup {None}, permitted : SUBSET Host, redirects : Nat,
     response : Response \cup {None}, at : Nat]

Idle == [pc |-> "idle", host |-> None, permitted |-> {}, redirects |-> 0,
         response |-> None, at |-> 0]

GateTypeOK ==
    /\ now \in Nat
    /\ throttle \in [Host -> Row \cup {None}]
    /\ acquirer \in [Acquirer -> AcquirerState]
    /\ lastPermit \in [Host -> Nat \cup {None}]
    /\ deadline \in [Host -> Nat]

GateInit ==
    /\ now = 0
    /\ throttle = [h \in Host |-> None]
    /\ acquirer = [a \in Acquirer |-> Idle]
    /\ lastPermit = [h \in Host |-> None]
    /\ deadline = [h \in Host |-> 0]

-----------------------------------------------------------------------------

Later(a, b) == IF a >= b THEN a ELSE b

(* _latest_timestamp of two timestamps either of which may be NULL.        *)
Latest(a, b) == IF a = None THEN b ELSE IF b = None THEN a ELSE Later(a, b)

(* _retry_after_deadline: a delay that no datetime can hold is no deadline.*)
RetryUntil(response, at) ==
    IF /\ response.kind = "throttled"
       /\ response.retryAfter # None
       /\ at + response.retryAfter <= Horizon
    THEN at + response.retryAfter ELSE None

StillAhead(t, at) == t # None /\ t > at

Blocked(h, at) == throttle[h] # None /\ StillAhead(throttle[h].blockedUntil, at)

(* Mutant: a continuation is let through before the block is looked at.    *)
RefusesPacedOnly(h, at, continuation) ==
    /\ throttle[h] # None
    /\ ~continuation
    /\ Blocked(h, at) \/ throttle[h].nextAllowed > at

Refuses(h, at, continuation) ==
    /\ throttle[h] # None
    /\ Blocked(h, at) \/ (~continuation /\ throttle[h].nextAllowed > at)

Reservation(h, at) ==
    [nextAllowed |-> at + Interval,
     blockedUntil |-> IF throttle[h] = None THEN None
                      ELSE throttle[h].blockedUntil]

(* Mutant: an answer drops the reservation of the next request.            *)
RecordedNoPacing(h, response, at) ==
    LET kept  == IF Blocked(h, at) THEN throttle[h].blockedUntil ELSE None
        block == Latest(kept, RetryUntil(response, at))
    IN  [nextAllowed |-> Latest(at, block), blockedUntil |-> block]

(* What record_host_response stores: the later of a block still in force   *)
(* and the one just received, and never an earlier next_allowed_at.        *)
Recorded(h, response, at) ==
    LET kept  == IF Blocked(h, at) THEN throttle[h].blockedUntil ELSE None
        block == Latest(kept, RetryUntil(response, at))
        next  == IF /\ throttle[h] # None
                    /\ StillAhead(throttle[h].nextAllowed, at)
                 THEN throttle[h].nextAllowed ELSE at
    IN  [nextAllowed |-> Latest(next, block), blockedUntil |-> block]

-----------------------------------------------------------------------------

(* acquire, with continuation_hosts: hosts of an artifact this workflow    *)
(* selected just before (acquire_to_artifact), or none.                    *)
Acquire(a, h, continued) ==
    /\ acquirer[a].pc = "idle"
    /\ \A c \in continued : throttle[c] # None
    /\ acquirer' = [acquirer EXCEPT ![a] =
                      [Idle EXCEPT !.pc = "clock", !.host = h,
                                   !.permitted = continued]]
    /\ UNCHANGED <<now, throttle, lastPermit, deadline>>

(* HostThrottleGate._now, for permit or for record_response.               *)
ReadClock(a) ==
    /\ acquirer[a].pc \in {"clock", "answered"}
    /\ acquirer' = [acquirer EXCEPT
                      ![a].pc = IF @ = "clock" THEN "permit" ELSE "record",
                      ![a].at = now]
    /\ UNCHANGED <<now, throttle, lastPermit, deadline>>

(* permit_host: HostThrottleBlocked ends the acquisition; a continuation   *)
(* reserves nothing, except in the INSERT of a host's first row.           *)
Permit(a) ==
    LET h  == acquirer[a].host
        at == acquirer[a].at
        continuation == h \in acquirer[a].permitted
        paced == throttle[h] = None \/ ~continuation
    IN  /\ acquirer[a].pc = "permit"
        /\ IF Refuses(h, at, continuation)
           THEN /\ acquirer' = [acquirer EXCEPT ![a] = Idle]
                /\ UNCHANGED <<throttle, lastPermit>>
           ELSE /\ acquirer' = [acquirer EXCEPT ![a].pc = "open", ![a].at = 0,
                                   ![a].permitted = @ \cup {h}]
                /\ throttle' = IF paced
                               THEN [throttle EXCEPT ![h] = Reservation(h, at)]
                               ELSE throttle
                /\ lastPermit' = IF paced
                                 THEN [lastPermit EXCEPT ![h] = at]
                                 ELSE lastPermit
        /\ UNCHANGED <<now, deadline>>

(* _open_once: the host answers, or the transport fails (Crash).           *)
Open(a, response) ==
    /\ acquirer[a].pc = "open"
    /\ acquirer' = [acquirer EXCEPT ![a].pc = "answered",
                                    ![a].response = response]
    /\ UNCHANGED <<now, throttle, lastPermit, deadline>>

(* A redirect: the loop starts again with the host it leads to.            *)
NextHop(q, h) == [pc |-> "clock", host |-> h, permitted |-> q.permitted,
                  redirects |-> q.redirects + 1, response |-> None, at |-> 0]

(* record_host_response, then what the loop does with the response: a      *)
(* blocked host raises, a redirect goes round again within the limit, and  *)
(* everything else returns or raises.                                      *)
RecordResponse(a) ==
    LET h == acquirer[a].host
        response == acquirer[a].response
        until == RetryUntil(response, acquirer[a].at)
    IN  /\ acquirer[a].pc = "record"
        /\ throttle' = [throttle EXCEPT
                          ![h] = Recorded(h, response, acquirer[a].at)]
        /\ deadline' = [deadline EXCEPT ![h] =
                           IF until = None THEN @ ELSE Later(@, until)]
        /\ acquirer' = [acquirer EXCEPT ![a] =
              IF response.kind = "redirect" /\ @.redirects < MaxRedirects
              THEN NextHop(@, response.to)
              ELSE Idle]
        /\ UNCHANGED <<now, lastPermit>>

(* The process dies or the transport raises: nothing is recorded.          *)
Crash(a) ==
    /\ acquirer[a].pc # "idle"
    /\ acquirer' = [acquirer EXCEPT ![a] = Idle]
    /\ UNCHANGED <<now, throttle, lastPermit, deadline>>

Tick ==
    /\ now < MaxTime
    /\ now' = now + 1
    /\ UNCHANGED <<throttle, acquirer, lastPermit, deadline>>

GateNext ==
    \/ \E a \in Acquirer :
          \/ \E h \in Host, continued \in SUBSET Host : Acquire(a, h, continued)
          \/ ReadClock(a)
          \/ Permit(a)
          \/ \E response \in Response : Open(a, response)
          \/ RecordResponse(a)
          \/ Crash(a)
    \/ Tick

GateSpec == GateInit /\ [][GateNext]_gateVars

-----------------------------------------------------------------------------

(* A Retry-After that was recorded is in the row until it is over: no late *)
(* answer of another request shortens it.  next_allowed_at never moves back*)
(* across it, nor below an interval after the last paced permit.           *)
ThrottleIsStored ==
    \A h \in Host :
        /\ lastPermit[h] # None <=> throttle[h] # None
        /\ throttle[h] = None => deadline[h] = 0
        /\ throttle[h] # None =>
              /\ throttle[h].nextAllowed >= lastPermit[h] + Interval
              /\ throttle[h].nextAllowed >= deadline[h]
              /\ throttle[h].blockedUntil # None =>
                    throttle[h].blockedUntil <= deadline[h]
        /\ deadline[h] > now => /\ throttle[h] # None
                                /\ throttle[h].blockedUntil = deadline[h]

(* An acquisition has a host and a clock reading of the past, and its host *)
(* a row once it was permitted.                                            *)
AcquirersAreInStep ==
    \A a \in Acquirer :
        LET q == acquirer[a]
        IN  /\ q.at <= now
            /\ q.pc # "idle" => q.host \in Host
            /\ q.pc \in {"open", "answered", "record"} => throttle[q.host] # None
            /\ q.pc \in {"answered", "record"} => q.response \in Response

GateInv == GateTypeOK /\ ThrottleIsStored /\ AcquirersAreInStep

Permitted(a) == acquirer[a].pc = "permit" /\ acquirer'[a].pc = "open"

(* permit_host never lets a request out, not even a redirect's later hop,  *)
(* while a recorded Retry-After of the host is in force, however old the   *)
(* clock reading it is called with.                                        *)
RetryAfterIsHonoured ==
    [][\A a \in Acquirer :
          Permitted(a) => deadline[acquirer[a].host] <= now]_gateVars

(* Requests that are not continuations are an interval apart by the clock  *)
(* readings that permit them, whichever processes make them and whatever   *)
(* was answered between them.                                              *)
RequestsArePaced ==
    [][\A a \in Acquirer :
          LET h == acquirer[a].host
          IN  Permitted(a) /\ h \notin acquirer[a].permitted
                 /\ lastPermit[h] # None
              => lastPermit[h] + Interval <= acquirer[a].at]_gateVars

=============================================================================
