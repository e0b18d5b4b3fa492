----------------------------- MODULE AgentTurns ------------------------------
(***************************************************************************)
(* Turns of the agent runtime: the session registry, the HTTP handlers     *)
(* that start, cancel and approve, the run of a turn by app.execute, and   *)
(* the coordinators of cancellation and approval with the event hub.       *)
(*                                                                         *)
(* One Node process runs all of it.  An action is what runs between two    *)
(* awaits that wait for the outside (a request body, the model, a tool     *)
(* process, a timer); promise callbacks run before the next such event,    *)
(* which is what Settled is for.  Timers and expiries are steps that may   *)
(* come at any time.  A promise that rejects with nobody to handle it ends *)
(* the process (up).  Tool events are left out: they are projected with    *)
(* the outcome of their run, before its last event.                        *)
(***************************************************************************)
EXTENDS Integers, Sequences, FiniteSets

CONSTANTS
    Session, Approval,
    Turn,          \* turns, numbered in the order they are created
    Request,       \* POSTs to the approval route, in the order they come
    MaxSessions,   \* sessions a process holds at once
    MaxTurns,      \* turns a session may start
    None

ASSUME TurnsAssumption == MaxSessions \in Nat /\ MaxTurns \in Nat
ASSUME OrderAssumption == Turn \subseteq Nat /\ Request \subseteq Nat

VARIABLES
    up,            \* the process is running
    session,       \* SessionRegistry
    turn,          \* TurnContext, its runner state and where its run is
    registered,    \* CancelCoordinator.#activeTurns
    approval,      \* ApprovalCoordinator.#pending
    continuation,  \* ApprovalCoordinator.#continuations
    resolved,      \* turns whose prepared continuation has its outcome
    request,       \* POSTs to the approval route
    decisions,     \* #decisionTail: the decisions in the order they came
    hub,           \* SseHub and RecoveryStore
    facade         \* what the tool process did with approve_refresh

vars == <<up, session, turn, registered, approval, continuation, resolved,
          request, decisions, hub, facade>>

Terminals == {"completed", "cancelled", "failed"}
Running   == {"prompting", "resumed"}

Event == [turn : Turn, type : Terminals \cup {"started", "artifact"}]
         \cup [turn : Turn, type : {"required", "approve", "deny"},
               approval : Approval]

Continuation == [turn : Turn, prepared : BOOLEAN]

(* pc: "reading" its message, "booting" the model session, "prompting" it, *)
(* "parked" until an approval, "resumed" by one, "over".                   *)
TurnRecord ==
    [pc : {"new", "reading", "booting", "prompting", "parked", "resumed", "over"},
     session : Session \cup {None}, cancelled : BOOLEAN, late : BOOLEAN,
     state : {"running"} \cup Terminals, awaiting : BOOLEAN, artifact : BOOLEAN]

(* What SseHub keeps, and the RecoveryStore it writes.                     *)
Hub == [log : [Session -> Seq(Event)], terminals : SUBSET Turn,
        recovered : [Turn -> Terminals \cup {None}]]

ASSUME NoneAssumption ==
    None \notin Session \cup Turn \cup Approval \cup Continuation \cup Terminals
               \cup {"approve", "deny"}

TypeOK ==
    /\ up \in BOOLEAN
    /\ session \in [Session -> [status : {"none", "active", "expired", "gone"},
                                reserved : BOOLEAN, turns : 0 .. MaxTurns]]
    /\ turn \in [Turn -> TurnRecord]
    /\ registered \in [Session -> Turn \cup {None}]
    /\ approval \in [Approval -> [turn : Turn \cup {None}, expired : BOOLEAN,
                                  decision : {"approve", "deny", None}]]
    /\ continuation \in [Session -> Continuation \cup {None}]
    /\ resolved \subseteq Turn
    /\ request \in [Request -> [pc : {"new", "queued", "invoking", "waiting",
                                      "resumed", "done"},
                                approval : Approval \cup {None},
                                want : {"approve", "deny", None},
                                held : Continuation \cup {None}]]
    /\ decisions \in Seq(Request)
    /\ hub \in Hub
    /\ facade \in [Approval -> [applied : BOOLEAN, lost : BOOLEAN]]

Init ==
    /\ up = TRUE
    /\ session = [s \in Session |-> [status |-> "none", reserved |-> FALSE,
                                     turns |-> 0]]
    /\ turn = [t \in Turn |-> [pc |-> "new", session |-> None,
                               cancelled |-> FALSE, late |-> FALSE,
                               state |-> "running", awaiting |-> FALSE,
                               artifact |-> FALSE]]
    /\ registered = [s \in Session |-> None]
    /\ approval = [a \in Approval |-> [turn |-> None, expired |-> FALSE,
                                       decision |-> None]]
    /\ continuation = [s \in Session |-> None]
    /\ resolved = {}
    /\ request = [r \in Request |-> [pc |-> "new", approval |-> None,
                                     want |-> None, held |-> None]]
    /\ decisions = <<>>
    /\ hub = [log |-> [s \in Session |-> <<>>], terminals |-> {},
              recovered |-> [t \in Turn |-> None]]
    /\ facade = [a \in Approval |-> [applied |-> FALSE, lost |-> FALSE]]

-----------------------------------------------------------------------------

Active(s) == session[s].status = "active"

(* Mutant: the hub takes an event of a turn that has ended.                *)
MayEmitAlways(t) == TRUE

(* SseHub.emit throws SseProtocolError once the turn is terminal.          *)
MayEmit(t) == t \notin hub.terminals

(* SseHub.emit: append, and with a terminal event close the turn and make  *)
(* its recovery record, which needs a live session.                        *)
Emitted(h, s, event) ==
    [log       |-> [h.log EXCEPT ![s] = Append(@, event)],
     terminals |-> IF event.type \in Terminals
                   THEN h.terminals \cup {event.turn} ELSE h.terminals,
     recovered |-> IF event.type \in Terminals /\ Active(s)
                   THEN [h.recovered EXCEPT ![event.turn] = event.type]
                   ELSE h.recovered]

(* SessionRegistry.releaseTurn: it is not told which turn it releases.     *)
Released(s) == IF Active(s) THEN [session EXCEPT ![s].reserved = FALSE]
               ELSE session

ApprovalsOf(s) == {a \in Approval : approval[a].turn # None
                                    /\ turn[approval[a].turn].session = s}

IsAwaiting(s) == \E a \in ApprovalsOf(s) : approval[a].decision = None
                                           /\ ~approval[a].expired

Ready(held) == held.prepared => held.turn \in resolved

(* The callbacks of what already happened have run.                        *)
Settled ==
    /\ up
    /\ \A t \in Turn : turn[t].pc \in Running => ~turn[t].cancelled
    /\ \A r \in Request : request[r].pc = "waiting" => ~Ready(request[r].held)

Ev(t, type) == [turn |-> t, type |-> type]
EvA(t, type, a) == [turn |-> t, type |-> type, approval |-> a]

-----------------------------------------------------------------------------

(* POST /v1/sessions; expired sessions do not count.                       *)
CreateSession(s) ==
    /\ Settled
    /\ session[s].status = "none"
    /\ Cardinality({x \in Session : Active(x)}) < MaxSessions
    /\ session' = [session EXCEPT ![s].status = "active"]
    /\ UNCHANGED <<up, turn, registered, approval, continuation, resolved,
                   request, decisions, hub, facade>>

(* Idle expiry, or DELETE: the session is dropped, its turns are not.      *)
DropSession(s, how) ==
    /\ Settled
    /\ Active(s)
    /\ session' = [session EXCEPT ![s].status = how, ![s].reserved = FALSE]
    /\ UNCHANGED <<up, turn, registered, approval, continuation, resolved,
                   request, decisions, hub, facade>>

(* createTurn: reserveTurn, then the body is awaited.                      *)
CreateTurn(s, t) ==
    /\ Settled
    /\ Active(s)
    /\ ~session[s].reserved
    /\ session[s].turns < MaxTurns
    /\ turn[t].pc = "new" /\ \A u \in Turn : u < t => turn[u].pc # "new"
    /\ session' = [session EXCEPT ![s].reserved = TRUE, ![s].turns = @ + 1]
    /\ turn' = [turn EXCEPT ![t].pc = "reading", ![t].session = s]
    /\ UNCHANGED <<up, registered, approval, continuation, resolved, request,
                   decisions, hub, facade>>

(* Mutant: an invalid message keeps its reservation.                       *)
RefuseMessageOnly(t) ==
    /\ Settled
    /\ turn[t].pc = "reading"
    /\ turn' = [turn EXCEPT ![t].pc = "over"]
    /\ UNCHANGED <<up, session, registered, approval, continuation, resolved,
                   request, decisions, hub, facade>>

(* readMessage returns null.                                               *)
RefuseMessage(t) ==
    /\ Settled
    /\ turn[t].pc = "reading"
    /\ session' = Released(turn[t].session)
    /\ turn' = [turn EXCEPT ![t].pc = "over"]
    /\ UNCHANGED <<up, registered, approval, continuation, resolved, request,
                   decisions, hub, facade>>

(* readMessage throws (the connection breaks): nobody handles it.          *)
LoseMessage(t) ==
    /\ Settled
    /\ turn[t].pc = "reading"
    /\ up' = FALSE
    /\ UNCHANGED <<session, turn, registered, approval, continuation, resolved,
                   request, decisions, hub, facade>>

(* execute up to bootRuntime; without a session it throws before its try.  *)
Execute(t) ==
    /\ Settled
    /\ turn[t].pc = "reading"
    /\ turn' = [turn EXCEPT ![t].pc =
                  IF Active(turn[t].session) THEN "booting" ELSE "over"]
    /\ UNCHANGED <<up, session, registered, approval, continuation, resolved,
                   request, decisions, hub, facade>>

(* bootRuntime is done: onTurnCreated, then the prompt is sent.            *)
Boot(t) ==
    LET s == turn[t].session
    IN  /\ Settled
        /\ turn[t].pc = "booting"
        /\ turn' = [turn EXCEPT ![t].pc = "prompting"]
        /\ registered' = [registered EXCEPT ![s] = t]
        /\ continuation' = [continuation EXCEPT ![s] =
                              [turn |-> t, prepared |-> TRUE]]
        /\ hub' = Emitted(hub, s, Ev(t, "started"))
        /\ UNCHANGED <<up, session, approval, resolved, request, decisions,
                       facade>>

(* execute's catch and finally: turn.failed unless the turn has ended, and *)
(* the reservation goes unless the session awaits an approval.             *)
Fail(t) ==
    LET s == turn[t].session
    IN  /\ turn' = [turn EXCEPT ![t].pc = "over"]
        /\ hub' = IF MayEmit(t) THEN Emitted(hub, s, Ev(t, "failed")) ELSE hub
        /\ session' = IF IsAwaiting(s) THEN session ELSE Released(s)

BootFails(t) ==
    /\ Settled
    /\ turn[t].pc = "booting"
    /\ Fail(t)
    /\ UNCHANGED <<up, registered, approval, continuation, resolved, request,
                   decisions, facade>>

-----------------------------------------------------------------------------

(* A tool may be called and its result is charged: beforeTool,             *)
(* beforeToolCall and chargeAccumulators.                                  *)
ToolsOpen(t) ==
    /\ Settled
    /\ turn[t].pc \in Running
    /\ ~turn[t].late
    /\ ~turn[t].artifact

(* request_data_refresh answers approval_required.  The event goes out     *)
(* under the turn the session's continuation names.                        *)
RequireApproval(t, a) ==
    LET s == turn[t].session
        u == continuation[s].turn
    IN  /\ ToolsOpen(t)
        /\ approval[a].turn = None
        /\ approval' = [approval EXCEPT ![a].turn = t]
        /\ turn' = [turn EXCEPT ![t].awaiting = TRUE]
        /\ hub' = IF MayEmit(u)
                  THEN Emitted(hub, s, EvA(u, "required", a)) ELSE hub
        /\ UNCHANGED <<up, session, registered, continuation, resolved,
                       request, decisions, facade>>

(* request_data_refresh answers with a job instead.                        *)
AcceptRefresh(t) ==
    /\ ToolsOpen(t)
    /\ turn[t].awaiting
    /\ turn' = [turn EXCEPT ![t].awaiting = FALSE]
    /\ UNCHANGED <<up, session, registered, approval, continuation, resolved,
                   request, decisions, hub, facade>>

(* finalize_market_brief succeeds.                                         *)
Finalize(t) ==
    /\ ToolsOpen(t)
    /\ turn' = [turn EXCEPT ![t].artifact = TRUE]
    /\ UNCHANGED <<up, session, registered, approval, continuation, resolved,
                   request, decisions, hub, facade>>

(* turn-runner execute after the prompt: the state of its outcome.         *)
OutcomeOf(q) ==
    IF q.cancelled THEN "cancelled"
    ELSE IF q.awaiting THEN "running"
    ELSE IF q.artifact THEN "completed" ELSE "failed"

(* projectLifecycle of what the reducer gained with an outcome: the        *)
(* artifact, and the last event unless it is held back.                    *)
Projected(s, t, outcome, ends) ==
    LET shown == IF outcome = "completed"
                 THEN Emitted(hub, s, Ev(t, "artifact")) ELSE hub
    IN  IF outcome # "running" /\ ends
        THEN Emitted(shown, s, Ev(t, outcome)) ELSE shown

(* execute after runTurn: the continuation gets its outcome, the events    *)
(* are projected (nothing of a cancelled turn, no terminal event while the *)
(* session awaits an approval), and its finally.                           *)
FinishExecute(t, outcome) ==
    LET s    == turn[t].session
        same == continuation[s].turn = t
    IN  /\ turn[t].pc = "prompting"
        /\ turn' = [turn EXCEPT ![t].state = outcome,
                      ![t].pc = IF outcome = "running" THEN "parked" ELSE "over"]
        /\ resolved' = IF same THEN resolved \cup {t} ELSE resolved
        /\ continuation' = IF same THEN continuation
                           ELSE [continuation EXCEPT ![s] =
                                   [turn |-> t, prepared |-> FALSE]]
        /\ hub' = IF MayEmit(t) /\ outcome # "cancelled"
                  THEN Projected(s, t, outcome, ~IsAwaiting(s)) ELSE hub
        /\ session' = IF IsAwaiting(s) THEN session ELSE Released(s)
        /\ UNCHANGED <<up, registered, approval, request, decisions, facade>>

(* #dispatch after resumeTurn: the new events are projected; if one is     *)
(* refused, so is the turn.failed that reports it, and the decision's      *)
(* promise rejects.                                                        *)
FinishDispatch(t, outcome) ==
    LET s == turn[t].session
        r == Head(decisions)
    IN  /\ turn[t].pc = "resumed"
        /\ turn' = [turn EXCEPT ![t].state = outcome,
                      ![t].pc = IF outcome = "running" THEN "parked" ELSE "over"]
        /\ IF outcome # "running" /\ ~MayEmit(t)
           THEN /\ up' = FALSE
                /\ UNCHANGED <<hub, session, request, decisions>>
           ELSE /\ hub' = Projected(s, t, outcome, TRUE)
                /\ session' = Released(s)
                /\ request' = [request EXCEPT ![r].pc = "done"]
                /\ decisions' = Tail(decisions)
                /\ UNCHANGED up
        /\ UNCHANGED <<registered, approval, continuation, resolved, facade>>

(* The prompt returns, or a cancel won the race against it.                *)
EndPrompt(t) ==
    /\ up
    /\ turn[t].cancelled \/ Settled
    /\ FinishExecute(t, OutcomeOf(turn[t])) \/ FinishDispatch(t, OutcomeOf(turn[t]))

(* Mutant: the timer of runBeforeDeadline is not set for a resumed turn.   *)
DeadlineFiresOnce(t) ==
    /\ Settled
    /\ turn[t].late
    /\ FinishExecute(t, "failed")

(* runBeforeDeadline's timer wins.                                         *)
DeadlineFires(t) ==
    /\ Settled
    /\ turn[t].late
    /\ FinishExecute(t, "failed") \/ FinishDispatch(t, "failed")

(* The prompt throws: execute fails without an outcome, so a continuation  *)
(* that waits for it waits for ever; #dispatch reports it.                 *)
PromptThrows(t) ==
    /\ Settled
    /\ \/ /\ turn[t].pc = "prompting"
          /\ Fail(t)
          /\ UNCHANGED <<up, registered, approval, continuation, resolved,
                         request, decisions, facade>>
       \/ /\ turn[t].pc = "resumed"
          /\ turn' = [turn EXCEPT ![t].pc = "over"]
          /\ hub' = Emitted(hub, turn[t].session, Ev(t, "failed"))
          /\ session' = Released(turn[t].session)
          /\ request' = [request EXCEPT ![Head(decisions)].pc = "done"]
          /\ decisions' = Tail(decisions)
          /\ UNCHANGED <<up, registered, approval, continuation, resolved,
                         facade>>

-----------------------------------------------------------------------------

(* CancelCoordinator.cancel of the registered turn; any other turn is      *)
(* refused without effect.                                                 *)
Cancel(s, t) ==
    /\ Settled
    /\ Active(s)
    /\ registered[s] = t
    /\ turn' = [turn EXCEPT ![t].cancelled = TRUE]
    /\ hub' = IF MayEmit(t) THEN Emitted(hub, s, Ev(t, "cancelled")) ELSE hub
    /\ registered' = [registered EXCEPT ![s] = None]
    /\ session' = Released(s)
    /\ UNCHANGED <<up, approval, continuation, resolved, request, decisions,
                   facade>>

(* decideApproval: the body is read and the decision queues up.            *)
PostDecision(r, a, want) ==
    /\ Settled
    /\ request[r].pc = "new" /\ \A x \in Request : x < r => request[x].pc # "new"
    /\ approval[a].turn # None
    /\ Active(turn[approval[a].turn].session)
    /\ request' = [request EXCEPT ![r] = [pc |-> "queued", approval |-> a,
                                          want |-> want, held |-> None]]
    /\ decisions' = Append(decisions, r)
    /\ UNCHANGED <<up, session, turn, registered, approval, continuation,
                   resolved, hub, facade>>

(* Mutant: an approval is matched with whatever turn the session has.      *)
MatchesAnyTurn(s, a) == TRUE

(* refreshMatches, where the session has a continuation.                   *)
Matches(s, a) ==
    continuation[s] # None => continuation[s].turn = approval[a].turn

(* Mutant: decisions are not serialized.                                   *)
MayDecideAtOnce(r) == request[r].pc = "queued"

MayDecide(r) == request[r].pc = "queued" /\ r = Head(decisions)

Answer(r) ==
    /\ request' = [request EXCEPT ![r].pc = "done"]
    /\ decisions' = Tail(decisions)

(* #decide up to the launcher: refused, repeated, denied or to be invoked. *)
(* A denial whose turn has ended throws with the decision already taken.   *)
Decide(r) ==
    LET a == request[r].approval
        s == turn[approval[a].turn].session
        t == continuation[s].turn
        refused == \/ approval[a].expired
                   \/ ~Matches(s, a)
                   \/ approval[a].decision # None
    IN  /\ Settled
        /\ MayDecide(r)
        /\ \/ /\ refused
              /\ Answer(r)
              /\ UNCHANGED <<up, session, approval, hub>>
           \/ /\ ~refused
              /\ request[r].want = "approve"
              /\ request' = [request EXCEPT ![r].pc = "invoking",
                                            ![r].held = continuation[s]]
              /\ UNCHANGED <<up, session, approval, decisions, hub>>
           \/ /\ ~refused
              /\ request[r].want = "deny"
              /\ approval' = [approval EXCEPT ![a].decision = "deny"]
              /\ IF MayEmit(t)
                 THEN /\ hub' = Emitted(Emitted(hub, s, EvA(t, "deny", a)), s,
                                        Ev(t, "completed"))
                      /\ session' = Released(s)
                      /\ Answer(r)
                      /\ UNCHANGED up
                 ELSE /\ up' = FALSE
                      /\ UNCHANGED <<hub, session, request, decisions>>
        /\ UNCHANGED <<turn, registered, continuation, resolved, facade>>

(* approve_refresh fails or times out: the tool process may have done it.  *)
InvokeFails(r, applied) ==
    LET a == request[r].approval
    IN  /\ Settled
        /\ request[r].pc = "invoking"
        /\ facade' = [facade EXCEPT ![a].applied = @ \/ applied,
                                    ![a].lost = @ \/ applied]
        /\ Answer(r)
        /\ UNCHANGED <<up, session, turn, registered, approval, continuation,
                       resolved, hub>>

(* approve_refresh answers: the decision is taken, announced, and #dispatch*)
(* starts, unless the session or the approval is over by now; a turn past  *)
(* its deadline fails at once.                                             *)
InvokeAnswers(r) ==
    LET a == request[r].approval
        t == request[r].held.turn
        s == turn[t].session
        said == Emitted(hub, s, EvA(t, "approve", a))
    IN  /\ Settled
        /\ request[r].pc = "invoking"
        /\ facade' = [facade EXCEPT ![a].applied = TRUE]
        /\ approval' = [approval EXCEPT ![a].decision = "approve"]
        /\ CASE ~MayEmit(t) ->
                  /\ up' = FALSE
                  /\ UNCHANGED <<hub, session, request, decisions>>
             [] MayEmit(t) /\ (~Active(s) \/ approval[a].expired) ->
                  /\ hub' = said
                  /\ Answer(r)
                  /\ UNCHANGED <<up, session>>
             [] MayEmit(t) /\ Active(s) /\ ~approval[a].expired
                /\ turn[t].late ->
                  /\ hub' = Emitted(said, s, Ev(t, "failed"))
                  /\ session' = Released(s)
                  /\ Answer(r)
                  /\ UNCHANGED up
             [] OTHER ->
                  /\ hub' = said
                  /\ request' = [request EXCEPT ![r].pc = "waiting"]
                  /\ UNCHANGED <<up, session, decisions>>
        /\ UNCHANGED <<turn, registered, continuation, resolved>>

(* The outcome is there: resumeTurn prompts again, or returns it as it is  *)
(* when the turn is no longer running.                                     *)
Resume(r) ==
    LET t == request[r].held.turn
    IN  /\ up
        /\ request[r].pc = "waiting"
        /\ Ready(request[r].held)
        /\ IF turn[t].state = "running"
           THEN /\ turn' = [turn EXCEPT ![t].pc = "resumed",
                                        ![t].awaiting = FALSE]
                /\ request' = [request EXCEPT ![r].pc = "resumed"]
                /\ UNCHANGED <<session, decisions>>
           ELSE /\ session' = Released(turn[t].session)
                /\ Answer(r)
                /\ UNCHANGED turn
        /\ UNCHANGED <<up, registered, approval, continuation, resolved, hub,
                       facade>>

ApprovalExpires(a) ==
    /\ Settled
    /\ approval[a].turn # None
    /\ ~approval[a].expired
    /\ approval' = [approval EXCEPT ![a].expired = TRUE]
    /\ UNCHANGED <<up, session, turn, registered, continuation, resolved,
                   request, decisions, hub, facade>>

DeadlinePasses(t) ==
    /\ Settled
    /\ turn[t].pc \in Running \cup {"parked"}
    /\ ~turn[t].late
    /\ turn' = [turn EXCEPT ![t].late = TRUE]
    /\ UNCHANGED <<up, session, registered, approval, continuation, resolved,
                   request, decisions, hub, facade>>

-----------------------------------------------------------------------------

Next ==
    \/ \E s \in Session :
          \/ CreateSession(s)
          \/ \E how \in {"expired", "gone"} : DropSession(s, how)
          \/ \E t \in Turn : CreateTurn(s, t) \/ Cancel(s, t)
    \/ \E t \in Turn :
          \/ RefuseMessage(t) \/ LoseMessage(t) \/ Execute(t)
          \/ Boot(t) \/ BootFails(t)
          \/ \E a \in Approval : RequireApproval(t, a)
          \/ AcceptRefresh(t) \/ Finalize(t)
          \/ EndPrompt(t) \/ DeadlineFires(t) \/ PromptThrows(t)
          \/ DeadlinePasses(t)
    \/ \E r \in Request :
          \/ \E a \in Approval, want \in {"approve", "deny"} :
                PostDecision(r, a, want)
          \/ Decide(r) \/ InvokeAnswers(r) \/ Resume(r)
          \/ \E applied \in BOOLEAN : InvokeFails(r, applied)
    \/ \E a \in Approval : ApprovalExpires(a)

Spec == Init /\ [][Next]_vars

(* Timers fire and callbacks run.  Nothing is assumed of the model, the    *)
(* tools or the user.                                                      *)
Fairness == \A t \in Turn :
    /\ WF_vars(DeadlinePasses(t))
    /\ WF_vars(DeadlineFires(t))
    /\ WF_vars(turn[t].cancelled /\ EndPrompt(t))

FairSpec == Spec /\ Fairness /\ \A r \in Request : WF_vars(Resume(r))

-----------------------------------------------------------------------------

(* Whatever cancels, denials, late answers and deadlines race with each    *)
(* other, a turn has one terminal event and nothing comes after it.        *)
TerminalIsLast ==
    \A s \in Session : \A i, j \in 1 .. Len(hub.log[s]) :
        i < j /\ hub.log[s][i].type \in Terminals
           => hub.log[s][j].turn # hub.log[s][i].turn

(* turn.completed is only said of a turn that showed its artifact before,  *)
(* or whose refresh was denied.                                            *)
CompletedIsGrounded ==
    \A s \in Session : \A i \in 1 .. Len(hub.log[s]) :
        hub.log[s][i].type = "completed"
           => \E j \in 1 .. i - 1 :
                 /\ hub.log[s][j].turn = hub.log[s][i].turn
                 /\ hub.log[s][j].type \in {"artifact", "deny"}

(* What GET turn recovers is what the stream said, not what came first.    *)
RecoveryMatchesStream ==
    \A t \in Turn : hub.recovered[t] # None =>
        \E i \in 1 .. Len(hub.log[turn[t].session]) :
            hub.log[turn[t].session][i] = Ev(t, hub.recovered[t])

(* A decision is announced in the turn that asked for it, and the data     *)
(* plane was only told to approve what was not denied, unless its answer   *)
(* was lost.                                                               *)
DecisionsReachTheirTurn ==
    /\ \A s \in Session : \A i \in 1 .. Len(hub.log[s]) :
          hub.log[s][i].type \in {"approve", "deny"}
             => approval[hub.log[s][i].approval].turn = hub.log[s][i].turn
    /\ \A a \in Approval : facade[a].applied /\ approval[a].decision = "deny"
                              => facade[a].lost

(* The stream of a session is one a client can follow: every turn has one  *)
(* end, said last, and completed only with its artifact or a denial; and   *)
(* the recovery summary says of the session what its stream says.          *)
StreamsAreConsistent ==
    TypeOK /\ TerminalIsLast /\ CompletedIsGrounded /\ RecoveryMatchesStream

KeepsDecisions ==
    \A a \in Approval : approval[a].decision # None
        => approval'[a].decision = approval[a].decision

(* An approval that is decided stays decided as it was, also when two      *)
(* opposite requests overlap the call to the tool process.                 *)
DecisionsAreFinal == [][KeepsDecisions]_vars

(* While no approval is involved, a session is not left reserved with no   *)
(* turn that will release it.                                              *)
ReservationsEnd ==
    \A s \in Session : up /\ session[s].reserved /\ ApprovalsOf(s) = {}
        => \E t \in Turn : /\ turn[t].session = s
                           /\ turn[t].pc \in {"reading", "booting", "prompting"}

(* A prompt, first or resumed, ends by its deadline even if the model and  *)
(* the tools never answer.                                                 *)
PromptsAreBounded ==
    \A t \in Turn : []<>(~up \/ turn[t].pc \notin Running)

Live(t) == turn[t].pc \in {"reading", "booting", "prompting", "resumed"}

(* The design: a session has one active turn, and a prompt that comes      *)
(* while a turn runs is refused.                                           *)
OneActiveTurn ==
    \A t, u \in Turn : Live(t) /\ Live(u) /\ turn[t].session = turn[u].session
                          => t = u

-----------------------------------------------------------------------------
(* The inductive invariant behind the safety properties above.             *)

Early  == {"new", "reading", "booting"}
Before == Early \cup {"prompting"}     \* its first run has no outcome yet

(* Turn t is one that was launched in session s.                           *)
Launched(s, t) == turn[t].session = s /\ turn[t].pc \notin Early

TurnIsSound(t) ==
    /\ turn[t].pc = "new" <=> turn[t].session = None
    /\ turn[t].pc \in Before => turn[t].state = "running"
    /\ t \in resolved => turn[t].pc \notin Before
    /\ t \in hub.terminals => turn[t].pc \notin Early
    /\ turn[t].pc \in {"prompting", "parked", "resumed"}
          => continuation[turn[t].session] # None

(* What the coordinators know of a session is of turns launched in it.     *)
SessionIsSound(s) ==
    /\ session[s].reserved => Active(s)
    /\ registered[s] # None => Launched(s, registered[s])
    /\ continuation[s] # None =>
          /\ Launched(s, continuation[s].turn)
          /\ ~continuation[s].prepared
                => turn[continuation[s].turn].pc # "prompting"

ApprovalIsSound(a) ==
    /\ approval[a].turn # None =>
          /\ turn[approval[a].turn].pc \notin Early
          /\ continuation[turn[approval[a].turn].session] # None
    /\ facade[a].applied /\ ~facade[a].lost => approval[a].decision = "approve"

AtHead(r) == decisions # <<>> /\ Head(decisions) = r

(* Decisions are taken one after another: only the first in line is past   *)
(* the queue, and it holds the continuation of the turn that asked.        *)
RequestIsSound(r) ==
    LET q == request[r]
    IN  /\ q.pc # "new" => /\ q.approval # None
                           /\ approval[q.approval].turn # None
        /\ q.pc = "queued" => \E i \in 1 .. Len(decisions) : decisions[i] = r
        /\ q.pc \in {"invoking", "waiting", "resumed"} =>
              /\ AtHead(r)
              /\ q.held # None
              /\ q.held.turn = approval[q.approval].turn
              /\ ~q.held.prepared => turn[q.held.turn].pc # "prompting"
        /\ up /\ q.pc = "invoking" => approval[q.approval].decision = None

(* A turn that waits to be resumed has not ended, unless it was cancelled, *)
(* has its outcome, or threw and will never have one.                      *)
WaiterIsSound(r) ==
    LET q == request[r]
        t == q.held.turn
    IN  q.pc = "waiting" /\ t \in hub.terminals /\ ~turn[t].cancelled =>
            \/ turn[t].state # "running"
            \/ turn[t].pc = "over" /\ q.held.prepared /\ t \notin resolved

(* A turn that is resumed has not ended unless it was cancelled, and the   *)
(* decision that resumed it is still the first in line.                    *)
ResumedIsSound(t) ==
    turn[t].pc = "resumed" =>
        /\ t \in hub.terminals => turn[t].cancelled
        /\ \E r \in Request : /\ AtHead(r)
                              /\ request[r].pc = "resumed"
                              /\ request[r].held.turn = t

(* Event i of the stream log of session s, where ends are the turns that   *)
(* have ended, trn says what turns there are and app who asked for what.   *)
EventIsSound(log, i, s, ends, trn, app) ==
    /\ trn[log[i].turn].session = s
    /\ log[i].type \in Terminals => log[i].turn \in ends
    /\ log[i].type \in {"approve", "deny"} => app[log[i].approval].turn = log[i].turn
    /\ \A j \in 1 .. i - 1 : log[j].type \in Terminals => log[j].turn # log[i].turn
    /\ log[i].type = "completed" =>
          \E j \in 1 .. i - 1 : /\ log[j].turn = log[i].turn
                                /\ log[j].type \in {"artifact", "deny"}

LogIsSound(h, trn, app) ==
    \A s \in Session : \A i \in 1 .. Len(h.log[s]) :
        EventIsSound(h.log[s], i, s, h.terminals, trn, app)

RecordsAreSound(h, trn) ==
    \A t \in Turn : h.recovered[t] # None =>
        /\ t \in h.terminals
        /\ trn[t].session \in Session
        /\ \E i \in 1 .. Len(h.log[trn[t].session]) :
              h.log[trn[t].session][i] = Ev(t, h.recovered[t])

IInv ==
    /\ TypeOK
    /\ \A t \in Turn : TurnIsSound(t) /\ ResumedIsSound(t)
    /\ \A s \in Session : SessionIsSound(s)
    /\ \A a \in Approval : ApprovalIsSound(a)
    /\ \A r \in Request : RequestIsSound(r) /\ WaiterIsSound(r)
    /\ LogIsSound(hub, turn, approval)
    /\ RecordsAreSound(hub, turn)
    /\ ReservationsEnd

=============================================================================
