------------------------- MODULE AgentTurns_proofs --------------------------
(***************************************************************************)
(* The invariant of AgentTurns and what follows from it, for any number of *)
(* sessions, turns, approvals and requests.                                *)
(*                                                                         *)
(* Several parties may end a turn, each after an await.  IInv says what    *)
(* each may rely on afterwards; the heart of it is that decisions are      *)
(* serialised, so that a turn which waits for one, or was resumed by one,  *)
(* cannot have ended behind its back unless it was cancelled.  The steps   *)
(* are grouped by what they move: a turn (StepInv), the head of the line   *)
(* of decisions (DecidingInv, AnsweredInv), or the process, which a throw  *)
(* outside of any handler ends (CrashInv).                                 *)
(***************************************************************************)
EXTENDS AgentTurns, TLAPS

-----------------------------------------------------------------------------
(* The event hub                                                           *)

LEMMA EventFacts ==
  /\ \A e \in Event : /\ e.turn \in Turn
                      /\ e.type \in {"approve", "deny"} => e.approval \in Approval
                      /\ e.type \in Terminals => e = Ev(e.turn, e.type)
  /\ \A t \in Turn, type \in Terminals \cup {"started", "artifact"} :
        Ev(t, type) \in Event /\ Ev(t, type).turn = t /\ Ev(t, type).type = type
  /\ \A t \in Turn, type \in {"required", "approve", "deny"}, a \in Approval :
        /\ EvA(t, type, a) \in Event
        /\ EvA(t, type, a).turn = t
        /\ EvA(t, type, a).type = type
        /\ EvA(t, type, a).approval = a
  <1>1. \A e \in Event : /\ e.turn \in Turn
                         /\ e.type \in {"approve", "deny"} => e.approval \in Approval
    BY DEF Event, Terminals
  <1>2. \A e \in Event : e.type \in Terminals => e = Ev(e.turn, e.type)
    BY DEF Event, Terminals, Ev
  <1>3. \A t \in Turn, type \in Terminals \cup {"started", "artifact"} :
        Ev(t, type) \in Event /\ Ev(t, type).turn = t /\ Ev(t, type).type = type
    BY DEF Event, Terminals, Ev
  <1>4. \A t \in Turn, type \in {"required", "approve", "deny"}, a \in Approval :
        /\ EvA(t, type, a) \in Event
        /\ EvA(t, type, a).turn = t
        /\ EvA(t, type, a).type = type
        /\ EvA(t, type, a).approval = a
    BY DEF Event, Terminals, EvA
  <1> QED BY <1>1, <1>2, <1>3, <1>4

(* What SseHub.emit changes: the session's log, the set of ended turns and *)
(* the recovery record of an active session's turn.                        *)
LEMMA EmittedFacts ==
  ASSUME NEW h \in Hub, NEW s \in Session, NEW e \in Event
  PROVE  /\ Emitted(h, s, e) \in Hub
         /\ Emitted(h, s, e).terminals =
              IF e.type \in Terminals THEN h.terminals \cup {e.turn}
              ELSE h.terminals
         /\ h.log[s] \in Seq(Event)
         /\ Emitted(h, s, e).log[s] = Append(h.log[s], e)
         /\ \A x \in Session : x # s => Emitted(h, s, e).log[x] = h.log[x]
         /\ \A t \in Turn : Emitted(h, s, e).recovered[t] =
              IF e.type \in Terminals /\ Active(s) /\ t = e.turn
              THEN e.type ELSE h.recovered[t]
  <1>1. e.turn \in Turn
    BY EventFacts
  <1> DEFINE log == [h.log EXCEPT ![s] = Append(@, e)]
             ends == IF e.type \in Terminals THEN h.terminals \cup {e.turn}
                     ELSE h.terminals
             rec == IF e.type \in Terminals /\ Active(s)
                    THEN [h.recovered EXCEPT ![e.turn] = e.type]
                    ELSE h.recovered
  <1>2. /\ h.log \in [Session -> Seq(Event)]
        /\ h.terminals \in SUBSET Turn
        /\ h.recovered \in [Turn -> Terminals \cup {None}]
    BY DEF Hub
  <1>3. Append(h.log[s], e) \in Seq(Event)
    BY <1>2
  <1>4. /\ log \in [Session -> Seq(Event)]
        /\ log[s] = Append(h.log[s], e)
        /\ \A x \in Session : x # s => log[x] = h.log[x]
    BY <1>2, <1>3
  <1>5. ends \in SUBSET Turn
    BY <1>1, <1>2
  <1>6. /\ rec \in [Turn -> Terminals \cup {None}]
        /\ \A t \in Turn : rec[t] = IF e.type \in Terminals /\ Active(s) /\ t = e.turn
                                    THEN e.type ELSE h.recovered[t]
    BY <1>1, <1>2
  <1> HIDE DEF log, ends, rec
  <1>7. Emitted(h, s, e) = [log |-> log, terminals |-> ends, recovered |-> rec]
    BY DEF Emitted, log, ends, rec
  <1>8. [log |-> log, terminals |-> ends, recovered |-> rec] \in Hub
    BY <1>4, <1>5, <1>6 DEF Hub
  <1>9. ends = IF e.type \in Terminals THEN h.terminals \cup {e.turn}
               ELSE h.terminals
    BY DEF ends
  <1> QED BY <1>2, <1>4, <1>6, <1>7, <1>8, <1>9

(* The streams and records of hub h are sound.                             *)
Streams(h, trn, app) == LogIsSound(h, trn, app) /\ RecordsAreSound(h, trn)

(* An event may be sent in session s: its turn is one of the session that  *)
(* has not ended, and what the event says is so.                           *)
MayBeSent(h, s, e) ==
    /\ e.turn \notin h.terminals
    /\ turn[e.turn].session = s
    /\ e.type \in {"approve", "deny"} => approval[e.approval].turn = e.turn
    /\ e.type = "completed" =>
          \E j \in 1 .. Len(h.log[s]) : /\ h.log[s][j].turn = e.turn
                                        /\ h.log[s][j].type \in {"artifact", "deny"}

(* Sending an event that may be sent keeps the streams sound.              *)
LEMMA EmittedIsSound ==
  ASSUME NEW h \in Hub, NEW s \in Session, NEW e \in Event,
         Streams(h, turn, approval), MayBeSent(h, s, e)
  PROVE  Streams(Emitted(h, s, e), turn, approval)
  <1> DEFINE g == Emitted(h, s, e)
             log == h.log[s]
  <1>1. /\ g \in Hub
        /\ g.terminals = IF e.type \in Terminals THEN h.terminals \cup {e.turn}
                         ELSE h.terminals
        /\ log \in Seq(Event)
        /\ g.log[s] = Append(log, e)
        /\ \A x \in Session : x # s => g.log[x] = h.log[x]
        /\ \A t \in Turn : g.recovered[t] =
              IF e.type \in Terminals /\ Active(s) /\ t = e.turn
              THEN e.type ELSE h.recovered[t]
    BY EmittedFacts
  <1>2. /\ Len(g.log[s]) = Len(log) + 1 /\ Len(log) \in Nat
        /\ g.log[s][Len(log) + 1] = e
        /\ \A i \in 1 .. Len(log) : g.log[s][i] = log[i]
    BY <1>1
  <1> HIDE DEF g, log
  <1>3. LogIsSound(g, turn, approval)
    <2> SUFFICES ASSUME NEW x \in Session, NEW i \in 1 .. Len(g.log[x])
                 PROVE  EventIsSound(g.log[x], i, x, g.terminals, turn, approval)
      BY DEF LogIsSound
    <2>1. h.terminals \subseteq g.terminals
      BY <1>1
    <2>2. CASE x # s
      <3>1. g.log[x] = h.log[x]
        BY <1>1, <2>2
      <3>2. EventIsSound(h.log[x], i, x, h.terminals, turn, approval)
        BY <3>1 DEF Streams, LogIsSound
      <3> QED BY <2>1, <3>1, <3>2 DEF EventIsSound
    <2>3. CASE x = s /\ i \in 1 .. Len(log)
      <3>1. g.log[x][i] = log[i] /\ \A j \in 1 .. i - 1 : g.log[x][j] = log[j]
        BY <1>2, <2>3
      <3>2. EventIsSound(log, i, s, h.terminals, turn, approval)
        BY <2>3 DEF Streams, LogIsSound, log
      <3> QED BY <2>1, <2>3, <3>1, <3>2 DEF EventIsSound
    <2>4. CASE x = s /\ i = Len(log) + 1
      <3>1. g.log[x][i] = e /\ i - 1 = Len(log)
        BY <1>2, <2>4
      <3>2. \A j \in 1 .. Len(log) : g.log[x][j] = log[j]
        BY <1>2, <2>4
      <3>3. \A j \in 1 .. Len(log) : log[j].type \in Terminals => log[j].turn # e.turn
        BY DEF Streams, LogIsSound, EventIsSound, MayBeSent, log
      <3>4. e.type \in Terminals => e.turn \in g.terminals
        BY <1>1
      <3>5. e.type = "completed" =>
               \E j \in 1 .. Len(log) : /\ log[j].turn = e.turn
                                         /\ log[j].type \in {"artifact", "deny"}
        BY DEF MayBeSent, log
      <3>6. /\ turn[e.turn].session = s
            /\ e.type \in {"approve", "deny"} => approval[e.approval].turn = e.turn
        BY DEF MayBeSent
      <3> QED BY <2>4, <3>1, <3>2, <3>3, <3>4, <3>5, <3>6 DEF EventIsSound
    <2> QED BY <1>2, <2>2, <2>3, <2>4
  <1>4. RecordsAreSound(g, turn)
    <2> SUFFICES ASSUME NEW t \in Turn, g.recovered[t] # None
                 PROVE  /\ t \in g.terminals
                        /\ turn[t].session \in Session
                        /\ \E i \in 1 .. Len(g.log[turn[t].session]) :
                              g.log[turn[t].session][i] = Ev(t, g.recovered[t])
      BY DEF RecordsAreSound
    <2>1. CASE e.type \in Terminals /\ Active(s) /\ t = e.turn
      <3>1. e = Ev(t, g.recovered[t])
        BY <1>1, <2>1, EventFacts
      <3>2. t \in g.terminals /\ turn[t].session = s
        BY <1>1, <2>1 DEF MayBeSent
      <3>3. Len(log) + 1 \in 1 .. Len(g.log[s])
        BY <1>2
      <3>4. \E i \in 1 .. Len(g.log[s]) : g.log[s][i] = Ev(t, g.recovered[t])
        BY <1>2, <3>1, <3>3
      <3> QED BY <3>2, <3>4
    <2>2. CASE ~(e.type \in Terminals /\ Active(s) /\ t = e.turn)
      <3>1. g.recovered[t] = h.recovered[t]
        BY <1>1, <2>2
      <3>2. /\ t \in h.terminals
            /\ turn[t].session \in Session
            /\ \E i \in 1 .. Len(h.log[turn[t].session]) :
                  h.log[turn[t].session][i] = Ev(t, g.recovered[t])
        BY <3>1 DEF Streams, RecordsAreSound
      <3>3. PICK i \in 1 .. Len(h.log[turn[t].session]) :
                  h.log[turn[t].session][i] = Ev(t, g.recovered[t])
        BY <3>2
      <3>4. i \in 1 .. Len(g.log[turn[t].session])
            /\ g.log[turn[t].session][i] = Ev(t, g.recovered[t])
        <4>1. CASE turn[t].session # s
          BY <1>1, <3>2, <3>3, <4>1
        <4>2. CASE turn[t].session = s
          <5>1. i \in 1 .. Len(log) /\ log[i] = Ev(t, g.recovered[t])
            BY <3>3, <4>2 DEF log
          <5> QED BY <1>2, <4>2, <5>1
        <4> QED BY <4>1, <4>2
      <3> QED BY <1>1, <3>2, <3>4
    <2> QED BY <2>1, <2>2
  <1> QED BY <1>3, <1>4 DEF Streams, g

(* What turns there are and who asked for an approval is not forgotten.    *)
Remembers ==
    /\ \A t \in Turn : turn[t].session # None => turn'[t].session = turn[t].session
    /\ \A a \in Approval : approval[a].turn # None
                              => approval'[a].turn = approval[a].turn

(* Streams stay sound in a step in which turns keep their sessions and     *)
(* approvals their turns.                                                  *)
LEMMA StreamsLast ==
  ASSUME NEW h \in Hub, Streams(h, turn, approval), Remembers
  PROVE  Streams(h, turn', approval')
  <1>1. /\ h.log \in [Session -> Seq(Event)]
        /\ h.recovered \in [Turn -> Terminals \cup {None}]
    BY DEF Hub
  <1>2. LogIsSound(h, turn', approval')
    <2> SUFFICES ASSUME NEW s \in Session, NEW i \in 1 .. Len(h.log[s])
                 PROVE  EventIsSound(h.log[s], i, s, h.terminals, turn', approval')
      BY DEF LogIsSound
    <2> DEFINE e == h.log[s][i]
    <2>1. EventIsSound(h.log[s], i, s, h.terminals, turn, approval)
      BY DEF LogIsSound, Streams
    <2>2. /\ turn[e.turn].session = s
          /\ e.type \in {"approve", "deny"} => approval[e.approval].turn = e.turn
      BY <2>1 DEF EventIsSound
    <2>3. e \in Event
      BY <1>1
    <2>4. e.turn \in Turn /\ e.turn # None /\ s # None
          /\ (e.type \in {"approve", "deny"} => e.approval \in Approval)
      BY <2>3, EventFacts, NoneAssumption
    <2>5. /\ turn'[e.turn].session = s
          /\ e.type \in {"approve", "deny"} => approval'[e.approval].turn = e.turn
      BY <2>2, <2>4 DEF Remembers
    <2> QED BY <2>1, <2>5 DEF EventIsSound
  <1>3. RecordsAreSound(h, turn')
    BY NoneAssumption DEF RecordsAreSound, Streams, Remembers
  <1> QED BY <1>2, <1>3 DEF Streams

-----------------------------------------------------------------------------
(* What the types say                                                      *)

LEMMA TypeFacts ==
  ASSUME TypeOK
  PROVE  /\ \A t \in Turn : turn[t] \in TurnRecord
         /\ \A s \in Session : /\ session[s].reserved \in BOOLEAN
                               /\ registered[s] \in Turn \cup {None}
                               /\ continuation[s] \in Continuation \cup {None}
                               /\ continuation[s] # None =>
                                     /\ continuation[s] \in Continuation
                                     /\ continuation[s].turn \in Turn
                                     /\ continuation[s].turn # None
         /\ \A a \in Approval : /\ approval[a].turn \in Turn \cup {None}
                                /\ approval[a].decision \in {"approve", "deny", None}
         /\ \A r \in Request : /\ request[r].approval \in Approval \cup {None}
                               /\ request[r].want \in {"approve", "deny", None}
                               /\ request[r].held \in Continuation \cup {None}
                               /\ request[r].held # None => request[r].held.turn \in Turn
  BY NoneAssumption DEF TypeOK, Continuation

(* The fields of a turn.                                                   *)
LEMMA RecordFacts ==
  ASSUME NEW q \in TurnRecord
  PROVE  /\ q.pc \in {"new", "reading", "booting", "prompting", "parked",
                       "resumed", "over"}
         /\ q.session \in Session \cup {None}
         /\ q.cancelled \in BOOLEAN /\ q.late \in BOOLEAN
         /\ q.awaiting \in BOOLEAN /\ q.artifact \in BOOLEAN
         /\ q.state \in {"running"} \cup Terminals
  BY DEF TurnRecord

(* A turn that is under way has its session.                               *)
LEMMA TurnHasSession ==
  ASSUME IInv, NEW t \in Turn, turn[t].pc # "new"
  PROVE  turn[t].session \in Session
  BY TypeFacts, RecordFacts DEF IInv, TurnIsSound

-----------------------------------------------------------------------------
(* Steps that leave the decisions alone                                    *)

(* A turn that was launched, or has had its first run, stays so.           *)
Forward(t) ==
    /\ turn[t].pc \notin Early => turn'[t].pc \notin Early
    /\ turn[t].pc \notin Before => turn'[t].pc \notin Before

(* How a turn may move in such a step.                                     *)
Moves(t) ==
    /\ Forward(t)
    /\ turn'[t].pc = "resumed" => turn[t].pc = "resumed"
    /\ turn[t].cancelled => turn'[t].cancelled
    /\ turn[t].state # "running" => turn'[t].state # "running"
    /\ turn[t].pc = "over" => turn'[t].pc = "over"
    /\ turn[t].pc = "over" /\ t \in resolved' => t \in resolved
    /\ t \in hub'.terminals /\ t \notin hub.terminals =>
          \/ turn'[t].cancelled
          \/ /\ turn[t].pc \in Before
             /\ \/ turn'[t].state # "running"
                \/ turn'[t].pc = "over" /\ t \notin resolved'

Continues == \A s \in Session : continuation[s] # None => continuation'[s] # None

(* The tool process was told to approve only what is approved.             *)
ToldRightly == \A a \in Approval : facade[a].applied /\ ~facade[a].lost
                                    => approval[a].decision = "approve"

(* What the data plane was told stays right when no decision changes.      *)
LEMMA ToldAsBefore ==
  ASSUME IInv, facade' = facade,
         \A a \in Approval : approval'[a].decision = approval[a].decision
  PROVE  ToldRightly'
  BY DEF IInv, ApprovalIsSound, ToldRightly

(* The approvals that were there stay sound, the new one by itself.        *)
LEMMA ApprovalsStay ==
  ASSUME IInv, Remembers, Continues, \A t \in Turn : Forward(t), ToldRightly',
         \A a \in Approval : approval[a].turn = None /\ approval'[a].turn # None
            => ApprovalIsSound(a)'
  PROVE  \A a \in Approval : ApprovalIsSound(a)'
  <1> SUFFICES ASSUME NEW a \in Approval
               PROVE  ApprovalIsSound(a)'
    OBVIOUS
  <1>1. facade'[a].applied /\ ~facade'[a].lost => approval'[a].decision = "approve"
    BY DEF ToldRightly
  <1>2. CASE approval[a].turn = None /\ approval'[a].turn # None
    BY <1>2
  <1>3. CASE approval[a].turn = None /\ approval'[a].turn = None
    BY <1>1, <1>3 DEF ApprovalIsSound
  <1>4. CASE approval[a].turn # None
    <2> DEFINE t == approval[a].turn
    <2>1. t \in Turn /\ approval'[a].turn = t
      BY <1>4, TypeFacts DEF IInv, Remembers
    <2>2. turn[t].pc \notin Early /\ continuation[turn[t].session] # None
      BY <1>4 DEF IInv, ApprovalIsSound
    <2>3. turn[t].session \in Session
      BY <2>1, <2>2, TurnHasSession DEF Early
    <2>4. turn'[t].session = turn[t].session
      BY <2>1, <2>3, NoneAssumption DEF Remembers
    <2>5. turn'[t].pc \notin Early /\ continuation'[turn'[t].session] # None
      BY <2>1, <2>2, <2>3, <2>4 DEF Forward, Continues
    <2> QED BY <1>1, <2>1, <2>5 DEF ApprovalIsSound
  <1> QED BY <1>2, <1>3, <1>4

(* A step that leaves the decisions in line alone disturbs nobody who      *)
(* waits in it.                                                            *)
LEMMA QuietStep ==
  ASSUME IInv, Remembers, Continues, \A t \in Turn : Moves(t),
         UNCHANGED <<request, decisions>>, up' => up, ToldRightly',
         up' => \A a \in Approval : approval'[a].decision = approval[a].decision,
         \A a \in Approval : approval[a].turn = None /\ approval'[a].turn # None
            => ApprovalIsSound(a)'
  PROVE  /\ \A a \in Approval : ApprovalIsSound(a)'
         /\ \A r \in Request : RequestIsSound(r)' /\ WaiterIsSound(r)'
         /\ \A t \in Turn : ResumedIsSound(t)'
  <1>1. \A a \in Approval : ApprovalIsSound(a)'
    BY ApprovalsStay DEF Moves
  <1>2. ASSUME NEW r \in Request
        PROVE  RequestIsSound(r)' /\ WaiterIsSound(r)'
    <2> DEFINE q == request[r]
               a == q.approval
               t == q.held.turn
    <2>1. RequestIsSound(r) /\ WaiterIsSound(r)
      BY DEF IInv
    <2>2. q.pc # "new" => /\ a \in Approval
                          /\ approval[a].turn # None
                          /\ approval'[a].turn = approval[a].turn
                          /\ up' => approval'[a].decision = approval[a].decision
      BY <2>1, TypeFacts DEF IInv, RequestIsSound, Remembers
    <2>3. q.pc \in {"invoking", "waiting", "resumed"} =>
             /\ t \in Turn /\ turn[t].pc \notin Early
             /\ ~q.held.prepared => turn[t].pc \notin Before
      <3> SUFFICES ASSUME q.pc \in {"invoking", "waiting", "resumed"}
                   PROVE  /\ t \in Turn /\ turn[t].pc \notin Early
                          /\ ~q.held.prepared => turn[t].pc \notin Before
        OBVIOUS
      <3>1. /\ q.held # None /\ t = approval[a].turn
            /\ ~q.held.prepared => turn[t].pc # "prompting"
        BY <2>1 DEF RequestIsSound
      <3>2. t \in Turn
        BY <3>1, TypeFacts DEF IInv
      <3>3. turn[t].pc \notin Early
        BY <2>2, <3>1 DEF IInv, ApprovalIsSound
      <3> QED BY <3>1, <3>2, <3>3 DEF Before
    <2>4. RequestIsSound(r)'
      <3>1. q.pc \in {"invoking", "waiting", "resumed"} /\ ~q.held.prepared
              => turn'[t].pc # "prompting"
        BY <2>3 DEF Moves, Forward, Before
      <3> QED BY <2>1, <2>2, <3>1 DEF RequestIsSound, AtHead
    <2>5. WaiterIsSound(r)'
      <3> SUFFICES ASSUME q.pc = "waiting", t \in hub'.terminals, ~turn'[t].cancelled
                   PROVE  \/ turn'[t].state # "running"
                          \/ turn'[t].pc = "over" /\ q.held.prepared /\ t \notin resolved'
        BY DEF WaiterIsSound
      <3>1. Moves(t) /\ ~turn[t].cancelled
        BY <2>3 DEF Moves
      <3>2. CASE t \in hub.terminals
        BY <2>1, <3>1, <3>2 DEF WaiterIsSound, Moves
      <3>3. CASE t \notin hub.terminals
        BY <2>3, <3>1, <3>3 DEF Moves
      <3> QED BY <3>2, <3>3
    <2> QED BY <2>4, <2>5
  <1>3. ASSUME NEW t \in Turn
        PROVE  ResumedIsSound(t)'
    BY DEF IInv, ResumedIsSound, Moves, Before, Early, AtHead
  <1> QED BY <1>1, <1>2, <1>3

(* Turns, sessions and streams in a step where one turn t moves.           *)
LEMMA TurnIsLeft ==
  ASSUME IInv, Continues, NEW u \in Turn, turn'[u] = turn[u],
         u \in resolved' => u \in resolved,
         u \in hub'.terminals => u \in hub.terminals \/ turn[u].pc \notin Early
  PROVE  TurnIsSound(u)'
  <1>1. turn[u].pc # "new" => turn[u].session \in Session
    BY TurnHasSession
  <1>2. TurnIsSound(u)
    BY DEF IInv
  <1> QED BY <1>1, <1>2 DEF TurnIsSound, Continues, Early

(* A session that gets no new turn or continuation stays sound.            *)
LEMMA SessionIsLeft ==
  ASSUME IInv, Remembers, \A t \in Turn : Forward(t), NEW s \in Session,
         registered'[s] \in {registered[s], None}, continuation'[s] = continuation[s],
         session'[s].reserved => Active(s)'
  PROVE  SessionIsSound(s)'
  <1>1. SessionIsSound(s)
    BY DEF IInv
  <1>2. \A t \in Turn : Launched(s, t) => Launched(s, t)'
    BY NoneAssumption DEF Launched, Forward, Remembers
  <1>3. registered[s] # None => registered[s] \in Turn
    BY TypeFacts DEF IInv
  <1>4. continuation[s] # None =>
           /\ continuation[s].turn \in Turn
           /\ Launched(s, continuation[s].turn)
           /\ ~continuation[s].prepared => turn[continuation[s].turn].pc \notin Before
    BY <1>1, TypeFacts DEF IInv, SessionIsSound, Launched, Before
  <1>5. continuation[s] # None /\ ~continuation[s].prepared
          => turn'[continuation[s].turn].pc # "prompting"
    BY <1>4 DEF Forward, Before
  <1> QED BY <1>1, <1>2, <1>3, <1>4, <1>5 DEF SessionIsSound

(* What is left to show of a step that leaves the line of decisions alone. *)
LEMMA QuietInv ==
  ASSUME IInv, TypeOK', Remembers, Continues, \A t \in Turn : Moves(t),
         UNCHANGED <<request, decisions>>, up' => up, ToldRightly',
         up' => \A a \in Approval : approval'[a].decision = approval[a].decision,
         \A a \in Approval : approval[a].turn = None /\ approval'[a].turn # None
            => ApprovalIsSound(a)',
         Streams(hub', turn, approval),
         \A t \in Turn : TurnIsSound(t)',
         \A s \in Session : SessionIsSound(s)',
         ReservationsEnd'
  PROVE  IInv'
  <1>1. /\ \A a \in Approval : ApprovalIsSound(a)'
        /\ \A r \in Request : RequestIsSound(r)' /\ WaiterIsSound(r)'
        /\ \A t \in Turn : ResumedIsSound(t)'
    BY QuietStep
  <1>2. hub' \in Hub
    BY DEF TypeOK
  <1>3. Streams(hub', turn', approval')
    BY <1>2, StreamsLast
  <1>4. LogIsSound(hub, turn, approval)' /\ RecordsAreSound(hub, turn)'
    BY <1>3 DEF Streams
  <1> QED BY <1>1, <1>4 DEF IInv

Pending == {"reading", "booting", "prompting"}

ReservationEnds(s) ==
    up /\ session[s].reserved /\ ApprovalsOf(s) = {}
       => \E t \in Turn : turn[t].session = s /\ turn[t].pc \in Pending

(* ReservationsEnd, session by session.                                    *)
LEMMA ReservationsEndEach ==
  /\ ReservationsEnd <=> \A s \in Session : ReservationEnds(s)
  /\ ReservationsEnd' <=> \A s \in Session : ReservationEnds(s)'
  BY DEF ReservationsEnd, ReservationEnds, Pending

(* A session that had approvals still has them.                            *)
LEMMA ApprovalsLast ==
  ASSUME IInv, Remembers, NEW s \in Session, ApprovalsOf(s)' = {}
  PROVE  ApprovalsOf(s) = {}
  <1> SUFFICES ASSUME NEW a \in Approval, approval[a].turn # None,
                      turn[approval[a].turn].session = s
               PROVE  a \in ApprovalsOf(s)'
    BY DEF ApprovalsOf
  <1>1. approval[a].turn \in Turn
    BY TypeFacts DEF IInv
  <1> QED BY <1>1, NoneAssumption DEF Remembers, ApprovalsOf

(* A step in which at most turn t moves.                                   *)
Step(t) ==
    /\ up
    /\ UNCHANGED <<request, decisions, facade>>
    /\ \A u \in Turn \ {t} : /\ turn'[u] = turn[u]
                             /\ u \in resolved' <=> u \in resolved
                             /\ u \in hub'.terminals <=> u \in hub.terminals
    /\ Moves(t)
    /\ turn[t].session # None => turn'[t].session = turn[t].session
    /\ \A a \in Approval : /\ approval'[a].decision = approval[a].decision
                           /\ approval[a].turn # None
                                 => approval'[a].turn = approval[a].turn
    /\ Continues
    /\ \A s \in Session : session'[s].reserved => Active(s)'

(* A step of turn t leaves the other turns as they were.                   *)
LEMMA StepFacts ==
  ASSUME IInv, NEW t \in Turn, Step(t)
  PROVE  /\ Remembers
         /\ \A u \in Turn : Moves(u)
         /\ \A u \in Turn \ {t} : TurnIsSound(u)'
  <1>1. Remembers
    BY DEF Step, Remembers
  <1>2. \A u \in Turn \ {t} : Moves(u)
    BY DEF Step, Moves, Forward
  <1>3. \A u \in Turn \ {t} : TurnIsSound(u)'
    BY TurnIsLeft DEF Step
  <1> QED BY <1>1, <1>2, <1>3 DEF Step

(* What is left to show of a step of turn t.                               *)
LEMMA StepInv ==
  ASSUME IInv, TypeOK', NEW t \in Turn, Step(t), TurnIsSound(t)',
         Streams(hub', turn, approval),
         \A a \in Approval : approval[a].turn = None /\ approval'[a].turn # None
            => ApprovalIsSound(a)',
         \A s \in Session : \/ SessionIsSound(s)'
                            \/ /\ registered'[s] \in {registered[s], None}
                               /\ continuation'[s] = continuation[s],
         \A s \in Session : ReservationEnds(s)'
  PROVE  IInv'
  <1>1. /\ Remembers
        /\ \A u \in Turn : Moves(u)
        /\ \A u \in Turn : TurnIsSound(u)'
    BY StepFacts
  <1>2. \A s \in Session : SessionIsSound(s)'
    BY <1>1, SessionIsLeft DEF Step, Moves
  <1>3. ReservationsEnd'
    BY ReservationsEndEach
  <1>4. ToldRightly'
    BY ToldAsBefore DEF Step
  <1> QED BY <1>1, <1>2, <1>3, <1>4, QuietInv DEF Step

(* A step of turn t may end the turn only if it releases the session.      *)
LEMMA ReservationIsLeft ==
  ASSUME IInv, NEW t \in Turn, Step(t), NEW s \in Session,
         session'[s].reserved => session[s].reserved,
         turn[t].session = s /\ turn[t].pc \in Pending /\ session'[s].reserved
            => turn'[t].pc \in Pending \/ ApprovalsOf(s) # {}
  PROVE  ReservationEnds(s)'
  <1> SUFFICES ASSUME session'[s].reserved, ApprovalsOf(s)' = {}
               PROVE  \E u \in Turn : turn'[u].session = s /\ turn'[u].pc \in Pending
    BY DEF ReservationEnds
  <1>1. ApprovalsOf(s) = {}
    BY StepFacts, ApprovalsLast
  <1>2. PICK u \in Turn : turn[u].session = s /\ turn[u].pc \in Pending
    BY <1>1 DEF IInv, ReservationsEnd, Step, Pending
  <1>3. CASE u = t
    BY <1>1, <1>2, <1>3, NoneAssumption DEF Step
  <1>4. CASE u # t
    BY <1>2, <1>4 DEF Step
  <1> QED BY <1>3, <1>4

SessionType == [Session -> [status : {"none", "active", "expired", "gone"},
                            reserved : BOOLEAN, turns : 0 .. MaxTurns]]

(* SessionRegistry.releaseTurn.                                            *)
LEMMA ReleasedFacts ==
  ASSUME IInv, NEW s \in Session
  PROVE  /\ Released(s) \in SessionType
         /\ ~Released(s)[s].reserved
         /\ \A x \in Session : /\ Released(s)[x].status = session[x].status
                               /\ x # s => Released(s)[x] = session[x]
                               /\ Released(s)[x].reserved => session[x].reserved
                                                             /\ Active(x)
  <1>1. \A x \in Session : session[x].reserved => Active(x)
    BY DEF IInv, SessionIsSound
  <1>2. session \in SessionType
    BY DEF IInv, TypeOK, SessionType
  <1>3. CASE Active(s)
    BY <1>1, <1>2, <1>3 DEF Released, SessionType
  <1>4. CASE ~Active(s)
    BY <1>1, <1>2, <1>4 DEF Released, SessionType
  <1> QED BY <1>3, <1>4

(* A step that frees the session of a turn.                                *)
LEMMA ReleasedStep ==
  ASSUME IInv, NEW s \in Session, session' = Released(s)
  PROVE  /\ session' \in SessionType
         /\ \A x \in Session : session'[x].reserved => session[x].reserved /\ Active(x)'
  <1>1. session' \in SessionType
    BY ReleasedFacts
  <1>2. ASSUME NEW x \in Session, session'[x].reserved
        PROVE  session[x].reserved /\ Active(x)'
    <2>1. session'[x].status = session[x].status /\ session[x].reserved /\ Active(x)
      BY <1>2, ReleasedFacts
    <2> QED BY <2>1 DEF Active
  <1> QED BY <1>1, <1>2

-----------------------------------------------------------------------------
(* Sessions, expiries and the way to a prompt                              *)

(* Only the turn's place changes.                                          *)
LEMMA PcUpdate ==
  ASSUME IInv, NEW t \in Turn,
         NEW pc \in {"reading", "booting", "prompting", "parked", "resumed", "over"},
         turn' = [turn EXCEPT ![t].pc = pc]
  PROVE  /\ turn' \in [Turn -> TurnRecord]
         /\ turn'[t].pc = pc /\ turn'[t].session = turn[t].session
         /\ turn'[t].state = turn[t].state
         /\ turn'[t].cancelled = turn[t].cancelled
         /\ \A u \in Turn : u # t => turn'[u] = turn[u]
  <1>1. turn \in [Turn -> TurnRecord]
    BY DEF IInv, TypeOK
  <1> QED BY <1>1 DEF TurnRecord

LEMMA SettledIsUp == Settled => up
  BY DEF Settled

(* A step of sessions and approvals' expiry alone.                         *)
LEMMA NothingMoves ==
  ASSUME IInv, TypeOK', up,
         UNCHANGED <<turn, registered, continuation, resolved, request,
                     decisions, hub, facade>>,
         \A a \in Approval : /\ approval'[a].turn = approval[a].turn
                            /\ approval'[a].decision = approval[a].decision,
         \A s \in Session : session'[s].reserved => session[s].reserved /\ Active(s)'
  PROVE  IInv'
  <1>1. Remembers /\ Continues
    BY DEF Remembers, Continues
  <1>2. \A t \in Turn : Moves(t) /\ Forward(t)
    BY DEF Moves, Forward
  <1>3. \A t \in Turn : TurnIsSound(t)'
    BY <1>1, TurnIsLeft
  <1>4. \A s \in Session : SessionIsSound(s)'
    BY <1>1, <1>2, SessionIsLeft
  <1>5. Streams(hub', turn, approval)
    BY DEF IInv, Streams
  <1>6. ASSUME NEW s \in Session
        PROVE  ReservationEnds(s)'
    BY <1>1, ApprovalsLast DEF IInv, ReservationsEnd, ReservationEnds, Pending
  <1>7. ReservationsEnd'
    BY <1>6, ReservationsEndEach
  <1>8. ToldRightly'
    BY ToldAsBefore
  <1> QED BY <1>1, <1>2, <1>3, <1>4, <1>5, <1>7, <1>8, QuietInv

(* The steps, one lemma each.                                              *)
LEMMA CreateSessionInv ==
  ASSUME IInv, NEW s \in Session, CreateSession(s)
  PROVE  IInv'
  <1>1. /\ session' \in SessionType
        /\ \A x \in Session : /\ session'[x].reserved = session[x].reserved
                              /\ Active(x) => session'[x].status = "active"
    BY ZenonT(60) DEF IInv, TypeOK, CreateSession, Active, SessionType
  <1>2. TypeOK'
    BY <1>1 DEF IInv, TypeOK, CreateSession, SessionType
  <1>3. \A x \in Session : session'[x].reserved => session[x].reserved /\ Active(x)'
    BY <1>1 DEF IInv, SessionIsSound, Active
  <1> QED BY <1>2, <1>3, NothingMoves, SettledIsUp DEF CreateSession

LEMMA DropSessionInv ==
  ASSUME IInv, NEW s \in Session, NEW how \in {"expired", "gone"}, DropSession(s, how)
  PROVE  IInv'
  <1>1. /\ session' \in SessionType
        /\ ~session'[s].reserved
        /\ \A x \in Session : x # s => session'[x] = session[x]
    BY ZenonT(60) DEF IInv, TypeOK, DropSession, SessionType
  <1>2. TypeOK'
    BY <1>1 DEF IInv, TypeOK, DropSession, SessionType
  <1>3. \A x \in Session : session'[x].reserved => session[x].reserved /\ Active(x)'
    BY <1>1 DEF IInv, SessionIsSound, Active
  <1> QED BY <1>2, <1>3, NothingMoves, SettledIsUp DEF DropSession

LEMMA ApprovalExpiresInv ==
  ASSUME IInv, NEW a \in Approval, ApprovalExpires(a)
  PROVE  IInv'
  <1>1. /\ approval' \in [Approval -> [turn : Turn \cup {None}, expired : BOOLEAN,
                                       decision : {"approve", "deny", None}]]
        /\ \A x \in Approval : /\ approval'[x].turn = approval[x].turn
                               /\ approval'[x].decision = approval[x].decision
    BY ZenonT(60) DEF IInv, TypeOK, ApprovalExpires
  <1>2. TypeOK'
    BY <1>1 DEF IInv, TypeOK, ApprovalExpires
  <1>3. \A x \in Session : session'[x].reserved => session[x].reserved /\ Active(x)'
    BY DEF IInv, SessionIsSound, Active, ApprovalExpires
  <1> QED BY <1>1, <1>2, <1>3, NothingMoves, SettledIsUp DEF ApprovalExpires

LEMMA LoseMessageInv ==
  ASSUME IInv, NEW t \in Turn, LoseMessage(t)
  PROVE  IInv'
  <1>1. TypeOK'
    BY DEF IInv, TypeOK, LoseMessage
  <1>2. \A x \in Session : session'[x].reserved => session[x].reserved /\ Active(x)'
    BY DEF IInv, SessionIsSound, Active, LoseMessage
  <1> QED BY <1>1, <1>2, NothingMoves, SettledIsUp DEF LoseMessage

(* The streams stand where nothing is sent.                                *)
LEMMA NothingSent ==
  ASSUME IInv, hub' = hub
  PROVE  Streams(hub', turn, approval)
  BY DEF IInv, Streams

LEMMA CreateTurnInv ==
  ASSUME IInv, NEW s \in Session, NEW t \in Turn, CreateTurn(s, t)
  PROVE  IInv'
  <1>1. /\ turn' \in [Turn -> TurnRecord]
        /\ turn'[t].pc = "reading" /\ turn'[t].session = s
        /\ turn'[t].state = turn[t].state
        /\ turn'[t].cancelled = turn[t].cancelled
        /\ \A u \in Turn : u # t => turn'[u] = turn[u]
    <2>1. turn \in [Turn -> TurnRecord]
      BY DEF IInv, TypeOK
    <2>2. turn' = [turn EXCEPT ![t].pc = "reading", ![t].session = s]
      BY DEF CreateTurn
    <2> QED BY <2>1, <2>2, ZenonT(60) DEF TurnRecord
  <1>2. /\ session' \in SessionType
        /\ Active(s) /\ session'[s].status = "active"
        /\ \A x \in Session : x # s => session'[x] = session[x]
    <2>1. session \in SessionType
      BY DEF IInv, TypeOK, SessionType
    <2>2. /\ session' = [session EXCEPT ![s].reserved = TRUE, ![s].turns = @ + 1]
          /\ session[s].turns < MaxTurns /\ session[s].status = "active"
      BY DEF CreateTurn, Active
    <2>3. session[s].turns + 1 \in 0 .. MaxTurns
      BY <2>1, <2>2, TurnsAssumption DEF SessionType
    <2> QED BY <2>1, <2>2, <2>3 DEF SessionType, Active
  <1>3. TypeOK'
    BY <1>1, <1>2 DEF IInv, TypeOK, CreateTurn, SessionType
  <1>4. /\ turn[t].pc = "new" /\ turn[t].session = None /\ turn[t].state = "running"
        /\ t \notin resolved /\ t \notin hub.terminals
    BY DEF IInv, TurnIsSound, CreateTurn, Before, Early
  <1>5. Step(t)
    BY <1>1, <1>2, <1>4, SettledIsUp, Zenon
       DEF Step, Moves, Forward, Continues, CreateTurn, Early, Before, Active, IInv, SessionIsSound
  <1>6. TurnIsSound(t)'
    BY <1>1, <1>4, NoneAssumption DEF TurnIsSound, CreateTurn, Early, Before
  <1>7. ASSUME NEW x \in Session
        PROVE  ReservationEnds(x)'
    <2>1. CASE x = s
      BY <1>1, <2>1 DEF ReservationEnds, Pending
    <2>2. CASE x # s
      BY <1>2, <1>4, <1>5, <2>2, ReservationIsLeft DEF Pending
    <2> QED BY <2>1, <2>2
  <1> QED BY <1>3, <1>5, <1>6, <1>7, NothingSent, StepInv DEF CreateTurn

LEMMA RefuseMessageInv ==
  ASSUME IInv, NEW t \in Turn, RefuseMessage(t)
  PROVE  IInv'
  <1> DEFINE s == turn[t].session
  <1>1. /\ turn' \in [Turn -> TurnRecord]
        /\ turn'[t].pc = "over" /\ turn'[t].session = turn[t].session
        /\ turn'[t].state = turn[t].state
        /\ turn'[t].cancelled = turn[t].cancelled
        /\ \A u \in Turn : u # t => turn'[u] = turn[u]
    BY PcUpdate DEF RefuseMessage
  <1>2. s \in Session
    BY TurnHasSession DEF RefuseMessage
  <1>3. session' = Released(s)
    BY DEF RefuseMessage
  <1>4. TypeOK'
    BY <1>1, <1>2, <1>3, ReleasedFacts DEF IInv, TypeOK, RefuseMessage, SessionType
  <1>5. Step(t)
    BY <1>1, <1>2, <1>3, ReleasedFacts, SettledIsUp
       DEF Step, Moves, Forward, Continues, RefuseMessage, Early, Before, Active
  <1>6. TurnIsSound(t)'
    BY <1>1, <1>2, NoneAssumption DEF TurnIsSound, RefuseMessage, Early, Before
  <1>7. ASSUME NEW x \in Session
        PROVE  ReservationEnds(x)'
    BY <1>2, <1>3, <1>5, ReleasedFacts, ReservationIsLeft
  <1> QED BY <1>4, <1>5, <1>6, <1>7, NothingSent, StepInv DEF RefuseMessage

LEMMA ExecuteInv ==
  ASSUME IInv, NEW t \in Turn, Execute(t)
  PROVE  IInv'
  <1> DEFINE s == turn[t].session
  <1>1. /\ turn' \in [Turn -> TurnRecord]
        /\ turn'[t].pc = IF Active(s) THEN "booting" ELSE "over"
        /\ turn'[t].session = turn[t].session
        /\ turn'[t].state = turn[t].state
        /\ turn'[t].cancelled = turn[t].cancelled
        /\ \A u \in Turn : u # t => turn'[u] = turn[u]
    BY PcUpdate DEF Execute
  <1>2. s \in Session
    BY TurnHasSession DEF Execute
  <1>3. TypeOK'
    BY <1>1 DEF IInv, TypeOK, Execute
  <1>4. /\ turn[t].pc = "reading" /\ turn[t].state = "running"
        /\ t \notin resolved /\ t \notin hub.terminals
    BY DEF IInv, TurnIsSound, Execute, Before, Early
  <1>5. Step(t)
    BY <1>1, <1>4, SettledIsUp
       DEF Step, Moves, Forward, Continues, Execute, Early, Before, Active, IInv, SessionIsSound
  <1>6. TurnIsSound(t)'
    BY <1>1, <1>2, <1>4, NoneAssumption DEF TurnIsSound, Execute, Early, Before
  <1>7. ASSUME NEW x \in Session
        PROVE  ReservationEnds(x)'
    <2>1. session' = session /\ (session[s].reserved => Active(s))
      BY <1>2 DEF Execute, IInv, SessionIsSound
    <2> QED BY <1>1, <1>5, <2>1, ReservationIsLeft DEF Pending
  <1> QED BY <1>3, <1>5, <1>6, <1>7, NothingSent, StepInv DEF Execute

-----------------------------------------------------------------------------
(* Prompts: what is sent, and the turn that sends it                       *)

LEMMA HubFacts ==
  ASSUME IInv
  PROVE  hub \in Hub /\ Streams(hub, turn, approval)
  BY DEF IInv, TypeOK, Streams

(* EmittedIsSound, for the hub as it is.                                   *)
LEMMA SentOne ==
  ASSUME IInv, NEW s \in Session, NEW e \in Event, MayBeSent(hub, s, e)
  PROVE  /\ Emitted(hub, s, e) \in Hub
         /\ Streams(Emitted(hub, s, e), turn, approval)
         /\ Emitted(hub, s, e).terminals =
              IF e.type \in Terminals THEN hub.terminals \cup {e.turn}
              ELSE hub.terminals
  BY HubFacts, EmittedFacts, EmittedIsSound, ZenonT(60)

(* An event that needs no ground: of the turn's own run.                   *)
LEMMA SentPlain ==
  ASSUME IInv, NEW t \in Turn, turn[t].session \in Session, t \notin hub.terminals,
         NEW type \in {"started", "artifact", "cancelled", "failed"}
  PROVE  LET g == Emitted(hub, turn[t].session, Ev(t, type))
         IN  /\ g \in Hub
             /\ Streams(g, turn, approval)
             /\ g.terminals = IF type \in {"cancelled", "failed"}
                              THEN hub.terminals \cup {t} ELSE hub.terminals
  <1> DEFINE e == Ev(t, type)
  <1>1. e \in Event /\ e.turn = t /\ e.type = type
    BY EventFacts DEF Terminals
  <1>2. MayBeSent(hub, turn[t].session, e)
    BY <1>1 DEF MayBeSent
  <1> HIDE DEF e
  <1>3. /\ Emitted(hub, turn[t].session, e) \in Hub
        /\ Streams(Emitted(hub, turn[t].session, e), turn, approval)
        /\ Emitted(hub, turn[t].session, e).terminals =
              IF e.type \in Terminals THEN hub.terminals \cup {e.turn}
              ELSE hub.terminals
    BY <1>1, <1>2, SentOne
  <1>4. e.type \in Terminals <=> type \in {"cancelled", "failed"}
    BY <1>1 DEF Terminals
  <1> QED BY <1>1, <1>3, <1>4 DEF e

(* Two events of which the first is the ground of the second.              *)
LEMMA SentTwo ==
  ASSUME IInv, NEW s \in Session, NEW d \in Event, NEW e \in Event,
         MayBeSent(hub, s, d), d.type \notin Terminals, e.turn = d.turn,
         e.type \in Terminals,
         e.type = "completed" => d.type \in {"artifact", "deny"}
  PROVE  LET g == Emitted(Emitted(hub, s, d), s, e)
         IN  /\ g \in Hub
             /\ Streams(g, turn, approval)
             /\ g.terminals = hub.terminals \cup {e.turn}
  <1> DEFINE f == Emitted(hub, s, d)
  <1>1. /\ f \in Hub /\ Streams(f, turn, approval)
        /\ f.terminals = hub.terminals
    BY SentOne
  <1>2. hub.log[s] \in Seq(Event) /\ f.log[s] = Append(hub.log[s], d)
    BY HubFacts, EmittedFacts
  <1>3. /\ Len(hub.log[s]) + 1 \in 1 .. Len(f.log[s])
        /\ f.log[s][Len(hub.log[s]) + 1] = d
    BY <1>2
  <1> HIDE DEF f
  <1>4. MayBeSent(f, s, e)
    <2>1. e.turn \notin f.terminals /\ turn[e.turn].session = s
      BY <1>1 DEF MayBeSent
    <2>2. e.type \notin {"approve", "deny"}
      BY DEF Terminals
    <2>3. e.type = "completed" =>
             \E j \in 1 .. Len(f.log[s]) : /\ f.log[s][j].turn = e.turn
                                           /\ f.log[s][j].type \in {"artifact", "deny"}
      BY <1>3
    <2> QED BY <2>1, <2>2, <2>3 DEF MayBeSent
  <1>5. /\ Emitted(f, s, e) \in Hub
        /\ Streams(Emitted(f, s, e), turn, approval)
        /\ Emitted(f, s, e).terminals = f.terminals \cup {e.turn}
    BY <1>1, <1>4, EmittedFacts, EmittedIsSound, Zenon
  <1> QED BY <1>1, <1>5 DEF f

(* projectLifecycle of a turn that has not ended keeps the streams sound.  *)
LEMMA ProjectedFacts ==
  ASSUME IInv, NEW t \in Turn, turn[t].session \in Session,
         NEW outcome \in {"running"} \cup Terminals, NEW ends,
         outcome # "running" => t \notin hub.terminals
  PROVE  LET g == Projected(turn[t].session, t, outcome, ends)
         IN  /\ g \in Hub
             /\ Streams(g, turn, approval)
             /\ g.terminals = IF outcome # "running" /\ ends
                              THEN hub.terminals \cup {t} ELSE hub.terminals
  <1> DEFINE s == turn[t].session
             g == Projected(s, t, outcome, ends)
  <1>1. CASE outcome = "running"
    <2>1. g = hub
      BY <1>1 DEF Projected
    <2> QED BY <1>1, <2>1, HubFacts
  <1>2. CASE outcome = "completed" /\ ~ends
    <2>1. g = Emitted(hub, s, Ev(t, "artifact"))
      BY <1>2 DEF Projected
    <2> QED BY <1>2, <2>1, SentPlain
  <1>3. CASE outcome = "completed" /\ ends
    <2> DEFINE d == Ev(t, "artifact")
               e == Ev(t, "completed")
    <2>1. g = Emitted(Emitted(hub, s, d), s, e)
      BY <1>3 DEF Projected
    <2>2. /\ d \in Event /\ d.turn = t /\ d.type = "artifact"
          /\ e \in Event /\ e.turn = t /\ e.type = "completed"
      BY EventFacts DEF Terminals
    <2> HIDE DEF d, e, g
    <2>3. MayBeSent(hub, s, d)
      BY <1>3, <2>2 DEF MayBeSent
    <2>4. d.type \notin Terminals /\ e.type \in Terminals
      BY <2>2 DEF Terminals
    <2>5. /\ Emitted(Emitted(hub, s, d), s, e) \in Hub
          /\ Streams(Emitted(Emitted(hub, s, d), s, e), turn, approval)
          /\ Emitted(Emitted(hub, s, d), s, e).terminals = hub.terminals \cup {e.turn}
      BY <2>2, <2>3, <2>4, SentTwo
    <2>6. g \in Hub /\ Streams(g, turn, approval) /\ g.terminals = hub.terminals \cup {t}
      BY <2>1, <2>2, <2>5
    <2> QED BY <1>3, <2>6 DEF g
  <1>4. CASE outcome \in {"cancelled", "failed"} /\ ends
    <2>1. g = Emitted(hub, s, Ev(t, outcome))
      BY <1>4 DEF Projected
    <2>2. outcome \in {"started", "artifact", "cancelled", "failed"} /\ t \notin hub.terminals
      BY <1>4
    <2>3. LET k == Emitted(hub, turn[t].session, Ev(t, outcome))
          IN  /\ k \in Hub
              /\ Streams(k, turn, approval)
              /\ k.terminals = IF outcome \in {"cancelled", "failed"}
                               THEN hub.terminals \cup {t} ELSE hub.terminals
      BY <2>2, SentPlain
    <2> HIDE DEF g
    <2>4. /\ g \in Hub
          /\ Streams(g, turn, approval)
          /\ g.terminals = hub.terminals \cup {t}
      BY <1>4, <2>1, <2>3
    <2> QED BY <1>4, <2>4 DEF g
  <1>5. CASE outcome \in {"cancelled", "failed"} /\ ~ends
    <2>1. g = hub
      BY <1>5 DEF Projected
    <2> QED BY <1>5, <2>1, HubFacts
  <1> QED BY <1>1, <1>2, <1>3, <1>4, <1>5 DEF Terminals

(* What execute's finally does to the reservation of session s.            *)
LEMMA FinallyFacts ==
  ASSUME IInv, NEW s \in Session,
         session' = IF IsAwaiting(s) THEN session ELSE Released(s)
  PROVE  /\ session' \in SessionType
         /\ \A x \in Session : session'[x].reserved => session[x].reserved /\ Active(x)'
         /\ session'[s].reserved => ApprovalsOf(s) # {}
  <1>1. CASE IsAwaiting(s)
    <2>1. ApprovalsOf(s) # {} /\ session' = session
      BY <1>1 DEF IsAwaiting
    <2> QED BY <2>1 DEF IInv, TypeOK, SessionType, SessionIsSound, Active
  <1>2. CASE ~IsAwaiting(s)
    BY <1>2, ReleasedFacts DEF Active
  <1> QED BY <1>1, <1>2

LEMMA BootInv ==
  ASSUME IInv, NEW t \in Turn, Boot(t)
  PROVE  IInv'
  <1> DEFINE s == turn[t].session
  <1>1. /\ turn' \in [Turn -> TurnRecord]
        /\ turn'[t].pc = "prompting" /\ turn'[t].session = turn[t].session
        /\ turn'[t].state = turn[t].state
        /\ turn'[t].cancelled = turn[t].cancelled
        /\ \A u \in Turn : u # t => turn'[u] = turn[u]
    BY PcUpdate DEF Boot
  <1>2. s \in Session
    BY TurnHasSession DEF Boot
  <1>3. /\ turn[t].pc = "booting" /\ turn[t].state = "running"
        /\ t \notin resolved /\ t \notin hub.terminals
    BY DEF IInv, TurnIsSound, Boot, Before, Early
  <1>4. hub' \in Hub /\ Streams(hub', turn, approval) /\ hub'.terminals = hub.terminals
    BY <1>2, <1>3, SentPlain DEF Boot
  <1>5. /\ registered' \in [Session -> Turn \cup {None}]
        /\ registered'[s] = t
        /\ \A x \in Session : x # s => registered'[x] = registered[x]
    BY <1>2 DEF Boot, IInv, TypeOK
  <1>6. /\ continuation' \in [Session -> Continuation \cup {None}]
        /\ continuation'[s] # None
        /\ continuation'[s].turn = t /\ continuation'[s].prepared
        /\ \A x \in Session : x # s => continuation'[x] = continuation[x]
    <2>1. [turn |-> t, prepared |-> TRUE] \in Continuation
      BY DEF Continuation
    <2>2. continuation \in [Session -> Continuation \cup {None}]
      BY DEF IInv, TypeOK
    <2>3. continuation' = [continuation EXCEPT ![s] = [turn |-> t, prepared |-> TRUE]]
      BY DEF Boot
    <2> QED BY <1>2, <2>1, <2>2, <2>3, NoneAssumption
  <1>7. TypeOK'
    BY <1>1, <1>4, <1>5, <1>6 DEF IInv, TypeOK, Boot
  <1>8. Step(t)
    BY <1>1, <1>3, <1>4, <1>6, SettledIsUp
       DEF Step, Moves, Forward, Continues, Boot, Early, Before, Active, IInv, SessionIsSound
  <1>9. TurnIsSound(t)'
    BY <1>1, <1>2, <1>3, <1>4, <1>6, NoneAssumption DEF TurnIsSound, Boot, Early, Before
  <1>10. SessionIsSound(s)'
    BY <1>1, <1>2, <1>5, <1>6 DEF SessionIsSound, Launched, Boot, IInv, Active, Early
  <1>11. ASSUME NEW x \in Session
         PROVE  ReservationEnds(x)'
    BY <1>1, <1>8, ReservationIsLeft DEF Pending, Boot
  <1> QED BY <1>5, <1>6, <1>7, <1>8, <1>9, <1>4, <1>10, <1>11, StepInv DEF Boot

(* A turn that fails to boot, or throws in its first run.                  *)
LEMMA FailInv ==
  ASSUME IInv, up, NEW t \in Turn, turn[t].pc \in {"booting", "prompting"}, Fail(t),
         UNCHANGED <<up, registered, approval, continuation, resolved, request,
                     decisions, facade>>
  PROVE  IInv'
  <1> DEFINE s == turn[t].session
  <1>1. /\ turn' \in [Turn -> TurnRecord]
        /\ turn'[t].pc = "over" /\ turn'[t].session = turn[t].session
        /\ turn'[t].state = turn[t].state
        /\ turn'[t].cancelled = turn[t].cancelled
        /\ \A u \in Turn : u # t => turn'[u] = turn[u]
    BY PcUpdate DEF Fail
  <1>2. s \in Session
    BY TurnHasSession
  <1>3. t \notin resolved
    BY DEF IInv, TurnIsSound, Before, Early
  <1>4. /\ hub' \in Hub /\ Streams(hub', turn, approval)
        /\ \A u \in Turn \ {t} : u \in hub'.terminals <=> u \in hub.terminals
    <2>1. CASE t \in hub.terminals
      BY <2>1, HubFacts DEF Fail, MayEmit
    <2>2. CASE t \notin hub.terminals
      <3>1. hub' = Emitted(hub, s, Ev(t, "failed"))
        BY <2>2 DEF Fail, MayEmit
      <3> QED BY <1>2, <2>2, <3>1, SentPlain
    <2> QED BY <2>1, <2>2
  <1>5. /\ session' \in SessionType
        /\ \A x \in Session : session'[x].reserved => session[x].reserved /\ Active(x)'
        /\ session'[s].reserved => ApprovalsOf(s) # {}
    BY <1>2, FinallyFacts DEF Fail
  <1>6. TypeOK'
    BY <1>1, <1>4, <1>5 DEF IInv, TypeOK, SessionType
  <1>7. Step(t)
    BY <1>1, <1>3, <1>4, <1>5 DEF Step, Moves, Forward, Continues, Early, Before
  <1>8. TurnIsSound(t)'
    BY <1>1, <1>2, NoneAssumption DEF TurnIsSound, Early, Before
  <1>9. ASSUME NEW x \in Session
        PROVE  ReservationEnds(x)'
    BY <1>5, <1>7, ReservationIsLeft
  <1> QED BY <1>4, <1>6, <1>7, <1>8, <1>9, StepInv

(* A step that sets a flag of a turn.                                      *)
LEMMA FlagInv ==
  ASSUME IInv, up, NEW t \in Turn, turn' \in [Turn -> TurnRecord],
         turn'[t].pc = turn[t].pc, turn'[t].session = turn[t].session,
         turn'[t].state = turn[t].state, turn'[t].cancelled = turn[t].cancelled,
         \A u \in Turn : u # t => turn'[u] = turn[u],
         UNCHANGED <<up, session, registered, approval, continuation, resolved,
                     request, decisions, hub, facade>>
  PROVE  IInv'
  <1>1. TypeOK'
    BY DEF IInv, TypeOK
  <1>2. Step(t)
    BY DEF Step, Moves, Forward, Continues, IInv, SessionIsSound, Active
  <1>3. TurnIsSound(t)'
    BY DEF IInv, TurnIsSound
  <1>4. ASSUME NEW x \in Session
        PROVE  ReservationEnds(x)'
    BY <1>2, ReservationIsLeft
  <1> QED BY <1>1, <1>2, <1>3, <1>4, NothingSent, StepInv

(* Steps that set a flag of a turn.                                        *)
LEMMA FlagsInv ==
  ASSUME IInv, NEW t \in Turn,
         AcceptRefresh(t) \/ Finalize(t) \/ DeadlinePasses(t)
  PROVE  IInv'
  <1>1. turn \in [Turn -> TurnRecord]
    BY DEF IInv, TypeOK
  <1>2. /\ turn' \in [Turn -> TurnRecord]
        /\ turn'[t].pc = turn[t].pc /\ turn'[t].session = turn[t].session
        /\ turn'[t].state = turn[t].state /\ turn'[t].cancelled = turn[t].cancelled
        /\ \A u \in Turn : u # t => turn'[u] = turn[u]
    <2>1. CASE turn' = [turn EXCEPT ![t].awaiting = FALSE]
      BY <1>1, <2>1, Zenon DEF TurnRecord
    <2>2. CASE turn' = [turn EXCEPT ![t].artifact = TRUE]
      BY <1>1, <2>2, Zenon DEF TurnRecord
    <2>3. CASE turn' = [turn EXCEPT ![t].late = TRUE]
      BY <1>1, <2>3, Zenon DEF TurnRecord
    <2> QED BY <2>1, <2>2, <2>3 DEF AcceptRefresh, Finalize, DeadlinePasses
  <1>3. /\ up
        /\ UNCHANGED <<up, session, registered, approval, continuation, resolved,
                       request, decisions, hub, facade>>
    BY SettledIsUp DEF AcceptRefresh, Finalize, DeadlinePasses, ToolsOpen
  <1> QED BY <1>2, <1>3, FlagInv

LEMMA CancelInv ==
  ASSUME IInv, NEW s \in Session, NEW t \in Turn, Cancel(s, t)
  PROVE  IInv'
  <1>1. /\ turn' \in [Turn -> TurnRecord]
        /\ turn'[t].pc = turn[t].pc /\ turn'[t].session = turn[t].session
        /\ turn'[t].state = turn[t].state
        /\ turn'[t].cancelled
        /\ \A u \in Turn : u # t => turn'[u] = turn[u]
    <2>1. turn \in [Turn -> TurnRecord]
      BY DEF IInv, TypeOK
    <2>2. turn' = [turn EXCEPT ![t].cancelled = TRUE]
      BY DEF Cancel
    <2> QED BY <2>1, <2>2, Zenon DEF TurnRecord
  <1>2. turn[t].session = s /\ turn[t].pc \notin Early
    BY NoneAssumption DEF Cancel, IInv, SessionIsSound, Launched
  <1>3. /\ hub' \in Hub /\ Streams(hub', turn, approval)
        /\ \A u \in Turn \ {t} : u \in hub'.terminals <=> u \in hub.terminals
    <2>1. CASE t \in hub.terminals
      BY <2>1, HubFacts DEF Cancel, MayEmit
    <2>2. CASE t \notin hub.terminals
      <3>1. hub' = Emitted(hub, turn[t].session, Ev(t, "cancelled"))
        BY <1>2, <2>2 DEF Cancel, MayEmit
      <3> QED BY <1>2, <2>2, <3>1, SentPlain
    <2> QED BY <2>1, <2>2
  <1>4. /\ session' \in SessionType
        /\ \A x \in Session : session'[x].reserved => session[x].reserved /\ Active(x)'
    BY ReleasedFacts DEF Cancel, Active
  <1>5. /\ registered' \in [Session -> Turn \cup {None}]
        /\ \A x \in Session : registered'[x] \in {registered[x], None}
    BY DEF Cancel, IInv, TypeOK
  <1>6. TypeOK'
    BY <1>1, <1>3, <1>4, <1>5 DEF IInv, TypeOK, SessionType, Cancel
  <1>7. Step(t)
    BY <1>1, <1>3, <1>4, SettledIsUp DEF Step, Moves, Forward, Continues, Cancel
  <1>8. TurnIsSound(t)'
    BY <1>1, <1>2 DEF IInv, TurnIsSound, Cancel
  <1>9. ASSUME NEW x \in Session
        PROVE  ReservationEnds(x)'
    BY <1>1, <1>4, <1>7, ReservationIsLeft
  <1> QED BY <1>3, <1>5, <1>6, <1>7, <1>8, <1>9, StepInv DEF Cancel

LEMMA RequireApprovalInv ==
  ASSUME IInv, NEW t \in Turn, NEW a \in Approval, RequireApproval(t, a)
  PROVE  IInv'
  <1> DEFINE s == turn[t].session
             u == continuation[s].turn
             e == EvA(u, "required", a)
  <1>1. /\ turn' \in [Turn -> TurnRecord]
        /\ turn'[t].pc = turn[t].pc /\ turn'[t].session = turn[t].session
        /\ turn'[t].state = turn[t].state
        /\ turn'[t].cancelled = turn[t].cancelled
        /\ \A x \in Turn : x # t => turn'[x] = turn[x]
    <2>1. turn \in [Turn -> TurnRecord]
      BY DEF IInv, TypeOK
    <2>2. turn' = [turn EXCEPT ![t].awaiting = TRUE]
      BY DEF RequireApproval
    <2> QED BY <2>1, <2>2 DEF TurnRecord
  <1>2. up /\ turn[t].pc \in {"prompting", "resumed"}
    BY SettledIsUp DEF RequireApproval, ToolsOpen, Running
  <1>3. s \in Session /\ continuation[s] # None
    BY <1>2, TurnHasSession DEF IInv, TurnIsSound
  <1>4. u \in Turn /\ turn[u].session = s
    BY <1>3, TypeFacts DEF IInv, SessionIsSound, Launched
  <1>5. /\ approval' \in [Approval -> [turn : Turn \cup {None}, expired : BOOLEAN,
                                       decision : {"approve", "deny", None}]]
        /\ \A x \in Approval : approval'[x].decision = approval[x].decision
        /\ \A x \in Approval : x # a => approval'[x] = approval[x]
        /\ approval[a].turn = None /\ approval'[a].turn = t
    <2>1. approval \in [Approval -> [turn : Turn \cup {None}, expired : BOOLEAN,
                                    decision : {"approve", "deny", None}]]
      BY DEF IInv, TypeOK
    <2>2. approval' = [approval EXCEPT ![a].turn = t] /\ approval[a].turn = None
      BY DEF RequireApproval
    <2> QED BY <2>1, <2>2
  <1>6. hub' \in Hub /\ Streams(hub', turn, approval) /\ hub'.terminals = hub.terminals
    <2>1. CASE u \in hub.terminals
      BY <2>1, HubFacts DEF RequireApproval, MayEmit
    <2>2. CASE u \notin hub.terminals
      <3>1. hub' = Emitted(hub, s, e)
        BY <2>2 DEF RequireApproval, MayEmit
      <3>2. e \in Event /\ e.turn = u /\ e.type = "required"
        BY <1>4, EventFacts
      <3> HIDE DEF e
      <3>3. MayBeSent(hub, s, e)
        BY <1>4, <2>2, <3>2 DEF MayBeSent
      <3>4. e.type \notin Terminals
        BY <3>2 DEF Terminals
      <3> HIDE DEF e
      <3> QED BY <1>3, <3>1, <3>2, <3>3, <3>4, SentOne
    <2> QED BY <2>1, <2>2
  <1>7. TypeOK'
    BY <1>1, <1>5, <1>6 DEF IInv, TypeOK, RequireApproval
  <1>8. Step(t)
    BY <1>1, <1>2, <1>5, <1>6
       DEF Step, Moves, Forward, Continues, RequireApproval, IInv, SessionIsSound, Active
  <1>9. TurnIsSound(t)'
    BY <1>1, <1>6 DEF IInv, TurnIsSound, RequireApproval
  <1>10. ASSUME NEW x \in Approval, approval[x].turn = None, approval'[x].turn # None
         PROVE  ApprovalIsSound(x)'
    <2>1. x = a
      BY <1>5, <1>10
    <2>2. facade[a].applied /\ ~facade[a].lost => approval[a].decision = "approve"
      BY DEF IInv, ApprovalIsSound
    <2> QED BY <1>1, <1>2, <1>3, <1>5, <2>1, <2>2 DEF ApprovalIsSound, RequireApproval, Early
  <1>11. ASSUME NEW x \in Session
         PROVE  ReservationEnds(x)'
    BY <1>1, <1>8, ReservationIsLeft DEF RequireApproval
  <1>12. \A x \in Session : /\ registered'[x] \in {registered[x], None}
                            /\ continuation'[x] = continuation[x]
    BY DEF RequireApproval
  <1> QED BY <1>6, <1>7, <1>8, <1>9, <1>10, <1>11, <1>12, StepInv

(* The record of a turn that gets an outcome.                              *)
LEMMA OutcomeUpdate ==
  ASSUME IInv, NEW t \in Turn, NEW outcome \in {"running"} \cup Terminals,
         NEW pc \in {"parked", "over"},
         turn' = [turn EXCEPT ![t].state = outcome, ![t].pc = pc]
  PROVE  /\ turn' \in [Turn -> TurnRecord]
         /\ turn'[t].pc = pc
         /\ turn'[t].session = turn[t].session
         /\ turn'[t].state = outcome
         /\ turn'[t].cancelled = turn[t].cancelled
         /\ \A u \in Turn : u # t => turn'[u] = turn[u]
  <1>1. turn \in [Turn -> TurnRecord]
    BY DEF IInv, TypeOK
  <1> QED BY <1>1, ZenonT(60) DEF TurnRecord

(* The end of a turn's first run.                                          *)
LEMMA FinishExecuteInv ==
  ASSUME IInv, up, NEW t \in Turn, NEW outcome \in {"running"} \cup Terminals,
         FinishExecute(t, outcome)
  PROVE  IInv'
  <1> DEFINE s == turn[t].session
             same == continuation[s].turn = t
  <1>1. /\ turn' \in [Turn -> TurnRecord]
        /\ turn'[t].pc = (IF outcome = "running" THEN "parked" ELSE "over")
        /\ turn'[t].session = turn[t].session
        /\ turn'[t].state = outcome
        /\ turn'[t].cancelled = turn[t].cancelled
        /\ \A u \in Turn : u # t => turn'[u] = turn[u]
    <2> DEFINE pc == IF outcome = "running" THEN "parked" ELSE "over"
    <2>1. /\ pc \in {"parked", "over"}
          /\ turn' = [turn EXCEPT ![t].state = outcome, ![t].pc = pc]
      BY DEF FinishExecute
    <2> HIDE DEF pc
    <2>2. /\ turn' \in [Turn -> TurnRecord]
          /\ turn'[t].pc = pc
          /\ turn'[t].session = turn[t].session
          /\ turn'[t].state = outcome
          /\ turn'[t].cancelled = turn[t].cancelled
          /\ \A u \in Turn : u # t => turn'[u] = turn[u]
      BY <2>1, OutcomeUpdate
    <2> QED BY <2>2 DEF pc
  <1>2. turn[t].pc = "prompting"
    BY DEF FinishExecute
  <1>3. /\ s \in Session /\ continuation[s] # None
        /\ turn[t].state = "running"
    BY <1>2, TurnHasSession DEF IInv, TurnIsSound, Before
  <1>4. /\ hub' \in Hub /\ Streams(hub', turn, approval)
        /\ \A u \in Turn \ {t} : u \in hub'.terminals <=> u \in hub.terminals
        /\ t \in hub'.terminals /\ t \notin hub.terminals => outcome # "running"
    <2>1. CASE MayEmit(t) /\ outcome # "cancelled"
      <3>1. hub' = Projected(turn[t].session, t, outcome, ~IsAwaiting(s))
        BY <2>1 DEF FinishExecute
      <3>2. LET g == Projected(turn[t].session, t, outcome, ~IsAwaiting(s))
            IN  /\ g \in Hub
                /\ Streams(g, turn, approval)
                /\ g.terminals = IF outcome # "running" /\ ~IsAwaiting(s)
                                 THEN hub.terminals \cup {t} ELSE hub.terminals
        BY <1>3, <2>1, ProjectedFacts, Zenon DEF MayEmit
      <3> QED BY <3>1, <3>2
    <2>2. CASE ~(MayEmit(t) /\ outcome # "cancelled")
      <3>1. hub' = hub
        BY <2>2 DEF FinishExecute
      <3> QED BY <3>1, HubFacts
    <2> QED BY <2>1, <2>2
  <1>5. /\ session' \in SessionType
        /\ \A x \in Session : session'[x].reserved => session[x].reserved /\ Active(x)'
        /\ session'[s].reserved => ApprovalsOf(s) # {}
    BY <1>3, FinallyFacts DEF FinishExecute
  <1>6. /\ resolved' \subseteq Turn
        /\ \A u \in Turn \ {t} : u \in resolved' <=> u \in resolved
    BY DEF FinishExecute, IInv, TypeOK
  <1>7. /\ continuation' \in [Session -> Continuation \cup {None}]
        /\ continuation'[s] # None
        /\ continuation'[s] # continuation[s] => continuation'[s].turn = t
        /\ \A x \in Session : x # s => continuation'[x] = continuation[x]
    <2>1. [turn |-> t, prepared |-> FALSE] \in Continuation
      BY DEF Continuation
    <2>2. continuation \in [Session -> Continuation \cup {None}]
      BY DEF IInv, TypeOK
    <2>3. continuation' = IF same THEN continuation
                          ELSE [continuation EXCEPT ![s] = [turn |-> t, prepared |-> FALSE]]
      BY DEF FinishExecute
    <2>4. CASE same
      BY <1>3, <2>2, <2>3, <2>4
    <2>5. CASE ~same
      BY <1>3, <2>1, <2>2, <2>3, <2>5, NoneAssumption
    <2> QED BY <2>4, <2>5
  <1>8. TypeOK'
    BY <1>1, <1>4, <1>5, <1>6, <1>7 DEF IInv, TypeOK, SessionType, FinishExecute
  <1>9. Moves(t)
    BY <1>1, <1>2, <1>3, <1>4 DEF Moves, Forward, Early, Before
  <1>10. Step(t)
    BY <1>1, <1>4, <1>5, <1>6, <1>7, <1>9 DEF Step, Continues, FinishExecute
  <1>11. TurnIsSound(t)'
    BY <1>1, <1>3, <1>7, NoneAssumption DEF TurnIsSound, Early, Before
  <1>12. ASSUME NEW x \in Session
         PROVE  \/ SessionIsSound(x)'
                \/ /\ registered'[x] \in {registered[x], None}
                   /\ continuation'[x] = continuation[x]
    <2>1. registered' = registered
      BY DEF FinishExecute
    <2>2. CASE continuation'[x] = continuation[x]
      BY <2>1, <2>2
    <2>3. CASE continuation'[x] # continuation[x]
      <3>1. x = s /\ continuation'[x].turn = t
        BY <1>7, <2>3
      <3>2. Launched(x, t)' /\ turn'[t].pc # "prompting"
        BY <1>1, <3>1 DEF Launched, Early
      <3>3. registered[x] # None => Launched(x, registered[x])'
        <4>1. registered[x] # None => registered[x] \in Turn /\ Launched(x, registered[x])
          BY TypeFacts DEF IInv, SessionIsSound
        <4> QED BY <1>1, <2>1, <3>1, <3>2, <4>1 DEF Launched
      <3> QED BY <1>5, <2>1, <3>1, <3>2, <3>3 DEF SessionIsSound
    <2> QED BY <2>2, <2>3
  <1>13. ASSUME NEW x \in Session
         PROVE  ReservationEnds(x)'
    BY <1>5, <1>10, ReservationIsLeft
  <1>14. approval' = approval
    BY DEF FinishExecute
  <1> QED BY <1>4, <1>8, <1>10, <1>11, <1>12, <1>13, <1>14, StepInv

-----------------------------------------------------------------------------
(* Decisions: the first in line                                            *)

LEMMA OthersQueue ==
  ASSUME IInv, NEW h \in Request, AtHead(h), NEW r \in Request, r # h
  PROVE  request[r].pc \in {"new", "queued", "done"}
  <1>1. request[r].pc \in {"new", "queued", "invoking", "waiting", "resumed", "done"}
    BY DEF IInv, TypeOK
  <1>2. request[r].pc \notin {"invoking", "waiting", "resumed"}
    BY DEF IInv, RequestIsSound, AtHead
  <1> QED BY <1>1, <1>2

(* No turn runs after an approval while the decision at the head has not   *)
(* resumed one.                                                            *)
LEMMA NoneResumed ==
  ASSUME IInv, NEW h \in Request, AtHead(h), request[h].pc # "resumed"
  PROVE  \A t \in Turn : turn[t].pc # "resumed"
  BY DEF IInv, ResumedIsSound, AtHead

(* #serialize: the request that may be decided is the head.                *)
LEMMA QueuedIsHead ==
  ASSUME IInv, NEW r \in Request, MayDecide(r)
  PROVE  AtHead(r)
  <1>1. PICK i \in 1 .. Len(decisions) : decisions[i] = r
    BY DEF IInv, RequestIsSound, MayDecide
  <1>2. decisions \in Seq(Request)
    BY DEF IInv, TypeOK
  <1>3. decisions # <<>>
    BY <1>1, <1>2
  <1> QED BY <1>3 DEF AtHead, MayDecide

(* Who is not the head stays in line when the head leaves.                 *)
LEMMA StaysInLine ==
  ASSUME NEW line \in Seq(Request), line # <<>>, NEW r, r # Head(line),
         NEW i \in 1 .. Len(line), line[i] = r
  PROVE  /\ Tail(line) \in Seq(Request)
         /\ \E j \in 1 .. Len(Tail(line)) : Tail(line)[j] = r
  <1>1. /\ Tail(line) \in Seq(Request) /\ Len(Tail(line)) = Len(line) - 1
        /\ \A j \in 1 .. Len(Tail(line)) : Tail(line)[j] = line[j + 1]
        /\ Head(line) = line[1] /\ Len(line) \in Nat
    OBVIOUS
  <1>2. i # 1
    BY <1>1
  <1>3. i - 1 \in 1 .. Len(Tail(line)) /\ (i - 1) + 1 = i
    BY <1>1, <1>2
  <1>4. Tail(line)[i - 1] = r
    BY <1>1, <1>3
  <1> QED BY <1>1, <1>3, <1>4

(* What the request that is past the queue holds.                          *)
LEMMA HeldFacts ==
  ASSUME IInv, NEW r \in Request, request[r].pc \in {"invoking", "waiting", "resumed"}
  PROVE  /\ AtHead(r)
         /\ request[r].approval \in Approval
         /\ request[r].held \in Continuation
         /\ request[r].held.turn \in Turn
         /\ approval[request[r].approval].turn = request[r].held.turn
         /\ turn[request[r].held.turn].pc \notin Early
         /\ turn[request[r].held.turn].session \in Session
         /\ continuation[turn[request[r].held.turn].session] # None
  <1> DEFINE a == request[r].approval
             t == request[r].held.turn
  <1>1. /\ AtHead(r) /\ a # None /\ approval[a].turn # None
        /\ request[r].held # None /\ t = approval[a].turn
    BY DEF IInv, RequestIsSound
  <1>2. a \in Approval /\ request[r].held \in Continuation /\ t \in Turn
    BY <1>1, TypeFacts DEF IInv
  <1>3. turn[t].pc \notin Early /\ continuation[turn[t].session] # None
    BY <1>1, <1>2 DEF IInv, ApprovalIsSound
  <1>4. turn[t].session \in Session
    BY <1>2, <1>3, TurnHasSession DEF Early
  <1> QED BY <1>1, <1>2, <1>3, <1>4

RequestType == [Request -> [pc : {"new", "queued", "invoking", "waiting",
                                  "resumed", "done"},
                            approval : Approval \cup {None},
                            want : {"approve", "deny", None},
                            held : Continuation \cup {None}]]

(* Request h is the first in line and is answered.                         *)
Answered(h) ==
    /\ AtHead(h) /\ request[h].pc # "new"
    /\ request' = [request EXCEPT ![h].pc = "done"]
    /\ decisions' = Tail(decisions)

(* When the head is answered, the others still wait in line.               *)
LEMMA AnsweredFacts ==
  ASSUME IInv, NEW h \in Request, Answered(h), Remembers
  PROVE  /\ request' \in RequestType /\ decisions' \in Seq(Request)
         /\ \A r \in Request : RequestIsSound(r)' /\ WaiterIsSound(r)'
  <1>1. request \in RequestType /\ decisions \in Seq(Request)
    BY DEF IInv, TypeOK, RequestType
  <1>2. /\ request' \in RequestType
        /\ request'[h].pc = "done" /\ request'[h].approval = request[h].approval
        /\ \A r \in Request : r # h => request'[r] = request[r]
    <2>1. request' = [request EXCEPT ![h].pc = "done"]
      BY DEF Answered
    <2> QED BY <1>1, <2>1 DEF RequestType
  <1>3. decisions # <<>> /\ h = Head(decisions) /\ decisions' = Tail(decisions)
    BY DEF Answered, AtHead
  <1>4. decisions' \in Seq(Request)
    BY <1>1, <1>3
  <1>5. ASSUME NEW r \in Request
        PROVE  RequestIsSound(r)' /\ WaiterIsSound(r)'
    <2>1. /\ RequestIsSound(r)
          /\ request'[r].approval = request[r].approval
          /\ r = h => request'[r].pc = "done"
          /\ r # h => request'[r].pc = request[r].pc
      BY <1>2 DEF IInv
    <2>2. request'[r].pc \in {"new", "queued", "done"}
      BY <1>2, OthersQueue DEF Answered
    <2>3. request[h].pc # "new"
      BY DEF Answered
    <2>4. request'[r].pc # "new" => /\ request[r].approval # None
                                    /\ approval'[request[r].approval].turn # None
      BY <2>1, <2>3, TypeFacts DEF IInv, RequestIsSound, Remembers
    <2>5. request'[r].pc = "queued" => \E j \in 1 .. Len(decisions') : decisions'[j] = r
      BY <1>1, <1>3, <2>1, StaysInLine DEF RequestIsSound
    <2> QED BY <2>1, <2>2, <2>4, <2>5 DEF RequestIsSound, WaiterIsSound
  <1> QED BY <1>2, <1>4, <1>5

(* What a step of a decision leaves alone.                                 *)
Deciding ==
    /\ up
    /\ UNCHANGED <<registered, continuation>>
    /\ \A u \in Turn : /\ Forward(u)
                       /\ turn'[u].session = turn[u].session
                       /\ turn[u].pc \in Pending => turn'[u].pc \in Pending
    /\ \A a \in Approval : approval'[a].turn = approval[a].turn
    /\ \A s \in Session : session'[s].reserved => session[s].reserved /\ Active(s)'
    /\ ToldRightly'

(* What is left to show of a step of the head of the line.                 *)
LEMMA DecidingInv ==
  ASSUME IInv, TypeOK', Deciding, Streams(hub', turn, approval),
         \A u \in Turn : TurnIsSound(u)' /\ ResumedIsSound(u)',
         \A r \in Request : RequestIsSound(r)' /\ WaiterIsSound(r)'
  PROVE  IInv'
  <1>1. Remembers /\ Continues
    BY DEF Deciding, Remembers, Continues
  <1>2. \A a \in Approval : ApprovalIsSound(a)'
    BY <1>1, ApprovalsStay DEF Deciding
  <1>3. \A s \in Session : SessionIsSound(s)'
    BY <1>1, SessionIsLeft DEF Deciding
  <1>4. hub' \in Hub
    BY DEF TypeOK
  <1>5. Streams(hub', turn', approval')
    BY <1>1, <1>4, StreamsLast
  <1>6. LogIsSound(hub, turn, approval)' /\ RecordsAreSound(hub, turn)'
    BY <1>5 DEF Streams
  <1>7. ASSUME NEW s \in Session
        PROVE  ReservationEnds(s)'
    <2> SUFFICES ASSUME session'[s].reserved, ApprovalsOf(s)' = {}
                 PROVE  \E u \in Turn : turn'[u].session = s /\ turn'[u].pc \in Pending
      BY DEF ReservationEnds
    <2>1. ApprovalsOf(s) = {}
      BY <1>1, ApprovalsLast
    <2>2. PICK u \in Turn : turn[u].session = s /\ turn[u].pc \in Pending
      BY <2>1 DEF IInv, ReservationsEnd, Deciding, Pending
    <2> QED BY <2>2 DEF Deciding
  <1>8. ReservationsEnd'
    BY <1>7, ReservationsEndEach
  <1> QED BY <1>2, <1>3, <1>6, <1>8 DEF IInv

(* What is left to show of a step that answers the head.                   *)
LEMMA AnsweredInv ==
  ASSUME IInv, TypeOK', Deciding, Streams(hub', turn, approval),
         NEW h \in Request, Answered(h),
         \A u \in Turn : TurnIsSound(u)' /\ turn'[u].pc # "resumed"
  PROVE  IInv'
  <1>1. Remembers
    BY DEF Deciding, Remembers
  <1>2. \A r \in Request : RequestIsSound(r)' /\ WaiterIsSound(r)'
    BY <1>1, AnsweredFacts
  <1>3. \A u \in Turn : ResumedIsSound(u)'
    BY DEF ResumedIsSound
  <1> QED BY <1>2, <1>3, DecidingInv

(* A decision that ends without moving a turn.                             *)
LEMMA AnsweredOnly ==
  ASSUME IInv, up, UNCHANGED <<up, turn, registered, continuation, resolved>>,
         NEW h \in Request, Answered(h), request[h].pc # "resumed",
         approval' \in [Approval -> [turn : Turn \cup {None}, expired : BOOLEAN,
                                    decision : {"approve", "deny", None}]],
         \A a \in Approval : approval'[a].turn = approval[a].turn,
         facade' \in [Approval -> [applied : BOOLEAN, lost : BOOLEAN]], ToldRightly',
         session' \in SessionType,
         \A s \in Session : session'[s].reserved => session[s].reserved /\ Active(s)',
         hub' \in Hub, Streams(hub', turn, approval),
         \A u \in Turn : u \in hub'.terminals
                           => u \in hub.terminals \/ turn[u].pc \notin Early
  PROVE  IInv'
  <1>1. Remembers /\ Continues
    BY DEF Remembers, Continues
  <1>2. request' \in RequestType /\ decisions' \in Seq(Request)
    BY <1>1, AnsweredFacts
  <1>3. TypeOK'
    BY <1>2 DEF IInv, TypeOK, RequestType, SessionType
  <1>4. Deciding
    BY DEF Deciding, Forward
  <1>5. \A u \in Turn : TurnIsSound(u)'
    BY <1>1, TurnIsLeft
  <1>6. \A u \in Turn : turn'[u].pc # "resumed"
    BY NoneResumed, SMTT(40) DEF Answered
  <1> QED BY <1>3, <1>4, <1>5, <1>6, AnsweredInv

LEMMA InvokeFailsInv ==
  ASSUME IInv, NEW r \in Request, NEW applied \in BOOLEAN, InvokeFails(r, applied)
  PROVE  IInv'
  <1> DEFINE a == request[r].approval
  <1>1. /\ request[r].pc = "invoking" /\ up /\ Answer(r)
        /\ facade' = [facade EXCEPT ![a].applied = @ \/ applied, ![a].lost = @ \/ applied]
        /\ UNCHANGED <<up, session, turn, registered, approval, continuation,
                       resolved, hub>>
    BY SettledIsUp, Zenon DEF InvokeFails
  <1>2. AtHead(r) /\ a \in Approval
    BY <1>1, HeldFacts
  <1> HIDE DEF a
  <1>3. Answered(r)
    BY <1>1, <1>2, Zenon DEF Answer, Answered
  <1>4. facade' \in [Approval -> [applied : BOOLEAN, lost : BOOLEAN]]
        /\ \A x \in Approval : facade'[x].applied /\ ~facade'[x].lost
                                => facade[x].applied /\ ~facade[x].lost
    <2>1. facade \in [Approval -> [applied : BOOLEAN, lost : BOOLEAN]]
      BY DEF IInv, TypeOK
    <2>2. facade' = [facade EXCEPT ![a].applied = @ \/ applied, ![a].lost = @ \/ applied]
      BY <1>1
    <2> DEFINE f == [facade[a] EXCEPT !.applied = @ \/ applied, !.lost = @ \/ applied]
    <2>3. /\ f \in [applied : BOOLEAN, lost : BOOLEAN]
          /\ f.applied /\ ~f.lost => facade[a].applied /\ ~facade[a].lost
      BY <1>2, <2>1
    <2>4. facade' = [facade EXCEPT ![a] = f]
      BY <1>2, <2>1, <2>2
    <2> HIDE DEF f
    <2> QED BY <1>2, <2>1, <2>3, <2>4
  <1>5. ToldRightly'
    <2>1. approval' = approval
      BY <1>1
    <2> QED BY <1>4, <2>1 DEF ToldRightly, IInv, ApprovalIsSound
  <1>6. \A s \in Session : session'[s].reserved => session[s].reserved /\ Active(s)'
    <2>1. session' = session
      BY <1>1
    <2> QED BY <2>1 DEF IInv, SessionIsSound, Active
  <1>7. /\ session' \in SessionType /\ hub' \in Hub
        /\ approval' \in [Approval -> [turn : Turn \cup {None}, expired : BOOLEAN,
                                       decision : {"approve", "deny", None}]]
    <2>1. session' = session /\ hub' = hub /\ approval' = approval
      BY <1>1
    <2> QED BY <2>1 DEF IInv, TypeOK, SessionType
  <1>8. Streams(hub', turn, approval)
    BY <1>1, NothingSent, Zenon
  <1>9. \A u \in Turn : u \in hub'.terminals
                         => u \in hub.terminals \/ turn[u].pc \notin Early
    BY <1>1, Zenon
  <1>10. UNCHANGED <<up, turn, registered, continuation, resolved>> /\ request[r].pc # "resumed"
    BY <1>1, Zenon
  <1>11. \A x \in Approval : approval'[x].turn = approval[x].turn
    BY <1>1, Zenon
  <1> QED BY <1>1, <1>3, <1>4, <1>5, <1>6, <1>7, <1>8, <1>9, <1>10, <1>11, AnsweredOnly, Zenon

ApprovalType == [Approval -> [turn : Turn \cup {None}, expired : BOOLEAN,
                              decision : {"approve", "deny", None}]]

(* The decision on approval a is taken.                                    *)
LEMMA DecisionUpdate ==
  ASSUME IInv, NEW a \in Approval, NEW d \in {"approve", "deny"},
         approval' = [approval EXCEPT ![a].decision = d]
  PROVE  /\ approval' \in ApprovalType
         /\ approval'[a].decision = d
         /\ \A x \in Approval : /\ approval'[x].turn = approval[x].turn
                                /\ x # a => approval'[x] = approval[x]
  <1>1. approval \in ApprovalType
    BY DEF IInv, TypeOK, ApprovalType
  <1> QED BY <1>1 DEF ApprovalType

(* What a decision on approval a finds.                                    *)
LEMMA AskedFacts ==
  ASSUME IInv, NEW r \in Request, request[r].pc # "new"
  PROVE  /\ request[r].approval \in Approval
         /\ approval[request[r].approval].turn \in Turn
         /\ turn[approval[request[r].approval].turn].pc \notin Early
         /\ turn[approval[request[r].approval].turn].session \in Session
         /\ continuation[turn[approval[request[r].approval].turn].session] # None
  <1> DEFINE a == request[r].approval
             v == approval[a].turn
  <1>1. a \in Approval /\ v # None
    BY TypeFacts DEF IInv, RequestIsSound
  <1>2. v \in Turn
    BY <1>1, TypeFacts DEF IInv
  <1>3. turn[v].pc \notin Early /\ continuation[turn[v].session] # None
    BY <1>1 DEF IInv, ApprovalIsSound
  <1>4. turn[v].session \in Session
    BY <1>2, <1>3, TurnHasSession DEF Early
  <1> QED BY <1>1, <1>2, <1>3, <1>4

(* The announcement of a decision to the turn that asked for it.           *)
LEMMA Announced ==
  ASSUME IInv, NEW a \in Approval, NEW t \in Turn, approval[a].turn = t,
         turn[t].session \in Session, t \notin hub.terminals,
         NEW d \in {"approve", "deny"}
  PROVE  LET e == EvA(t, d, a)
         IN  /\ e \in Event /\ e.turn = t /\ e.type = d
             /\ MayBeSent(hub, turn[t].session, e)
             /\ Emitted(hub, turn[t].session, e) \in Hub
             /\ Streams(Emitted(hub, turn[t].session, e), turn, approval)
             /\ Emitted(hub, turn[t].session, e).terminals = hub.terminals
  <1> DEFINE e == EvA(t, d, a)
  <1>1. e \in Event /\ e.turn = t /\ e.type = d /\ e.approval = a
    BY EventFacts
  <1> HIDE DEF e
  <1>2. MayBeSent(hub, turn[t].session, e)
    BY <1>1 DEF MayBeSent
  <1>3. e.type \notin Terminals
    BY <1>1 DEF Terminals
  <1>4. /\ Emitted(hub, turn[t].session, e) \in Hub
        /\ Streams(Emitted(hub, turn[t].session, e), turn, approval)
        /\ Emitted(hub, turn[t].session, e).terminals = hub.terminals
    BY <1>1, <1>2, <1>3, SentOne
  <1> QED BY <1>1, <1>2, <1>4 DEF e

(* The announcement and the end that comes with it.                        *)
LEMMA AnnouncedEnd ==
  ASSUME IInv, NEW a \in Approval, NEW t \in Turn, approval[a].turn = t,
         turn[t].session \in Session, t \notin hub.terminals,
         NEW d \in {"approve", "deny"}, NEW type \in {"completed", "failed"},
         type = "completed" => d = "deny"
  PROVE  LET s == turn[t].session
             g == Emitted(Emitted(hub, s, EvA(t, d, a)), s, Ev(t, type))
         IN  /\ g \in Hub
             /\ Streams(g, turn, approval)
             /\ g.terminals = hub.terminals \cup {t}
  <1> DEFINE s == turn[t].session
             c == EvA(t, d, a)
             e == Ev(t, type)
  <1>1. /\ c \in Event /\ c.turn = t /\ c.type = d
        /\ MayBeSent(hub, s, c)
    BY Announced
  <1>2. e \in Event /\ e.turn = t /\ e.type = type
    BY EventFacts DEF Terminals
  <1> HIDE DEF c, e
  <1>3. c.type \notin Terminals /\ e.type \in Terminals
    BY <1>1, <1>2 DEF Terminals
  <1>4. /\ Emitted(Emitted(hub, s, c), s, e) \in Hub
        /\ Streams(Emitted(Emitted(hub, s, c), s, e), turn, approval)
        /\ Emitted(Emitted(hub, s, c), s, e).terminals = hub.terminals \cup {e.turn}
    BY <1>1, <1>2, <1>3, SentTwo
  <1> QED BY <1>2, <1>4 DEF c, e

(* A decision that cannot be announced ends the process.                   *)
LEMMA CrashInv ==
  ASSUME IInv, up, up' = FALSE,
         UNCHANGED <<session, turn, registered, continuation, resolved, request,
                     decisions, hub>>,
         approval' \in ApprovalType,
         \A a \in Approval : approval'[a].turn = approval[a].turn,
         facade' \in [Approval -> [applied : BOOLEAN, lost : BOOLEAN]], ToldRightly'
  PROVE  IInv'
  <1>1. Remembers /\ Continues
    BY DEF Remembers, Continues
  <1>2. \A t \in Turn : Moves(t) /\ Forward(t)
    BY DEF Moves, Forward
  <1>3. \A t \in Turn : TurnIsSound(t)'
    BY <1>1, TurnIsLeft
  <1>4. \A s \in Session : session'[s].reserved => Active(s)'
    BY DEF IInv, SessionIsSound, Active
  <1>5. \A s \in Session : SessionIsSound(s)'
    BY <1>1, <1>2, <1>4, SessionIsLeft
  <1>6. TypeOK'
    BY ZenonT(60) DEF IInv, TypeOK, ApprovalType
  <1>7. ReservationsEnd'
    BY DEF ReservationsEnd
  <1> QED BY <1>1, <1>2, <1>3, <1>5, <1>6, <1>7, NothingSent, QuietInv

LEMMA DecideInv ==
  ASSUME IInv, NEW r \in Request, Decide(r)
  PROVE  IInv'
  <1> DEFINE a == request[r].approval
             s == turn[approval[a].turn].session
             t == continuation[s].turn
             refused == \/ approval[a].expired
                        \/ ~Matches(s, a)
                        \/ approval[a].decision # None
  <1>1. /\ up /\ request[r].pc = "queued" /\ AtHead(r)
        /\ UNCHANGED <<turn, registered, continuation, resolved, facade>>
    BY SettledIsUp, QueuedIsHead, Zenon DEF Decide, MayDecide
  <1>2. /\ a \in Approval /\ approval[a].turn \in Turn
        /\ turn[approval[a].turn].pc \notin Early
        /\ s \in Session /\ continuation[s] # None
    BY <1>1, AskedFacts
  <1>3. \A x \in Session : session[x].reserved => Active(x)
    BY DEF IInv, SessionIsSound
  <1>4. session \in SessionType /\ approval \in ApprovalType
        /\ facade \in [Approval -> [applied : BOOLEAN, lost : BOOLEAN]]
    BY DEF IInv, TypeOK, SessionType, ApprovalType
  <1>8. ~refused => t = approval[a].turn /\ t \in Turn /\ approval[a].decision = None
    <2>1. ~refused => Matches(s, a) /\ approval[a].decision = None
      OBVIOUS
    <2> HIDE DEF refused, t
    <2>2. Matches(s, a) => t = approval[a].turn
      BY <1>2 DEF Matches, t
    <2> QED BY <1>2, <2>1, <2>2
  <1> HIDE DEF a, s, t, refused
  <1>5. CASE refused /\ Answer(r) /\ UNCHANGED <<up, session, approval, hub>>
    <2>1. Answered(r)
      BY <1>1, <1>5 DEF Answered, Answer
    <2>2. ToldRightly'
      BY <1>1, <1>5, ToldAsBefore
    <2>3. hub' \in Hub /\ Streams(hub', turn, approval)
      BY <1>5, HubFacts
    <2>4. \A x \in Session : session'[x].reserved => session[x].reserved /\ Active(x)'
      BY <1>3, <1>5 DEF Active
    <2> QED BY <1>1, <1>4, <1>5, <2>1, <2>2, <2>3, <2>4, AnsweredOnly DEF ApprovalType
  <1>6. CASE /\ ~refused /\ request[r].want = "approve"
             /\ request' = [request EXCEPT ![r].pc = "invoking", ![r].held = continuation[s]]
             /\ UNCHANGED <<up, session, approval, decisions, hub>>
    <2>1. t = approval[a].turn /\ t \in Turn /\ approval[a].decision = None
      <3>1. ~refused
        BY <1>6
      <3> QED BY <1>8, <3>1
    <2>2. /\ request' \in RequestType
          /\ request'[r].pc = "invoking" /\ request'[r].approval = a
          /\ request'[r].held = continuation[s]
          /\ \A x \in Request : x # r => request'[x] = request[x]
      <3>1. request \in RequestType /\ continuation[s] \in Continuation \cup {None}
        BY <1>2 DEF IInv, TypeOK, RequestType
      <3>2. request' = [request EXCEPT ![r].pc = "invoking", ![r].held = continuation[s]]
        BY <1>6
      <3> QED BY <3>1, <3>2 DEF RequestType, a
    <2>3. TypeOK'
      BY <1>1, <1>6, <2>2, Zenon DEF IInv, TypeOK, RequestType
    <2>4. ToldRightly'
      BY <1>1, <1>6, ToldAsBefore
    <2>5. Deciding
      BY <1>1, <1>3, <1>6, <2>4 DEF Deciding, Forward, Active
    <2>6. hub' \in Hub /\ Streams(hub', turn, approval) /\ Continues
      BY <1>1, <1>6, HubFacts DEF Continues
    <2>7. \A u \in Turn : TurnIsSound(u)'
      BY <1>1, <1>6, <2>6, TurnIsLeft
    <2>8. \A u \in Turn : ResumedIsSound(u)'
      BY <1>1, NoneResumed DEF ResumedIsSound
    <2>9. RequestIsSound(r)' /\ WaiterIsSound(r)'
      <3>1. ~continuation[s].prepared => turn[t].pc # "prompting"
        BY <1>2, Zenon DEF IInv, SessionIsSound, t
      <3>2. AtHead(r)'
        BY <1>1, <1>6 DEF AtHead
      <3>3. a # None /\ approval[a].turn # None
        BY <1>2, NoneAssumption
      <3>4. RequestIsSound(r)'
        <4>1. turn' = turn /\ approval' = approval
          BY <1>1, <1>6
        <4>2. /\ request'[r].held # None
              /\ request'[r].held.turn = approval'[request'[r].approval].turn
          BY <1>2, <2>1, <2>2, <4>1 DEF t
        <4>3. ~request'[r].held.prepared => turn'[request'[r].held.turn].pc # "prompting"
          BY <2>2, <3>1, <4>1 DEF t
        <4>4. /\ request'[r].approval # None /\ approval'[request'[r].approval].turn # None
              /\ approval'[request'[r].approval].decision = None
          BY <2>1, <2>2, <3>3, <4>1
        <4>5. request'[r].pc = "invoking" /\ request'[r].pc # "queued"
          BY <2>2
        <4> QED BY <3>2, <4>2, <4>3, <4>4, <4>5, Zenon DEF RequestIsSound
      <3>5. WaiterIsSound(r)'
        BY <2>2 DEF WaiterIsSound
      <3> QED BY <3>4, <3>5
    <2>10. ASSUME NEW x \in Request, x # r
           PROVE  RequestIsSound(x)' /\ WaiterIsSound(x)'
      <3>1. request[x].pc \in {"new", "queued", "done"} /\ RequestIsSound(x)
        BY <1>1, <2>10, OthersQueue DEF IInv
      <3>2. request'[x] = request[x]
        BY <2>2, <2>10
      <3> QED BY <1>6, <3>1, <3>2, Zenon DEF RequestIsSound, WaiterIsSound
    <2> QED BY <2>3, <2>5, <2>6, <2>7, <2>8, <2>9, <2>10, DecidingInv
  <1>7. CASE /\ ~refused /\ request[r].want = "deny"
             /\ approval' = [approval EXCEPT ![a].decision = "deny"]
             /\ IF MayEmit(t)
                THEN /\ hub' = Emitted(Emitted(hub, s, EvA(t, "deny", a)), s,
                                       Ev(t, "completed"))
                     /\ session' = Released(s)
                     /\ Answer(r)
                     /\ UNCHANGED up
                ELSE /\ up' = FALSE
                     /\ UNCHANGED <<hub, session, request, decisions>>
    <2>1. t = approval[a].turn /\ t \in Turn /\ approval[a].decision = None
      <3>1. ~refused
        BY <1>7
      <3> QED BY <1>8, <3>1
    <2>2. /\ approval' \in ApprovalType
          /\ \A x \in Approval : approval'[x].turn = approval[x].turn
          /\ \A x \in Approval : x # a => approval'[x] = approval[x]
      BY <1>2, <1>7, DecisionUpdate, Zenon
    <2>3. ToldRightly'
      <3>1. ~(facade[a].applied /\ ~facade[a].lost)
        BY <1>2, <2>1, NoneAssumption DEF IInv, ApprovalIsSound
      <3> QED BY <1>1, <2>2, <3>1 DEF ToldRightly, IInv, ApprovalIsSound
    <2>4. CASE ~MayEmit(t)
      BY <1>1, <1>4, <1>7, <2>2, <2>3, <2>4, CrashInv
    <2>5. CASE MayEmit(t)
      <3>1. /\ hub' = Emitted(Emitted(hub, s, EvA(t, "deny", a)), s, Ev(t, "completed"))
            /\ session' = Released(s) /\ Answer(r) /\ UNCHANGED up
        BY <1>7, <2>5
      <3>2. Answered(r)
        BY <1>1, <3>1, Zenon DEF Answered, Answer
      <3>3. s = turn[t].session /\ t \notin hub.terminals
        BY <2>1, <2>5 DEF MayEmit, s
      <3>4. hub' \in Hub /\ Streams(hub', turn, approval)
            /\ hub'.terminals = hub.terminals \cup {t}
        BY <1>2, <2>1, <3>1, <3>3, AnnouncedEnd
      <3>5. /\ session' \in SessionType
            /\ \A x \in Session : session'[x].reserved => session[x].reserved /\ Active(x)'
        BY <1>2, <3>1, ReleasedStep, Zenon
      <3>6. \A u \in Turn : u \in hub'.terminals
                             => u \in hub.terminals \/ turn[u].pc \notin Early
        BY <1>2, <2>1, <3>4
      <3> QED BY <1>1, <1>4, <2>2, <2>3, <3>1, <3>2, <3>4, <3>5, <3>6, AnsweredOnly, Zenon
              DEF ApprovalType
    <2> QED BY <2>4, <2>5
  <1> QED BY <1>5, <1>6, <1>7, Zenon DEF Decide, a, s, t, refused

LEMMA InvokeAnswersInv ==
  ASSUME IInv, NEW r \in Request, InvokeAnswers(r)
  PROVE  IInv'
  <1> DEFINE a == request[r].approval
             t == request[r].held.turn
             s == turn[t].session
             said == Emitted(hub, s, EvA(t, "approve", a))
  <1>1. /\ up /\ request[r].pc = "invoking"
        /\ UNCHANGED <<turn, registered, continuation, resolved>>
        /\ approval' = [approval EXCEPT ![a].decision = "approve"]
        /\ facade' = [facade EXCEPT ![a].applied = TRUE]
    BY SettledIsUp DEF InvokeAnswers
  <1>2. /\ AtHead(r) /\ a \in Approval /\ t \in Turn /\ approval[a].turn = t
        /\ turn[t].pc \notin Early /\ s \in Session
    BY <1>1, HeldFacts
  <1>3. /\ approval' \in ApprovalType
        /\ approval'[a].decision = "approve"
        /\ \A x \in Approval : approval'[x].turn = approval[x].turn
        /\ \A x \in Approval : x # a => approval'[x] = approval[x]
    BY <1>1, <1>2, DecisionUpdate
  <1>4. /\ facade' \in [Approval -> [applied : BOOLEAN, lost : BOOLEAN]]
        /\ \A x \in Approval : x # a => facade'[x] = facade[x]
    <2>1. facade \in [Approval -> [applied : BOOLEAN, lost : BOOLEAN]]
      BY DEF IInv, TypeOK
    <2> QED BY <1>1, <1>2, <2>1
  <1>5. ToldRightly'
    BY <1>3, <1>4 DEF ToldRightly, IInv, ApprovalIsSound
  <1>6. session \in SessionType /\ \A x \in Session : session[x].reserved => Active(x)
    BY DEF IInv, TypeOK, SessionType, SessionIsSound
  <1>7. CASE ~MayEmit(t)
    <2>1. up' = FALSE /\ UNCHANGED <<hub, session, request, decisions>>
      BY <1>7 DEF InvokeAnswers
    <2> QED BY <1>1, <1>3, <1>4, <1>5, <2>1, CrashInv
  <1>8. CASE MayEmit(t)
    <2>1. t \notin hub.terminals
      BY <1>8 DEF MayEmit
    <2>2. said \in Hub /\ Streams(said, turn, approval) /\ said.terminals = hub.terminals
      BY <1>2, <2>1, Announced
    <2>3. CASE ~Active(s) \/ approval[a].expired
      <3>1. hub' = said /\ Answer(r) /\ UNCHANGED <<up, session>>
        BY <1>8, <2>3 DEF InvokeAnswers
      <3>2. Answered(r)
        BY <1>1, <1>2, <3>1 DEF Answered, Answer
      <3>3. \A x \in Session : session'[x].reserved => session[x].reserved /\ Active(x)'
        BY <1>6, <3>1, Zenon DEF Active
      <3> HIDE DEF said
      <3> QED BY <1>1, <1>3, <1>4, <1>5, <1>6, <2>2, <3>1, <3>2, <3>3, AnsweredOnly
              DEF ApprovalType
    <2>4. CASE Active(s) /\ ~approval[a].expired /\ turn[t].late
      <3>1. /\ hub' = Emitted(said, s, Ev(t, "failed"))
            /\ session' = Released(s) /\ Answer(r) /\ UNCHANGED up
        BY <1>8, <2>4 DEF InvokeAnswers
      <3>2. Answered(r)
        BY <1>1, <1>2, <3>1, Zenon DEF Answered, Answer
      <3>3. hub' \in Hub /\ Streams(hub', turn, approval)
            /\ hub'.terminals = hub.terminals \cup {t}
        BY <1>2, <2>1, <3>1, AnnouncedEnd, Zenon
      <3>4. /\ session' \in SessionType
            /\ \A x \in Session : session'[x].reserved => session[x].reserved /\ Active(x)'
        BY <1>2, <3>1, ReleasedStep, Zenon
      <3>5. \A u \in Turn : u \in hub'.terminals
                             => u \in hub.terminals \/ turn[u].pc \notin Early
        BY <1>2, <3>3
      <3> QED BY <1>1, <1>3, <1>4, <1>5, <3>1, <3>2, <3>3, <3>4, <3>5, AnsweredOnly, Zenon
              DEF ApprovalType
    <2>5. CASE Active(s) /\ ~approval[a].expired /\ ~turn[t].late
      <3>1. /\ hub' = said /\ request' = [request EXCEPT ![r].pc = "waiting"]
            /\ UNCHANGED <<up, session, decisions>>
        BY <1>8, <2>5 DEF InvokeAnswers
      <3>2. /\ request' \in RequestType
            /\ request'[r].pc = "waiting" /\ request'[r].approval = a
            /\ request'[r].held = request[r].held
            /\ \A x \in Request : x # r => request'[x] = request[x]
        <4>1. request \in RequestType
          BY DEF IInv, TypeOK, RequestType
        <4>2. request' = [request EXCEPT ![r].pc = "waiting"]
          BY <3>1
        <4> QED BY <4>1, <4>2 DEF RequestType
      <3> HIDE DEF said
      <3>3. TypeOK'
        BY <1>1, <1>3, <1>4, <2>2, <3>1, <3>2 DEF IInv, TypeOK, RequestType, ApprovalType
      <3>4. Deciding
        BY <1>1, <1>3, <1>5, <1>6, <3>1 DEF Deciding, Forward, Active
      <3>5. Continues
        BY <1>1 DEF Continues
      <3>6. \A u \in Turn : TurnIsSound(u)'
        BY <1>1, <2>2, <3>1, <3>5, TurnIsLeft
      <3>7. \A u \in Turn : ResumedIsSound(u)'
        BY <1>1, <1>2, NoneResumed DEF ResumedIsSound
      <3>8. RequestIsSound(r)' /\ WaiterIsSound(r)'
        <4>1. RequestIsSound(r)
          BY DEF IInv
        <4>2. RequestIsSound(r)'
          BY <1>1, <1>2, <1>3, <3>1, <3>2, <4>1 DEF RequestIsSound, AtHead
        <4>3. WaiterIsSound(r)'
          BY <2>1, <2>2, <3>1, <3>2 DEF WaiterIsSound
        <4> QED BY <4>2, <4>3
      <3>9. ASSUME NEW x \in Request, x # r
            PROVE  RequestIsSound(x)' /\ WaiterIsSound(x)'
        <4>1. request[x].pc \in {"new", "queued", "done"} /\ RequestIsSound(x)
          BY <1>2, <3>9, OthersQueue DEF IInv
        <4>2. request'[x] = request[x]
          BY <3>2, <3>9
        <4>3. request[x].pc # "new" => approval'[request[x].approval].turn # None
          BY <1>3, <4>1, TypeFacts DEF RequestIsSound, IInv
        <4> QED BY <3>1, <4>1, <4>2, <4>3 DEF RequestIsSound, WaiterIsSound
      <3> QED BY <2>2, <3>1, <3>3, <3>4, <3>6, <3>7, <3>8, <3>9, DecidingInv
    <2> QED BY <2>3, <2>4, <2>5
  <1> QED BY <1>7, <1>8

(* The turn is resumed: no longer awaiting its decision.                   *)
LEMMA ResumedUpdate ==
  ASSUME IInv, NEW t \in Turn,
         turn' = [turn EXCEPT ![t].pc = "resumed", ![t].awaiting = FALSE]
  PROVE  /\ turn' \in [Turn -> TurnRecord]
         /\ turn'[t].pc = "resumed" /\ turn'[t].session = turn[t].session
         /\ turn'[t].state = turn[t].state
         /\ turn'[t].cancelled = turn[t].cancelled
         /\ \A u \in Turn : u # t => turn'[u] = turn[u]
  <1>1. turn \in [Turn -> TurnRecord]
    BY DEF IInv, TypeOK
  <1> DEFINE q == [turn[t] EXCEPT !.pc = "resumed", !.awaiting = FALSE]
  <1>2. /\ q \in TurnRecord /\ q.pc = "resumed" /\ q.session = turn[t].session
        /\ q.state = turn[t].state /\ q.cancelled = turn[t].cancelled
    BY <1>1 DEF TurnRecord
  <1>3. turn' = [turn EXCEPT ![t] = q]
    BY <1>1
  <1> HIDE DEF q
  <1> QED BY <1>1, <1>2, <1>3

LEMMA ResumeInv ==
  ASSUME IInv, NEW r \in Request, Resume(r)
  PROVE  IInv'
  <1> DEFINE t == request[r].held.turn
  <1>1. /\ up /\ request[r].pc = "waiting" /\ Ready(request[r].held)
        /\ UNCHANGED <<up, registered, approval, continuation, resolved, hub, facade>>
    BY DEF Resume
  <1>2. /\ AtHead(r) /\ t \in Turn /\ turn[t].pc \notin Early
        /\ turn[t].session \in Session /\ continuation[turn[t].session] # None
    BY <1>1, HeldFacts
  <1>3. session \in SessionType /\ \A x \in Session : session[x].reserved => Active(x)
    BY DEF IInv, TypeOK, SessionType, SessionIsSound
  <1>4. ToldRightly' /\ Continues /\ hub' \in Hub /\ Streams(hub', turn, approval)
    BY <1>1, ToldAsBefore, HubFacts, Zenon DEF Continues
  <1>5. CASE turn[t].state # "running"
    <2>1. session' = Released(turn[t].session) /\ Answer(r) /\ UNCHANGED turn
      BY <1>5 DEF Resume
    <2>2. Answered(r)
      BY <1>1, <1>2, <2>1, Zenon DEF Answered, Answer
    <2>3. /\ session' \in SessionType
          /\ \A x \in Session : session'[x].reserved => session[x].reserved /\ Active(x)'
      BY <1>2, <2>1, ReleasedStep, Zenon
    <2>4. approval' \in ApprovalType
          /\ facade' \in [Approval -> [applied : BOOLEAN, lost : BOOLEAN]]
      BY <1>1 DEF IInv, TypeOK, ApprovalType
    <2>5. /\ UNCHANGED <<up, turn, registered, continuation, resolved>>
          /\ approval' = approval /\ hub' = hub /\ request[r].pc # "resumed"
      BY <1>1, <2>1, Zenon
    <2>6. \A x \in Approval : approval'[x].turn = approval[x].turn
      BY <2>5, Zenon
    <2>7. \A u \in Turn : u \in hub'.terminals
                           => u \in hub.terminals \/ turn[u].pc \notin Early
      BY <2>5, Zenon
    <2> QED BY <1>1, <1>4, <2>2, <2>3, <2>4, <2>5, <2>6, <2>7, AnsweredOnly, Zenon
            DEF ApprovalType
  <1>6. CASE turn[t].state = "running"
    <2>1. /\ turn' = [turn EXCEPT ![t].pc = "resumed", ![t].awaiting = FALSE]
          /\ request' = [request EXCEPT ![r].pc = "resumed"]
          /\ UNCHANGED <<session, decisions>>
      BY <1>6, Zenon DEF Resume
    <2>2. /\ turn' \in [Turn -> TurnRecord]
          /\ turn'[t].pc = "resumed" /\ turn'[t].session = turn[t].session
          /\ turn'[t].state = turn[t].state
          /\ turn'[t].cancelled = turn[t].cancelled
          /\ \A u \in Turn : u # t => turn'[u] = turn[u]
      BY <1>2, <2>1, ResumedUpdate, Zenon
    <2>3. /\ request' \in RequestType
          /\ request'[r].pc = "resumed" /\ request'[r].approval = request[r].approval
          /\ request'[r].held = request[r].held
          /\ \A x \in Request : x # r => request'[x] = request[x]
      <3>1. request \in RequestType
        BY DEF IInv, TypeOK, RequestType
      <3>2. request' = [request EXCEPT ![r].pc = "resumed"]
        BY <2>1
      <3> QED BY <3>1, <3>2 DEF RequestType
    <2>4. TypeOK'
      BY <1>1, <2>1, <2>2, <2>3, Zenon DEF IInv, TypeOK, RequestType
    <2>5. turn[t].pc \notin Before
      <3>1. ~request[r].held.prepared => turn[t].pc # "prompting"
        BY <1>1 DEF IInv, RequestIsSound
      <3>2. request[r].held.prepared => t \in resolved
        BY <1>1, Zenon DEF Ready
      <3> QED BY <1>2, <3>1, <3>2 DEF IInv, TurnIsSound, Before
    <2>6. Deciding
      <3>1. \A u \in Turn : /\ Forward(u)
                            /\ turn'[u].session = turn[u].session
                            /\ turn[u].pc \in Pending => turn'[u].pc \in Pending
        BY <2>2, <2>5 DEF Forward, Pending, Before, Early
      <3>2. \A x \in Session : session'[x].reserved => session[x].reserved /\ Active(x)'
        BY <1>3, <2>1, Zenon DEF Active
      <3> QED BY <1>1, <1>3, <1>4, <2>1, <3>1, <3>2, Zenon DEF Deciding
    <2>7. \A u \in Turn : TurnIsSound(u)'
      <3>1. \A u \in Turn : u # t => TurnIsSound(u)'
        BY <1>1, <1>4, <2>2, TurnIsLeft
      <3>2. ASSUME NEW u \in Turn, u = t
            PROVE  TurnIsSound(u)'
        BY <1>1, <1>2, <2>2, <3>2, NoneAssumption DEF TurnIsSound, Before, Early
      <3> QED BY <3>1, <3>2
    <2>8. ASSUME NEW u \in Turn
          PROVE  ResumedIsSound(u)'
      <3>1. CASE u # t
        <4>1. turn'[u].pc # "resumed"
          BY <1>1, <1>2, <2>2, <3>1, NoneResumed
        <4> QED BY <4>1 DEF ResumedIsSound
      <3>2. CASE u = t
        <4>1. t \in hub.terminals => turn[t].cancelled
          <5>1. WaiterIsSound(r)
            BY DEF IInv
          <5>2. t \in hub.terminals /\ ~turn[t].cancelled
                  => request[r].held.prepared /\ t \notin resolved
            BY <1>1, <1>6, <5>1 DEF WaiterIsSound
          <5>3. request[r].held.prepared => t \in resolved
            BY <1>1 DEF Ready
          <5>4. turn[t] \in TurnRecord
            BY <1>2, TypeFacts DEF IInv
          <5>5. turn[t].cancelled \in BOOLEAN
            BY <5>4, RecordFacts
          <5> QED BY <5>2, <5>3, <5>5
        <4>2. AtHead(r)'
          BY <1>2, <2>1, Zenon DEF AtHead
        <4> QED BY <1>1, <2>2, <2>3, <3>2, <4>1, <4>2 DEF ResumedIsSound
      <3> QED BY <3>1, <3>2
    <2>9. RequestIsSound(r)' /\ WaiterIsSound(r)'
      <3>1. RequestIsSound(r)
        BY DEF IInv
      <3>2. RequestIsSound(r)'
        <4>1. /\ request[r].approval # None /\ approval[request[r].approval].turn # None
              /\ request[r].held # None
              /\ request[r].held.turn = approval[request[r].approval].turn
          BY <1>1, <3>1, Zenon DEF RequestIsSound
        <4>2. AtHead(r)'
          BY <1>2, <2>1, Zenon DEF AtHead
        <4>3. approval' = approval
          BY <1>1
        <4>4. turn'[request'[r].held.turn].pc # "prompting"
          BY <2>2, <2>3, Zenon
        <4>5. /\ request'[r].approval # None /\ approval'[request'[r].approval].turn # None
              /\ request'[r].held # None
              /\ request'[r].held.turn = approval'[request'[r].approval].turn
          BY <2>3, <4>1, <4>3, Zenon
        <4>6. request'[r].pc # "queued" /\ request'[r].pc # "invoking"
          BY <2>3, Zenon
        <4> QED BY <4>2, <4>4, <4>5, <4>6, Zenon DEF RequestIsSound
      <3>3. WaiterIsSound(r)'
        BY <2>3, Zenon DEF WaiterIsSound
      <3> QED BY <3>2, <3>3
    <2>10. ASSUME NEW x \in Request, x # r
           PROVE  RequestIsSound(x)' /\ WaiterIsSound(x)'
      <3>1. request[x].pc \in {"new", "queued", "done"} /\ RequestIsSound(x)
        BY <1>2, <2>10, OthersQueue DEF IInv
      <3>2. request'[x] = request[x]
        BY <2>3, <2>10
      <3> QED BY <1>1, <2>1, <3>1, <3>2, Zenon DEF RequestIsSound, WaiterIsSound
    <2> QED BY <1>4, <2>4, <2>6, <2>7, <2>8, <2>9, <2>10, DecidingInv
  <1> QED BY <1>5, <1>6

LEMMA PostDecisionInv ==
  ASSUME IInv, NEW r \in Request, NEW a \in Approval, NEW want \in {"approve", "deny"},
         PostDecision(r, a, want)
  PROVE  IInv'
  <1> DEFINE q == [pc |-> "queued", approval |-> a, want |-> want, held |-> None]
  <1>1. /\ up /\ request[r].pc = "new" /\ approval[a].turn # None
        /\ request' = [request EXCEPT ![r] = q]
        /\ decisions' = Append(decisions, r)
        /\ UNCHANGED <<up, session, turn, registered, approval, continuation,
                       resolved, hub, facade>>
    BY SettledIsUp DEF PostDecision
  <1>2. request \in RequestType /\ decisions \in Seq(Request)
    BY DEF IInv, TypeOK, RequestType
  <1>3. /\ request' \in RequestType
        /\ request'[r].pc = "queued" /\ request'[r].approval = a
        /\ \A x \in Request : x # r => request'[x] = request[x]
    BY <1>1, <1>2 DEF RequestType
  <1>4. /\ decisions' \in Seq(Request) /\ decisions' # <<>>
        /\ Len(decisions') = Len(decisions) + 1 /\ Len(decisions) \in Nat
        /\ decisions'[Len(decisions) + 1] = r
        /\ \A i \in 1 .. Len(decisions) : decisions'[i] = decisions[i]
        /\ decisions # <<>> => Head(decisions') = Head(decisions)
    BY <1>1, <1>2
  <1>5. TypeOK'
    BY <1>1, <1>3, <1>4 DEF IInv, TypeOK, RequestType
  <1>6. ToldRightly' /\ Continues /\ Streams(hub', turn, approval)
    BY <1>1, ToldAsBefore, HubFacts DEF Continues
  <1>7. Deciding
    BY <1>1, <1>6 DEF Deciding, Forward, Active, IInv, SessionIsSound
  <1>8. \A u \in Turn : TurnIsSound(u)'
    BY <1>1, <1>6, TurnIsLeft
  <1>9. ASSUME NEW x \in Request
        PROVE  AtHead(x) => AtHead(x)'
    BY <1>4 DEF AtHead
  <1>10. ASSUME NEW u \in Turn
         PROVE  ResumedIsSound(u)'
    <2> SUFFICES ASSUME turn[u].pc = "resumed"
                 PROVE  /\ u \in hub.terminals => turn[u].cancelled
                        /\ \E x \in Request : /\ AtHead(x)'
                                              /\ request'[x].pc = "resumed"
                                              /\ request'[x].held.turn = u
      BY <1>1 DEF ResumedIsSound
    <2>1. u \in hub.terminals => turn[u].cancelled
      BY DEF IInv, ResumedIsSound
    <2>2. PICK x \in Request : AtHead(x) /\ request[x].pc = "resumed"
                               /\ request[x].held.turn = u
      BY DEF IInv, ResumedIsSound
    <2>3. request'[x] = request[x]
      BY <1>1, <1>3, <2>2
    <2> QED BY <1>9, <2>1, <2>2, <2>3
  <1>11. ASSUME NEW x \in Request
         PROVE  RequestIsSound(x)' /\ WaiterIsSound(x)'
    <2>1. CASE x = r
      <3>1. \E i \in 1 .. Len(decisions') : decisions'[i] = x
        <4>1. Len(decisions) + 1 \in 1 .. Len(decisions')
          BY <1>4
        <4> QED BY <1>4, <2>1, <4>1
      <3> QED BY <1>1, <1>3, <2>1, <3>1, NoneAssumption DEF RequestIsSound, WaiterIsSound
    <2>2. CASE x # r
      <3>1. request'[x] = request[x] /\ RequestIsSound(x) /\ WaiterIsSound(x)
        BY <1>3, <2>2 DEF IInv
      <3>2. request[x].pc = "queued" => \E i \in 1 .. Len(decisions') : decisions'[i] = x
        <4> SUFFICES ASSUME request[x].pc = "queued"
                     PROVE  \E i \in 1 .. Len(decisions') : decisions'[i] = x
          OBVIOUS
        <4>1. PICK i \in 1 .. Len(decisions) : decisions[i] = x
          BY <3>1 DEF RequestIsSound
        <4>2. i \in 1 .. Len(decisions') /\ decisions'[i] = x
          BY <1>4, <4>1
        <4> QED BY <4>2
      <3>3. RequestIsSound(x)'
        BY <1>1, <1>9, <3>1, <3>2 DEF RequestIsSound
      <3>4. WaiterIsSound(x)'
        BY <1>1, <3>1 DEF WaiterIsSound
      <3> QED BY <3>3, <3>4
    <2> QED BY <2>1, <2>2
  <1> QED BY <1>5, <1>6, <1>7, <1>8, <1>10, <1>11, DecidingInv

(* A resumed turn t ends its run: its decision is answered.                *)
LEMMA ResumedEnds ==
  ASSUME IInv, up, NEW t \in Turn, turn[t].pc = "resumed",
         turn' \in [Turn -> TurnRecord], turn'[t].pc \in {"parked", "over"},
         turn'[t].session = turn[t].session,
         \A u \in Turn : u # t => turn'[u] = turn[u],
         session' = Released(turn[t].session),
         request' = [request EXCEPT ![Head(decisions)].pc = "done"],
         decisions' = Tail(decisions),
         UNCHANGED <<up, registered, approval, continuation, resolved, facade>>,
         hub' \in Hub, Streams(hub', turn, approval),
         \A u \in Turn : u # t => (u \in hub'.terminals => u \in hub.terminals)
  PROVE  IInv'
  <1>1. PICK h \in Request : AtHead(h) /\ request[h].pc = "resumed"
                             /\ request[h].held.turn = t
    BY DEF IInv, ResumedIsSound
  <1>2. Answered(h)
    BY <1>1 DEF Answered, AtHead
  <1>3. turn[t].session \in Session /\ continuation[turn[t].session] # None
    BY TurnHasSession DEF IInv, TurnIsSound
  <1>4. /\ session' \in SessionType
        /\ \A x \in Session : session'[x].reserved => session[x].reserved /\ Active(x)'
    BY <1>3, ReleasedFacts DEF Active
  <1>5. ToldRightly' /\ Continues
    BY ToldAsBefore DEF Continues
  <1>6. \A u \in Turn : /\ Forward(u)
                        /\ turn'[u].session = turn[u].session
                        /\ turn[u].pc \in Pending => turn'[u].pc \in Pending
    BY DEF Forward, Pending, Before, Early
  <1>7. Deciding
    BY <1>4, <1>5, <1>6 DEF Deciding
  <1>8. Remembers
    BY <1>6 DEF Remembers
  <1>9. request' \in RequestType /\ decisions' \in Seq(Request)
    BY <1>2, <1>8, AnsweredFacts
  <1>10. TypeOK'
    BY <1>4, <1>9 DEF IInv, TypeOK, RequestType, SessionType
  <1>11. \A u \in Turn : u # t => TurnIsSound(u)'
    BY <1>5, TurnIsLeft
  <1>12. TurnIsSound(t)'
    BY <1>3, NoneAssumption DEF TurnIsSound, Before, Early
  <1>13. \A u \in Turn : turn'[u].pc # "resumed"
    BY <1>1 DEF IInv, ResumedIsSound, AtHead
  <1> QED BY <1>2, <1>7, <1>10, <1>11, <1>12, <1>13, AnsweredInv

(* The end of a run that an approval resumed.                              *)
LEMMA FinishDispatchInv ==
  ASSUME IInv, up, NEW t \in Turn, NEW outcome \in {"running"} \cup Terminals,
         FinishDispatch(t, outcome)
  PROVE  IInv'
  <1> DEFINE s == turn[t].session
  <1>1. /\ turn' \in [Turn -> TurnRecord]
        /\ turn'[t].pc = (IF outcome = "running" THEN "parked" ELSE "over")
        /\ turn'[t].session = turn[t].session
        /\ turn'[t].state = outcome
        /\ turn'[t].cancelled = turn[t].cancelled
        /\ \A u \in Turn : u # t => turn'[u] = turn[u]
    <2> DEFINE pc == IF outcome = "running" THEN "parked" ELSE "over"
    <2>1. /\ pc \in {"parked", "over"}
          /\ turn' = [turn EXCEPT ![t].state = outcome, ![t].pc = pc]
      BY DEF FinishDispatch
    <2> HIDE DEF pc
    <2>2. /\ turn' \in [Turn -> TurnRecord]
          /\ turn'[t].pc = pc
          /\ turn'[t].session = turn[t].session
          /\ turn'[t].state = outcome
          /\ turn'[t].cancelled = turn[t].cancelled
          /\ \A u \in Turn : u # t => turn'[u] = turn[u]
      BY <2>1, OutcomeUpdate
    <2> QED BY <2>2 DEF pc
  <1>2. /\ turn[t].pc = "resumed"
        /\ UNCHANGED <<registered, approval, continuation, resolved, facade>>
    BY DEF FinishDispatch
  <1>3. s \in Session /\ continuation[s] # None
    BY <1>2, TurnHasSession DEF IInv, TurnIsSound
  <1>4. CASE outcome # "running" /\ ~MayEmit(t)
    <2>1. up' = FALSE /\ UNCHANGED <<hub, session, request, decisions>>
      BY <1>4 DEF FinishDispatch
    <2>2. ToldRightly' /\ Continues /\ Streams(hub', turn, approval)
      BY <1>2, <2>1, ToldAsBefore, HubFacts DEF Continues
    <2>3. TypeOK'
      BY <1>1, <1>2, <2>1 DEF IInv, TypeOK
    <2>4. Remembers
      BY <1>1, <1>2 DEF Remembers
    <2>5. \A u \in Turn : Moves(u) /\ Forward(u)
      BY <1>1, <1>2, <1>4, <2>1 DEF Moves, Forward, Before, Early
    <2>6. \A u \in Turn : u # t => TurnIsSound(u)'
      BY <1>1, <1>2, <2>1, <2>2, TurnIsLeft
    <2>7. TurnIsSound(t)'
      BY <1>1, <1>3, <1>4, NoneAssumption DEF TurnIsSound, Before, Early
    <2>8. \A x \in Session : session'[x].reserved => Active(x)'
      BY <2>1 DEF IInv, SessionIsSound, Active
    <2>9. \A x \in Session : SessionIsSound(x)'
      BY <1>2, <2>4, <2>5, <2>8, SessionIsLeft
    <2>10. ReservationsEnd'
      BY <2>1 DEF ReservationsEnd
    <2> QED BY <1>2, <2>1, <2>2, <2>3, <2>4, <2>5, <2>6, <2>7, <2>9, <2>10, QuietInv
  <1>5. CASE ~(outcome # "running" /\ ~MayEmit(t))
    <2>1. /\ hub' = Projected(turn[t].session, t, outcome, TRUE)
          /\ session' = Released(turn[t].session)
          /\ request' = [request EXCEPT ![Head(decisions)].pc = "done"]
          /\ decisions' = Tail(decisions)
          /\ UNCHANGED up
      BY <1>5 DEF FinishDispatch
    <2>2. LET g == Projected(turn[t].session, t, outcome, TRUE)
          IN  /\ g \in Hub
              /\ Streams(g, turn, approval)
              /\ g.terminals = IF outcome # "running" /\ TRUE
                               THEN hub.terminals \cup {t} ELSE hub.terminals
      BY <1>3, <1>5, ProjectedFacts DEF MayEmit
    <2>3. /\ hub' \in Hub /\ Streams(hub', turn, approval)
          /\ \A u \in Turn : u # t => (u \in hub'.terminals => u \in hub.terminals)
      BY <2>1, <2>2
    <2>4. turn'[t].pc \in {"parked", "over"}
      BY <1>1
    <2> QED BY <1>1, <1>2, <2>1, <2>3, <2>4, ResumedEnds
  <1> QED BY <1>4, <1>5

(* The outcome of a run is one of the reducer's states.                    *)
LEMMA OutcomeFacts ==
  ASSUME IInv, NEW t \in Turn
  PROVE  OutcomeOf(turn[t]) \in {"running"} \cup Terminals
  BY DEF OutcomeOf, Terminals

LEMMA PromptThrowsInv ==
  ASSUME IInv, NEW t \in Turn, PromptThrows(t)
  PROVE  IInv'
  <1>1. CASE /\ turn[t].pc = "prompting"
             /\ Fail(t)
             /\ UNCHANGED <<up, registered, approval, continuation, resolved,
                            request, decisions, facade>>
    BY <1>1, SettledIsUp, FailInv DEF PromptThrows
  <1>2. CASE /\ turn[t].pc = "resumed"
             /\ turn' = [turn EXCEPT ![t].pc = "over"]
             /\ hub' = Emitted(hub, turn[t].session, Ev(t, "failed"))
             /\ session' = Released(turn[t].session)
             /\ request' = [request EXCEPT ![Head(decisions)].pc = "done"]
             /\ decisions' = Tail(decisions)
             /\ UNCHANGED <<up, registered, approval, continuation, resolved,
                            facade>>
    <2>1. up /\ ~turn[t].cancelled
      BY <1>2 DEF PromptThrows, Settled, Running
    <2>2. t \notin hub.terminals
      BY <1>2, <2>1 DEF IInv, ResumedIsSound
    <2>3. turn[t].session \in Session
      BY <1>2, TurnHasSession
    <2>4. /\ turn' \in [Turn -> TurnRecord]
          /\ turn'[t].pc = "over" /\ turn'[t].session = turn[t].session
          /\ \A u \in Turn : u # t => turn'[u] = turn[u]
      BY <1>2, PcUpdate
    <2>5. LET g == Emitted(hub, turn[t].session, Ev(t, "failed"))
          IN  /\ g \in Hub
              /\ Streams(g, turn, approval)
              /\ g.terminals = hub.terminals \cup {t}
      BY <2>2, <2>3, SentPlain
    <2>6. /\ hub' \in Hub /\ Streams(hub', turn, approval)
          /\ \A u \in Turn : u # t => (u \in hub'.terminals => u \in hub.terminals)
      BY <1>2, <2>5
    <2>7. turn'[t].pc \in {"parked", "over"}
      BY <2>4
    <2> QED BY <1>2, <2>1, <2>4, <2>6, <2>7, ResumedEnds
  <1> QED BY <1>1, <1>2 DEF PromptThrows

-----------------------------------------------------------------------------
(* The theorems                                                            *)

LEMMA InitInv ==
  ASSUME Init
  PROVE  IInv
  <1>1. TypeOK
    <2>1. hub \in Hub
      <3>1. \A e \in Seq(Event) : [s \in Session |-> e] \in [Session -> Seq(Event)]
        OBVIOUS
      <3>2. <<>> \in Seq(Event)
        OBVIOUS
      <3>3. [s \in Session |-> <<>>] \in [Session -> Seq(Event)]
        BY <3>1, <3>2, Zenon
      <3> DEFINE log == [s \in Session |-> <<>>]
                 rec == [t \in Turn |-> None]
      <3>4. rec \in [Turn -> Terminals \cup {None}]
        OBVIOUS
      <3>5. hub = [log |-> log, terminals |-> {}, recovered |-> rec]
        BY DEF Init
      <3> HIDE DEF log, rec
      <3>6. log \in [Session -> Seq(Event)]
        BY <3>3 DEF log
      <3> QED BY <3>4, <3>5, <3>6 DEF Hub
    <2>2. decisions \in Seq(Request)
      BY DEF Init
    <2>3. turn \in [Turn -> TurnRecord]
      BY DEF Init, TurnRecord
    <2>4. session \in [Session -> [status : {"none", "active", "expired", "gone"},
                                 reserved : BOOLEAN, turns : 0 .. MaxTurns]]
      BY TurnsAssumption DEF Init
    <2>5. request \in [Request -> [pc : {"new", "queued", "invoking", "waiting",
                                        "resumed", "done"},
                                  approval : Approval \cup {None},
                                  want : {"approve", "deny", None},
                                  held : Continuation \cup {None}]]
      BY DEF Init
    <2>6. approval \in [Approval -> [turn : Turn \cup {None}, expired : BOOLEAN,
                                    decision : {"approve", "deny", None}]]
      BY DEF Init
    <2>7. /\ registered \in [Session -> Turn \cup {None}]
          /\ continuation \in [Session -> Continuation \cup {None}]
          /\ facade \in [Approval -> [applied : BOOLEAN, lost : BOOLEAN]]
          /\ up \in BOOLEAN /\ resolved \subseteq Turn
      BY DEF Init
    <2> QED BY <2>1, <2>2, <2>3, <2>4, <2>5, <2>6, <2>7 DEF TypeOK
  <1>2. \A s \in Session : Len(hub.log[s]) = 0
    <2>1. hub.log = [s \in Session |-> <<>>]
      BY DEF Init
    <2> QED BY <2>1
  <1>3. hub.terminals = {} /\ hub.recovered = [t \in Turn |-> None]
    BY DEF Init
  <1>4. \A t \in Turn : TurnIsSound(t) /\ ResumedIsSound(t)
    BY <1>3 DEF Init, TurnIsSound, ResumedIsSound, Before, Early
  <1>5. \A s \in Session : SessionIsSound(s)
    BY DEF Init, SessionIsSound
  <1>6. \A a \in Approval : ApprovalIsSound(a)
    BY DEF Init, ApprovalIsSound
  <1>7. \A r \in Request : RequestIsSound(r) /\ WaiterIsSound(r)
    BY DEF Init, RequestIsSound, WaiterIsSound
  <1>8. LogIsSound(hub, turn, approval)
    BY <1>2 DEF LogIsSound
  <1>9. RecordsAreSound(hub, turn)
    BY <1>3 DEF RecordsAreSound
  <1>10. ReservationsEnd
    BY DEF Init, ReservationsEnd
  <1> QED BY <1>1, <1>4, <1>5, <1>6, <1>7, <1>8, <1>9, <1>10 DEF IInv

(* So does a step that changes nothing.                                    *)
LEMMA StutterInv ==
  ASSUME IInv, UNCHANGED vars
  PROVE  IInv'
  <1>1. UNCHANGED <<up, session, turn, registered, approval, continuation, resolved,
                    request, decisions, hub, facade>>
    BY DEF vars
  <1>2. TypeOK'
    BY <1>1 DEF IInv, TypeOK
  <1>3. \A t \in Turn : TurnIsSound(t)' /\ ResumedIsSound(t)'
    BY <1>1 DEF IInv, TurnIsSound, ResumedIsSound, AtHead
  <1>4. \A s \in Session : SessionIsSound(s)'
    BY <1>1 DEF IInv, SessionIsSound, Launched, Active
  <1>5. \A a \in Approval : ApprovalIsSound(a)'
    BY <1>1 DEF IInv, ApprovalIsSound
  <1>6. \A r \in Request : RequestIsSound(r)' /\ WaiterIsSound(r)'
    BY <1>1 DEF IInv, RequestIsSound, WaiterIsSound, AtHead
  <1>7. LogIsSound(hub, turn, approval)' /\ RecordsAreSound(hub, turn)'
    BY <1>1 DEF IInv, LogIsSound, RecordsAreSound
  <1>8. ReservationsEnd'
    BY <1>1 DEF IInv, ReservationsEnd, ApprovalsOf
  <1> QED BY <1>2, <1>3, <1>4, <1>5, <1>6, <1>7, <1>8 DEF IInv

(* Every step keeps the invariant.                                         *)
LEMMA NextInv ==
  ASSUME IInv, Next
  PROVE  IInv'
  <1>1. ASSUME NEW s \in Session, CreateSession(s)
        PROVE  IInv'
    BY <1>1, CreateSessionInv
  <1>2. ASSUME NEW s \in Session, NEW how \in {"expired", "gone"}, DropSession(s, how)
        PROVE  IInv'
    BY <1>2, DropSessionInv
  <1>3. ASSUME NEW s \in Session, NEW t \in Turn, CreateTurn(s, t) \/ Cancel(s, t)
        PROVE  IInv'
    BY <1>3, CreateTurnInv, CancelInv
  <1>4. ASSUME NEW t \in Turn, RefuseMessage(t) \/ LoseMessage(t) \/ Execute(t) \/ Boot(t)
        PROVE  IInv'
    BY <1>4, RefuseMessageInv, LoseMessageInv, ExecuteInv, BootInv
  <1>5. ASSUME NEW t \in Turn, BootFails(t)
        PROVE  IInv'
    BY <1>5, FailInv, SettledIsUp DEF BootFails
  <1>6. ASSUME NEW t \in Turn, NEW a \in Approval, RequireApproval(t, a)
        PROVE  IInv'
    BY <1>6, RequireApprovalInv
  <1>7. ASSUME NEW t \in Turn, AcceptRefresh(t) \/ Finalize(t) \/ DeadlinePasses(t)
        PROVE  IInv'
    BY <1>7, FlagsInv
  <1>8. ASSUME NEW t \in Turn, EndPrompt(t)
        PROVE  IInv'
    <2>1. up /\ OutcomeOf(turn[t]) \in {"running"} \cup Terminals
      BY <1>8, OutcomeFacts DEF EndPrompt
    <2> QED BY <1>8, <2>1, FinishExecuteInv, FinishDispatchInv DEF EndPrompt
  <1>9. ASSUME NEW t \in Turn, DeadlineFires(t)
        PROVE  IInv'
    <2>1. up /\ "failed" \in {"running"} \cup Terminals
      BY <1>9, SettledIsUp DEF DeadlineFires, Terminals
    <2> QED BY <1>9, <2>1, FinishExecuteInv, FinishDispatchInv DEF DeadlineFires
  <1>10. ASSUME NEW t \in Turn, PromptThrows(t)
         PROVE  IInv'
    BY <1>10, PromptThrowsInv
  <1>11. ASSUME NEW r \in Request, NEW a \in Approval, NEW want \in {"approve", "deny"},
                PostDecision(r, a, want)
         PROVE  IInv'
    BY <1>11, PostDecisionInv
  <1>12. ASSUME NEW r \in Request, Decide(r) \/ InvokeAnswers(r) \/ Resume(r)
         PROVE  IInv'
    BY <1>12, DecideInv, InvokeAnswersInv, ResumeInv
  <1>13. ASSUME NEW r \in Request, NEW applied \in BOOLEAN, InvokeFails(r, applied)
         PROVE  IInv'
    BY <1>13, InvokeFailsInv
  <1>14. ASSUME NEW a \in Approval, ApprovalExpires(a)
         PROVE  IInv'
    BY <1>14, ApprovalExpiresInv
  <1> QED BY <1>1, <1>2, <1>3, <1>4, <1>5, <1>6, <1>7, <1>8, <1>9, <1>10, <1>11,
             <1>12, <1>13, <1>14 DEF Next

(* The inductive invariant holds in every state of the runtime.            *)
THEOREM Invariance == Spec => []IInv
  <1>1. IInv /\ [Next]_vars => IInv'
    BY NextInv, StutterInv
  <1> QED BY <1>1, InitInv, PTL DEF Spec

(* SseHub: whatever cancels, denials, late answers and deadlines race with *)
(* each other, every stream ends each turn once and last, completes only   *)
(* what has an artifact or a denial, and is what recovery reports.         *)
THEOREM StreamsAreAlwaysConsistent == Spec => []StreamsAreConsistent
  <1>1. ASSUME IInv
        PROVE  StreamsAreConsistent
    <2>1. LogIsSound(hub, turn, approval) /\ RecordsAreSound(hub, turn) /\ TypeOK
      BY <1>1 DEF IInv
    <2>2. \A s \in Session : \A i \in 1 .. Len(hub.log[s]) :
             EventIsSound(hub.log[s], i, s, hub.terminals, turn, approval)
      BY <2>1 DEF LogIsSound
    <2>3. TerminalIsLast
      <3> SUFFICES ASSUME NEW s \in Session, NEW i \in 1 .. Len(hub.log[s]),
                          NEW j \in 1 .. Len(hub.log[s]), i < j,
                          hub.log[s][i].type \in Terminals
                   PROVE  hub.log[s][j].turn # hub.log[s][i].turn
        BY DEF TerminalIsLast
      <3>1. i \in 1 .. j - 1
        OBVIOUS
      <3>2. EventIsSound(hub.log[s], j, s, hub.terminals, turn, approval)
        BY <2>2
      <3> QED BY <3>1, <3>2 DEF EventIsSound
    <2>4. CompletedIsGrounded
      BY <2>2 DEF EventIsSound, CompletedIsGrounded
    <2>5. RecoveryMatchesStream
      BY <2>1 DEF RecordsAreSound, RecoveryMatchesStream
    <2> QED BY <2>1, <2>3, <2>4, <2>5 DEF StreamsAreConsistent
  <1> QED BY <1>1, Invariance, PTL

(* ApprovalCoordinator: a decision is announced in the turn that asked for *)
(* it, and the data plane is told to approve only what is approved.        *)
THEOREM DecisionsAlwaysReachTheirTurn == Spec => []DecisionsReachTheirTurn
  <1>1. ASSUME IInv
        PROVE  DecisionsReachTheirTurn
    <2>1. LogIsSound(hub, turn, approval)
      BY <1>1 DEF IInv
    <2>2. \A s \in Session : \A i \in 1 .. Len(hub.log[s]) :
             EventIsSound(hub.log[s], i, s, hub.terminals, turn, approval)
      BY <2>1 DEF LogIsSound
    <2>3. \A s \in Session : \A i \in 1 .. Len(hub.log[s]) :
             hub.log[s][i].type \in {"approve", "deny"}
                => approval[hub.log[s][i].approval].turn = hub.log[s][i].turn
      BY <2>2 DEF EventIsSound
    <2>4. \A a \in Approval : facade[a].applied /\ approval[a].decision = "deny"
                                  => facade[a].lost
      BY <1>1 DEF IInv, ApprovalIsSound
    <2> QED BY <2>3, <2>4 DEF DecisionsReachTheirTurn
  <1> QED BY <1>1, Invariance, PTL

(* SessionRegistry: without approvals, a session that is reserved has a    *)
(* turn that will release it.                                              *)
THEOREM ReservationsAlwaysEnd == Spec => []ReservationsEnd
  <1>1. IInv => ReservationsEnd
    BY DEF IInv
  <1> QED BY <1>1, Invariance, PTL

(* #decisionTail: an approval that is decided stays decided as it was.     *)
THEOREM DecisionsStayFinal == Spec => DecisionsAreFinal
  <1>1. ASSUME IInv, Next
        PROVE  KeepsDecisions
    <2> SUFFICES ASSUME NEW a \in Approval, approval[a].decision # None
                 PROVE  approval'[a].decision = approval[a].decision
      BY DEF KeepsDecisions
    <2>1. approval \in ApprovalType
      BY <1>1 DEF IInv, TypeOK, ApprovalType
    <2>2. CASE approval' = approval
      BY <2>2
    <2>3. ASSUME NEW x \in Approval, ApprovalExpires(x)
          PROVE  approval'[a].decision = approval[a].decision
      BY <2>1, <2>3 DEF ApprovalExpires, ApprovalType
    <2>4. ASSUME NEW t \in Turn, NEW x \in Approval, RequireApproval(t, x)
          PROVE  approval'[a].decision = approval[a].decision
      <3>1. approval' = [approval EXCEPT ![x].turn = t]
        BY <2>4, Zenon DEF RequireApproval
      <3> QED BY <2>1, <3>1 DEF ApprovalType
    <2>5. ASSUME NEW r \in Request, Decide(r)
          PROVE  approval'[a].decision = approval[a].decision
      <3>1. CASE approval' = approval
        BY <3>1
      <3>2. CASE /\ approval[request[r].approval].decision = None
                 /\ approval' = [approval EXCEPT ![request[r].approval].decision = "deny"]
        BY <2>1, <3>2 DEF ApprovalType
      <3> QED BY <2>5, <3>1, <3>2, Zenon DEF Decide
    <2>6. ASSUME NEW r \in Request, InvokeAnswers(r)
          PROVE  approval'[a].decision = approval[a].decision
      <3>1. /\ up /\ request[r].pc = "invoking"
            /\ approval' = [approval EXCEPT ![request[r].approval].decision = "approve"]
        BY <2>6, SettledIsUp DEF InvokeAnswers
      <3>2. approval[request[r].approval].decision = None
        BY <1>1, <3>1, Zenon DEF IInv, RequestIsSound
      <3> QED BY <2>1, <3>1, <3>2 DEF ApprovalType
    <2>7. \/ approval' = approval
          \/ \E x \in Approval : ApprovalExpires(x)
          \/ \E t \in Turn, x \in Approval : RequireApproval(t, x)
          \/ \E r \in Request : Decide(r) \/ InvokeAnswers(r)
      BY <1>1, Zenon DEF Next, CreateSession, DropSession, CreateTurn, Cancel, RefuseMessage,
         LoseMessage, Execute, Boot, BootFails, AcceptRefresh, Finalize, EndPrompt,
         DeadlineFires, PromptThrows, DeadlinePasses, FinishExecute, FinishDispatch,
         PostDecision, Resume, InvokeFails
    <2> QED BY <2>2, <2>3, <2>4, <2>5, <2>6, <2>7
  <1>2. IInv /\ [Next]_vars => [KeepsDecisions]_vars
    BY <1>1
  <1> QED BY <1>2, Invariance, PTL DEF Spec, DecisionsAreFinal

=============================================================================
