------------------------------ MODULE Scheduler ------------------------------
(***************************************************************************)
(* scheduler_tick of OperationalStore and materialize_due_slots of         *)
(* ingestion/jobs.py: due slots of the registry's schedules become durable *)
(* jobs.  A tick runs under the writer lease, so ticks do not overlap, but *)
(* it is not one transaction: the registry sync, each enqueue and each     *)
(* cursor update commit on their own, and the process may die, or an       *)
(* enqueue fail, between any two.  The next tick starts from the cursors.  *)
(* The tick's recovery of expired leases is an action of JobStore.         *)
(***************************************************************************)
EXTENDS Integers, Sequences, FiniteSets, FiniteSetsExt

CONSTANTS
    Rule,         \* the registry's schedules in schedule_id order
    PeriodLength, \* a local day (or month) of a calendar rule
    SearchLimit,  \* periods next_after looks ahead (4000 days, 1200 months)
    SafetyLimit,  \* slots one sweep may find (100 000)
    Skew,         \* how old the anchor of a tick may be
    Enabled,      \* the sets of schedules a registry may declare enabled
    MaxTime,      \* bound: the clock stops here
    MaxFaults,    \* bound: crashes and failed enqueues
    None          \* SQL NULL

(***************************************************************************)
(* A rule is an interval anchored at the row's created_at, or a calendar:  *)
(* one slot in each period, `offset' after its start, except in the periods*)
(* of `missing', where the local time does not exist or the day is not     *)
(* selected.  A rule that recurrence_from_rule refuses is malformed.  A    *)
(* horizon of 0 is none, and ready says that the definition's bindings are *)
(* there.                                                                  *)
(***************************************************************************)
RuleRecord ==
    [kind     : {"interval", "calendar", "malformed"},
     interval : Nat \ {0},
     offset   : Nat,
     missing  : SUBSET Nat,
     policy   : {"latest_only", "windowed", "all_slots", "manual"},
     cap      : Nat \ {0},
     horizon  : Nat,
     ready    : BOOLEAN]

ASSUME RuleAssumption ==
    /\ Rule \in Seq(RuleRecord)
    /\ \A s \in DOMAIN Rule : Rule[s].offset < PeriodLength
ASSUME BoundAssumption ==
    /\ PeriodLength \in Nat \ {0} /\ SearchLimit \in Nat \ {0}
    /\ SafetyLimit \in Nat /\ Skew \in Nat /\ MaxTime \in Nat
    /\ MaxFaults \in Nat /\ Enabled \subseteq SUBSET DOMAIN Rule
    /\ None \notin Nat

Schedule == DOMAIN Rule

VARIABLES
    now,
    created,  \* workflow_schedule.created_at, None before the INSERT
    cursor,   \* workflow_schedule.cursor_at
    enabled,  \* the schedules with enabled = 1, as the registry has them
    paused,   \* the schedules with a paused_reason
    jobs,     \* the slots of each schedule's workflow_job rows, in order
    tick,     \* the tick under way, or None
    faults    \* crashes and failed enqueues so far

vars == <<now, created, cursor, enabled, paused, jobs, tick, faults>>

(* todo: schedules not handled yet; current: the one whose slots are being *)
(* enqueued; due: its slots left; next: the cursor it will get.            *)
TickRecord == [at : Nat, todo : SUBSET Schedule,
               current : Schedule \cup {None}, due : SUBSET Nat, next : Nat]

TypeOK ==
    /\ now \in Nat
    /\ created \in [Schedule -> Nat \cup {None}]
    /\ cursor \in [Schedule -> Nat \cup {None}]
    /\ enabled \in Enabled /\ paused \subseteq enabled
    /\ jobs \in [Schedule -> Seq(Nat)]
    /\ tick = None \/ tick \in TickRecord
    /\ faults \in 0..MaxFaults

Init ==
    /\ now = 0
    /\ created = [s \in Schedule |-> None]
    /\ cursor = [s \in Schedule |-> None]
    /\ enabled \in Enabled
    /\ paused = {}
    /\ jobs = [s \in Schedule |-> <<>>]
    /\ tick = None
    /\ faults = 0

-----------------------------------------------------------------------------
(* Recurrences.                                                            *)

(* IntervalSchedule.next_after: the first anchored slot strictly after t.  *)
IntervalNext(s, t) ==
    LET anchor   == created[s]
        interval == Rule[s].interval
    IN  IF t < anchor THEN anchor
        ELSE anchor + interval * ((t - anchor) \div interval + 1)

SlotFor(s, period) == period * PeriodLength + Rule[s].offset

(* CalendarSchedule and MonthlySchedule.next_after: the first period from  *)
(* t's own that has a slot after t; none within the limit is a JobError.   *)
CalendarPeriods(s, t) ==
    LET first == t \div PeriodLength
    IN  {p \in first..(first + SearchLimit - 1) :
            p \notin Rule[s].missing /\ SlotFor(s, p) > t}

HasNext(s, t) == Rule[s].kind = "interval" \/ CalendarPeriods(s, t) # {}

NextAfter(s, t) == IF Rule[s].kind = "interval" THEN IntervalNext(s, t)
                   ELSE SlotFor(s, Min(CalendarPeriods(s, t)))

-----------------------------------------------------------------------------
(* materialize_due_slots.                                                  *)

CursorOf(s) == IF cursor[s] = None THEN created[s] ELSE cursor[s]

(* The cursor the search starts from, clamped to the catch-up horizon.     *)
SearchFrom(s, at) ==
    IF Rule[s].horizon = 0 THEN CursorOf(s)
    ELSE Max({CursorOf(s), at - Rule[s].horizon})

(* The loop over next_after up to `at'.                                    *)
DueSlots(s, at) ==
    LET after[t \in Nat] ==
            IF ~HasNext(s, t) \/ NextAfter(s, t) > at THEN {}
            ELSE {NextAfter(s, t)} \cup after[NextAfter(s, t)]
    IN  after[SearchFrom(s, at)]

(* A rule that cannot be read, a search that runs out and a sweep that     *)
(* finds too many slots raise; a manual schedule is not searched.          *)
ScheduleInvalid(s, at) ==
    \/ Rule[s].kind = "malformed"
    \/ /\ Rule[s].policy # "manual"
       /\ \/ Cardinality(DueSlots(s, at)) > SafetyLimit
          \/ \E t \in {SearchFrom(s, at)} \cup DueSlots(s, at) : ~HasNext(s, t)

(* Mutant: the cap keeps the newest slots of the backlog.                  *)
SelectedNewest(s, due) ==
    CASE Rule[s].policy = "manual" \/ due = {} -> {}
      [] Rule[s].policy = "latest_only" /\ due # {} -> {Max(due)}
      [] Rule[s].policy = "all_slots" -> due
      [] OTHER -> {x \in due : Cardinality({y \in due : y > x}) < Rule[s].cap}

(* The catch-up policy: the newest slot, all of them, or the oldest `cap'. *)
Selected(s, due) ==
    CASE Rule[s].policy = "manual" \/ due = {} -> {}
      [] Rule[s].policy = "latest_only" /\ due # {} -> {Max(due)}
      [] Rule[s].policy = "all_slots" -> due
      [] OTHER -> {x \in due : Cardinality({y \in due : y < x}) < Rule[s].cap}

(* Mutant: without slots the cursor falls back to created_at.              *)
NextCursorFromCreation(s, slots) ==
    IF slots = {} THEN created[s] ELSE Max(slots)
NextCursor(s, slots) == IF slots = {} THEN CursorOf(s) ELSE Max(slots)

-----------------------------------------------------------------------------
(* A tick.                                                                 *)

Anchors == {t \in 0..now : now - t <= Skew}

(* sync_registry inserts the rows that are missing; then the enabled and   *)
(* unpaused schedules are read.                                            *)
BeginTick(at) ==
    /\ tick = None
    /\ created' = [s \in Schedule |->
                     IF created[s] = None THEN at ELSE created[s]]
    /\ tick' = [at |-> at, todo |-> enabled \ paused, current |-> None,
                due |-> {}, next |-> 0]
    /\ UNCHANGED <<now, cursor, paused, jobs, enabled, faults>>

Pending(s) == /\ tick # None /\ tick.current = None
              /\ s \in tick.todo /\ s = Min(tick.todo)

(* runtime_unbound: the schedule is reported as blocked.                   *)
SkipUnbound(s) ==
    /\ Pending(s)
    /\ ~Rule[s].ready
    /\ tick' = [tick EXCEPT !.todo = @ \ {s}]
    /\ UNCHANGED <<now, created, cursor, paused, jobs, enabled, faults>>

(* _pause_schedule: the rule cannot be evaluated.                          *)
PauseInvalid(s) ==
    /\ Pending(s)
    /\ Rule[s].ready
    /\ ScheduleInvalid(s, tick.at)
    /\ paused' = paused \cup {s}
    /\ tick' = [tick EXCEPT !.todo = @ \ {s}]
    /\ UNCHANGED <<now, created, cursor, jobs, enabled, faults>>

Materialize(s) ==
    LET slots == Selected(s, DueSlots(s, tick.at))
    IN  /\ Pending(s)
        /\ Rule[s].ready
        /\ ~ScheduleInvalid(s, tick.at)
        /\ tick' = [tick EXCEPT !.todo = @ \ {s}, !.current = s, !.due = slots,
                                !.next = NextCursor(s, slots)]
        /\ UNCHANGED <<now, created, cursor, paused, jobs, enabled, faults>>

HasJob(s, x) == \E i \in DOMAIN jobs[s] : jobs[s][i] = x

(* enqueue: the schedule and slot are in the dedupe key, so a row that is  *)
(* already there answers the call.                                         *)
(* Mutant: every call inserts.                                             *)
EnqueuedAlways(s, x) == [jobs EXCEPT ![s] = Append(@, x)]
Enqueued(s, x) == IF HasJob(s, x) THEN jobs
                  ELSE [jobs EXCEPT ![s] = Append(@, x)]

EnqueueSlot(s, x) ==
    /\ tick # None /\ tick.current = s
    /\ x \in tick.due /\ x = Min(tick.due)
    /\ jobs' = Enqueued(s, x)
    /\ tick' = [tick EXCEPT !.due = @ \ {x}]
    /\ UNCHANGED <<now, created, cursor, paused, enabled, faults>>

Fault == faults < MaxFaults /\ faults' = faults + 1

(* SCHEDULE_ENQUEUE_FAILED: the rest of the schedule's slots wait for the  *)
(* next tick, which starts from the old cursor.                            *)
(* Mutant: the cursor is advanced all the same.                            *)
CursorAfterFailureMoved(s) == [cursor EXCEPT ![s] = tick.next]
CursorAfterFailure(s) == cursor

EnqueueFails(s) ==
    /\ tick # None /\ tick.current = s /\ tick.due # {}
    /\ cursor' = CursorAfterFailure(s)
    /\ tick' = [tick EXCEPT !.current = None, !.due = {}, !.next = 0]
    /\ Fault
    /\ UNCHANGED <<now, created, paused, jobs, enabled>>

(* _update_schedule_cursor, which also stores the slot after the cursor.   *)
UpdateScheduleCursor(s) ==
    /\ tick # None /\ tick.current = s /\ tick.due = {}
    /\ HasNext(s, tick.next)
    /\ cursor' = [cursor EXCEPT ![s] = tick.next]
    /\ paused' = paused \ {s}
    /\ tick' = [tick EXCEPT !.current = None, !.next = 0]
    /\ UNCHANGED <<now, created, jobs, enabled, faults>>

(* That slot is searched for outside the handler of SCHEDULE_INVALID: when *)
(* there is none, the error ends the tick.                                 *)
NoNextDue(s) ==
    /\ tick # None /\ tick.current = s /\ tick.due = {}
    /\ ~HasNext(s, tick.next)
    /\ tick' = None
    /\ UNCHANGED <<now, created, cursor, paused, jobs, enabled, faults>>

EndTick ==
    /\ tick # None /\ tick.current = None /\ tick.todo = {}
    /\ tick' = None
    /\ UNCHANGED <<now, created, cursor, paused, jobs, enabled, faults>>

(* The process dies in the middle of a tick.                               *)
Crash ==
    /\ tick # None
    /\ tick' = None
    /\ Fault
    /\ UNCHANGED <<now, created, cursor, paused, jobs, enabled>>

Clock ==
    /\ now < MaxTime
    /\ now' = now + 1
    /\ UNCHANGED <<created, cursor, paused, jobs, tick, enabled, faults>>

(* What a tick does next.                                                  *)
TickStep ==
    \/ \E s \in Schedule :
          \/ SkipUnbound(s) \/ PauseInvalid(s) \/ Materialize(s)
          \/ \E x \in 0..MaxTime : EnqueueSlot(s, x)
          \/ UpdateScheduleCursor(s)
          \/ NoNextDue(s)
    \/ EndTick

Next ==
    \/ \E at \in Anchors : BeginTick(at)
    \/ TickStep
    \/ \E s \in Schedule : EnqueueFails(s)
    \/ Crash
    \/ Clock

Spec == Init /\ [][Next]_vars

(***************************************************************************)
(* The daemon ticks for as long as the service runs, a tick that is not    *)
(* interrupted goes on, and time passes.  A tick takes its anchor from the *)
(* clock as it starts, so the anchors of all ticks are not stale for ever. *)
(***************************************************************************)
Fairness == WF_vars(Clock) /\ SF_vars(BeginTick(now)) /\ WF_vars(TickStep)

FairSpec == Spec /\ Fairness

-----------------------------------------------------------------------------

(* A slot has one job, though a tick that died or failed is repeated.      *)
OneJobPerSlot ==
    \A s \in Schedule : \A i, j \in DOMAIN jobs[s] :
        i # j => jobs[s][i] # jobs[s][j]

(* The cursor never runs ahead of the jobs: it is at the creation of the   *)
(* schedule or at a slot whose job is committed.                           *)
CursorHasJob ==
    \A s \in Schedule :
        cursor[s] # None => cursor[s] = created[s] \/ HasJob(s, cursor[s])

(* A slot of the rule, said of the rule and not of the search for it.      *)
IsSlot(s, x) ==
    /\ created[s] # None
    /\ x > created[s]
    /\ IF Rule[s].kind = "interval"
       THEN (x - created[s]) % Rule[s].interval = 0
       ELSE /\ x % PeriodLength = Rule[s].offset
            /\ (x \div PeriodLength) \notin Rule[s].missing

(* A job is for a slot of its schedule that was due.                       *)
JobsAreForDueSlots ==
    \A s \in Schedule : \A i \in DOMAIN jobs[s] :
        IsSlot(s, jobs[s][i]) /\ jobs[s][i] <= now

(* The rows of a schedule agree: one job for a slot, only for a slot that  *)
(* was due, and a cursor that rests on a committed job.                    *)
SchedulesAreConsistent ==
    TypeOK /\ OneJobPerSlot /\ CursorHasJob /\ JobsAreForDueSlots

KeepsEverySlot(s) == /\ Rule[s].policy \in {"windowed", "all_slots"}
                     /\ Rule[s].horizon = 0

(* Without a horizon, windowed and all_slots schedules lose no slot: every *)
(* slot the cursor has passed has its job, whatever failed on the way.     *)
NoSlotIsSkipped ==
    \A s \in Schedule : KeepsEverySlot(s) /\ cursor[s] # None =>
        \A x \in 0..cursor[s] : IsSlot(s, x) => HasJob(s, x)

(* A cursor never moves back, so no slot is offered again after the sweep  *)
(* that passed it.                                                         *)
CursorMovesForward ==
    [][\A s \in Schedule : cursor[s] # None => cursor'[s] >= cursor[s]]_vars

(* The error of NoNextDue ends every tick at such a schedule, so what is   *)
(* behind it in the order of the sweep is not reached.                     *)
EndsTicks(s) ==
    Rule[s].policy = "manual" /\ \A t \in 0..MaxTime : ~HasNext(s, t)

Reached(s) == /\ s \in enabled /\ Rule[s].ready
              /\ \A t \in enabled : t < s => ~EndsTicks(t)

(* The backlog is worked off: of the schedules a sweep reaches, those that *)
(* lose no slot again and again have a job for every slot that is due,     *)
(* whatever failed, the backlog of a capped one included, or are paused.   *)
DueSlotsGetTheirJobs ==
    []<>(\A s \in Schedule : Reached(s) /\ KeepsEverySlot(s) =>
            \/ s \in paused
            \/ \A x \in 0..now : IsSlot(s, x) => HasJob(s, x))

=============================================================================
