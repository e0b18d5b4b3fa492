-------------------------- MODULE ProjectionDelivery ------------------------
(***************************************************************************)
(* Delivery of the canonical projections to files.                         *)
(*                                                                         *)
(* A publisher, the daemon for a job of the queue or an operator's command *)
(* line process, takes the writer lease, rebuilds the derived tables, reads*)
(* the canonical rows as of an anchor page by page, renders four artifacts,*)
(* writes them and an audit manifest one file after the other, and records *)
(* the delivery and its alerts in one transaction.  It may fail or die at  *)
(* any of these steps; the delivery is then repeated from the same anchor. *)
(*                                                                         *)
(* Abstractions: a canonical row is a revision of a key; a file is what it *)
(* was rendered from, so a hash is equal when its inputs are.  Time counts *)
(* in steps of which DayLength make a day and WeekLength a week.  Queue    *)
(* order, backoff and claim tokens are in JobStore; how rows become        *)
(* canonical is in CanonicalStream.                                        *)
(***************************************************************************)
EXTENDS Integers, Sequences, FiniteSets

CONSTANTS
    Key,          \* record keys, numbers: their order is that of the ids
    KindOf,       \* [Key -> Kinds]
    Anchor,       \* the as_of_at timestamps that are asked for
    Demands,      \* the demands to consider: see DemandRecord
    Rule,         \* alert rules of a caller
    Breaches,     \* the pairs of a rule and a key whose value breaks it
    PageSize,     \* _PAGE_SIZE
    MaxRows,      \* MAX_DELIVERY_ROWS
    MaxAttempts,
    DayLength, WeekLength,
    MaxNow,       \* bound on the clock
    MaxRevisions, \* bound on the revisions of a key
    MaxCommands,  \* bound on the publications of operators
    MaxFaults,    \* bound on the deaths and failures of publishers
    None

(* The order in which _load_canonical_records asks for them.               *)
Kinds == <<"metrics", "supply", "events", "geographies">>

(* The revisions that are promoted, the anchors of the queued deliveries   *)
(* and those an operator publishes.                                        *)
DemandRecord == [promoted : SUBSET (Key \X (1 .. MaxRevisions)),
                 queued : SUBSET Anchor, published : SUBSET Anchor]

ASSUME DeliveryAssumption ==
    /\ Demands \subseteq DemandRecord
    /\ Key \subseteq Nat
    /\ \A k \in Key : \E i \in 1 .. Len(Kinds) : KindOf[k] = Kinds[i]
    /\ Anchor \subseteq Nat
    /\ Breaches \subseteq Rule \X Key
    /\ \A n \in {PageSize, MaxAttempts, DayLength, WeekLength} : n \in Nat \ {0}
    /\ {MaxRows, MaxNow, MaxRevisions, MaxCommands, MaxFaults} \subseteq Nat

VARIABLES
    demand,     \* what is asked of the system
    now,
    canonical,  \* promoted revisions of records
    indexes,    \* metric_value, supply_project, market_event, geography
    job,        \* the workflow_job of each anchor
    proc,       \* what each publisher is doing
    writer,     \* the holder of writer.lock
    files,      \* the artifacts below the output directory
    manifests,  \* audit/<delivery id>.json
    outputs,    \* output_artifact
    audited,    \* output_artifact rows of the manifests
    alerts,     \* operational_alert
    events,     \* audit_event: the deliveries that were recorded, in order
    history,    \* history: every artifact that was ever written
    shown,      \* history: the delivery on show, None while one is written
    commands,   \* operator publications so far
    faults      \* deaths and failures so far

bounds == <<demand, commands, faults>>
disk   == <<files, manifests, history, shown>>
ledger == <<outputs, audited, alerts, events>>
vars == <<demand, now, canonical, indexes, job, proc, writer, files, manifests,
          outputs, audited, alerts, events, history, shown, commands, faults>>

Process == {"daemon", "operator"}
Publishing == {"rebuilding", "loading", "rendering", "writing", "recording"}
Ended == {"succeeded", "dead_letter"}

Revision == [key : Key, rev : 1 .. MaxRevisions, at : 0 .. MaxNow,
             gone : BOOLEAN]

(* What a delivery is made from: its content-derived id.                   *)
Delivery == [anchor : Anchor, rows : SUBSET Revision, rules : SUBSET Rule]

ASSUME NoneAssumption == None \notin Process \cup Revision

Idle == [pc |-> "idle", anchor |-> 0, rules |-> {}, counts |-> <<>>,
         kind |-> 1, after |-> None, total |-> 0, rows |-> {}, next |-> 1]

TypeOK ==
    /\ demand \in Demands
    /\ now \in 0 .. MaxNow
    /\ canonical \subseteq Revision
    /\ indexes \subseteq canonical
    /\ job \in [Anchor -> [state : {"absent", "queued", "claimed", "running",
                                    "retry_wait"} \cup Ended,
                           attempts : 0 .. MaxAttempts,
                           lease : {"none", "live", "stale"}]]
    /\ \A a \in Anchor : job[a].lease # "none"
                            <=> job[a].state \in {"claimed", "running"}
    /\ \A p \in Process :
         /\ proc[p].pc \in {"idle", "claimed", "finishing"} \cup Publishing
         /\ proc[p].pc # "idle" => proc[p].anchor \in Anchor
         /\ proc[p].rules \subseteq Rule
         /\ proc[p].kind \in 1 .. Len(Kinds) + 1
         /\ proc[p].after \in Revision \cup {None}
         /\ proc[p].total \in 0 .. MaxRows
         /\ proc[p].rows \subseteq canonical
         /\ proc[p].next \in 1 .. 5
    /\ writer \in Process \cup {None}
    /\ \A d \in DOMAIN manifests : d \in Delivery
    /\ shown \in Delivery \cup {None}
    /\ commands \in 0 .. MaxCommands
    /\ faults \in 0 .. MaxFaults

Init ==
    /\ demand \in Demands
    /\ now = 0 /\ canonical = {} /\ indexes = {}
    /\ job = [a \in Anchor |->
                [state |-> "absent", attempts |-> 0, lease |-> "none"]]
    /\ proc = [p \in Process |-> Idle]
    /\ writer = None
    /\ files = <<>> /\ manifests = <<>>
    /\ outputs = {} /\ audited = {} /\ alerts = {} /\ events = <<>>
    /\ history = {} /\ shown = None /\ commands = 0 /\ faults = 0

-----------------------------------------------------------------------------
(* The canonical rows.                                                     *)

(* canonical_latest_v1: the highest revision of each key, unless it        *)
(* deletes it.                                                             *)
Latest(revisions) ==
    {r \in revisions : /\ ~r.gone
                       /\ \A q \in revisions : q.key = r.key => q.rev <= r.rev}

(* The same among the revisions that were available at the anchor.         *)
AsOf(anchor) == Latest({r \in canonical : r.at <= anchor})

OfKind(rows, kind) == {r \in rows : KindOf[r.key] = kind}

Counts(rows) == [i \in 1 .. Len(Kinds) |-> Cardinality(OfKind(rows, Kinds[i]))]

(* ORDER BY available_at DESC, observation_id DESC: q is on a page after r.*)
PageOrder(r, q) == q.at < r.at \/ (q.at = r.at /\ q.key < r.key)

First(n, rows) ==
    {r \in rows : Cardinality({q \in rows : PageOrder(q, r)}) < n}

LastOf(rows) == CHOOSE r \in rows : \A q \in rows : q = r \/ PageOrder(q, r)

(* Mutant: rows that became available together are skipped.               *)
BeyondByTime(boundary, r) == r.at < boundary.at

(* The keyset predicate of the next page.                                  *)
Beyond(boundary, r) == PageOrder(boundary, r)

(* query_page: the rows of a kind after the boundary.                      *)
After(kind, anchor, boundary) ==
    {r \in OfKind(AsOf(anchor), kind) :
        boundary # None => Beyond(boundary, r)}

-----------------------------------------------------------------------------
(* The rendered artifacts.                                                 *)

Day(t)  == t \div DayLength
Week(t) == t \div WeekLength

DeliveryOf(p) == [anchor |-> proc[p].anchor, rows |-> proc[p].rows,
                  rules |-> proc[p].rules]

(* build_snapshot and render_market_wiki know nothing of the rules.        *)
Snapshot(d) == [d EXCEPT !.rules = {}]

(* evaluate_alerts: an alert is named by its rule, snapshot and row.       *)
AlertsOf(d) ==
    {a \in [rule : d.rules, snapshot : {Snapshot(d)}, row : d.rows] :
        <<a.rule, a.row.key>> \in Breaches}

(* _render_delivery: the artifacts in the order they are written.          *)
Artifacts(d) ==
    <<[type |-> "wiki", path |-> <<"wiki", 0>>, content |-> Snapshot(d)],
      [type |-> "daily", path |-> <<"daily", Day(d.anchor)>>,
       content |-> Snapshot(d)],
      [type |-> "weekly", path |-> <<"weekly", Week(d.anchor)>>,
       content |-> Snapshot(d)],
      [type |-> "alerts", path |-> <<"alerts", Day(d.anchor)>>,
       content |-> d]>>

ArtifactSet(d) == {Artifacts(d)[i] : i \in 1 .. 4}

Output(d, artifact) == [delivery |-> d, artifact |-> artifact]

-----------------------------------------------------------------------------
(* The surroundings.                                                       *)

Tick ==
    /\ now < MaxNow
    /\ now' = now + 1
    /\ UNCHANGED <<canonical, indexes, job, proc, writer, disk, ledger,
                   bounds>>

(* A run is promoted that made revision rev of k. The revision got its     *)
(* number when the run saved it, so runs may be promoted in another order. *)
Promote(k, rev, gone) ==
    /\ writer = None
    /\ <<k, rev>> \in demand.promoted
    /\ \A r \in canonical : ~(r.key = k /\ r.rev = rev)
    /\ gone => rev > 1
    /\ canonical' = canonical \cup
          {[key |-> k, rev |-> rev, at |-> now, gone |-> gone]}
    /\ UNCHANGED <<now, indexes, job, proc, writer, disk, ledger, bounds>>

(* enqueue_projection_delivery: one job per request.                       *)
Enqueue(a) ==
    /\ writer = None
    /\ a \in demand.queued
    /\ job[a].state = "absent"
    /\ job' = [job EXCEPT ![a].state = "queued"]
    /\ UNCHANGED <<now, canonical, indexes, proc, writer, disk, ledger,
                   bounds>>

LeasePasses(a) ==
    /\ job[a].lease = "live"
    /\ job' = [job EXCEPT ![a].lease = "stale"]
    /\ UNCHANGED <<now, canonical, indexes, proc, writer, disk, ledger,
                   bounds>>

(* projections rebuild                                                     *)
RebuildCommand ==
    /\ writer = None
    /\ indexes' = Latest(canonical)
    /\ UNCHANGED <<now, canonical, job, proc, writer, disk, ledger, bounds>>

-----------------------------------------------------------------------------
(* The start of a publication.                                             *)

(* A failed attempt, or one that was given up.                             *)
Retried(j) ==
    [j EXCEPT !.state = IF j.attempts < MaxAttempts THEN "retry_wait"
                        ELSE "dead_letter",
              !.lease = "none"]

(* Mutant: a claim that was never started is not recovered.                *)
RecoveredRunning(j) ==
    IF j.lease = "stale" /\ j.state = "running" THEN Retried(j) ELSE j

Recovered(j) ==
    CASE j.lease = "stale" /\ j.state = "running" -> Retried(j)
      [] j.lease = "stale" /\ j.state = "claimed" ->
            [j EXCEPT !.state = "queued", !.lease = "none"]
      [] OTHER -> j

(* A tick recovers and claims; the job is due at its anchor.  The daemon   *)
(* keeps the writer lease for the rest of the tick.                        *)
BeginTick(a) ==
    LET recovered == [b \in Anchor |-> Recovered(job[b])]
    IN  /\ writer = None
        /\ proc["daemon"].pc = "idle"
        /\ recovered[a].state \in {"queued", "retry_wait"}
        /\ a <= now
        /\ job' = [recovered EXCEPT ![a].state = "claimed", ![a].lease = "live"]
        /\ proc' = [proc EXCEPT !["daemon"] =
                        [Idle EXCEPT !.pc = "claimed", !.anchor = a]]
        /\ writer' = "daemon"
        /\ UNCHANGED <<now, canonical, indexes, disk, ledger, bounds>>

IdleTick ==
    LET recovered == [b \in Anchor |-> Recovered(job[b])]
    IN  /\ writer = None
        /\ proc["daemon"].pc = "idle"
        /\ recovered # job
        /\ \A a \in Anchor : recovered[a].state \in {"queued", "retry_wait"}
                                => a > now
        /\ job' = recovered
        /\ UNCHANGED <<now, canonical, indexes, proc, writer, disk, ledger,
                       bounds>>

(* start_system_job, timed by the tick's anchor; no rules are passed.      *)
StartSystemJob ==
    LET a == proc["daemon"].anchor
    IN  /\ proc["daemon"].pc = "claimed"
        /\ job' = [job EXCEPT ![a].state = "running", ![a].attempts = @ + 1]
        /\ proc' = [proc EXCEPT !["daemon"].pc = "rebuilding"]
        /\ UNCHANGED <<now, canonical, indexes, writer, disk, ledger, bounds>>

(* projections publish, or a caller with alert rules.                      *)
PublishCommand(a, rules) ==
    /\ writer = None
    /\ a \in demand.published
    /\ proc["operator"].pc = "idle"
    /\ proc' = [proc EXCEPT !["operator"] =
                    [Idle EXCEPT !.pc = "rebuilding", !.anchor = a,
                                 !.rules = rules]]
    /\ writer' = "operator"
    /\ commands < MaxCommands /\ commands' = commands + 1
    /\ UNCHANGED <<now, canonical, indexes, job, disk, ledger, demand, faults>>

-----------------------------------------------------------------------------
(* deliver_canonical_projections.                                          *)

(* Mutant: a nested operation gives the lease up.                          *)
NestedReleases(p) == None

(* Who holds the writer lease once a nested store operation has returned.  *)
Nested(p) == p

Rebuild(p) ==
    /\ proc[p].pc = "rebuilding"
    /\ indexes' = Latest(canonical)
    /\ proc' = [proc EXCEPT ![p].pc = "loading",
                            ![p].counts = Counts(Latest(canonical))]
    /\ writer' = Nested(p)
    /\ UNCHANGED <<now, canonical, job, disk, ledger, bounds>>

Total(p) ==
    IF proc[p].after = None
    THEN proc[p].total
            + Cardinality(OfKind(AsOf(proc[p].anchor), Kinds[proc[p].kind]))
    ELSE proc[p].total

LoadPage(p) ==
    /\ proc[p].pc = "loading"
    /\ proc[p].kind <= Len(Kinds)
    /\ Total(p) <= MaxRows
    /\ LET page == After(Kinds[proc[p].kind], proc[p].anchor, proc[p].after)
           more == Cardinality(page) > PageSize
       IN  proc' = [proc EXCEPT ![p] = [proc[p] EXCEPT
              !.rows = proc[p].rows \cup First(PageSize, page),
              !.total = Total(p),
              !.after = IF more THEN LastOf(First(PageSize, page)) ELSE None,
              !.kind = IF more THEN proc[p].kind ELSE proc[p].kind + 1,
              !.pc = IF ~more /\ proc[p].kind = Len(Kinds)
                     THEN "rendering" ELSE "loading"]]
    /\ UNCHANGED <<now, canonical, indexes, job, writer, disk, ledger, bounds>>

Render(p) ==
    /\ proc[p].pc = "rendering"
    /\ proc' = [proc EXCEPT ![p].pc = "writing"]
    /\ shown' = None
    /\ UNCHANGED <<now, canonical, indexes, job, writer, files, manifests,
                   history, ledger, bounds>>

(* Mutant: the manifest is written first.                                  *)
WriteOrderAuditFirst == <<"audit", "wiki", "daily", "weekly", "alerts">>

(* _publish_delivery: each file replaces the old one, the manifest last.   *)
WriteOrder == <<"wiki", "daily", "weekly", "alerts", "audit">>

(* The file at x is replaced, or is new.                                   *)
Put(f, x, content) ==
    [y \in DOMAIN f \cup {x} |-> IF y = x THEN content ELSE f[y]]

WriteArtifact(p, type) ==
    LET a == CHOOSE x \in ArtifactSet(DeliveryOf(p)) : x.type = type
    IN  /\ files' = Put(files, a.path, a.content)
        /\ history' = history \cup {a}
        /\ UNCHANGED manifests

WriteManifest(p) ==
    /\ manifests' = Put(manifests, DeliveryOf(p), proc[p].counts)
    /\ UNCHANGED <<files, history>>

WriteFile(p) ==
    /\ proc[p].pc = "writing"
    /\ LET type == WriteOrder[proc[p].next]
       IN  IF type = "audit" THEN WriteManifest(p) ELSE WriteArtifact(p, type)
    /\ proc' = IF proc[p].next = Len(WriteOrder)
               THEN [proc EXCEPT ![p].pc = "recording"]
               ELSE [proc EXCEPT ![p].next = @ + 1]
    /\ UNCHANGED <<now, canonical, indexes, job, writer, shown, ledger,
                   bounds>>

-----------------------------------------------------------------------------
(* record_projection_delivery and the end.                                 *)

(* Every file of the report is still what was written.                     *)
Validated(p) ==
    LET d == DeliveryOf(p)
    IN  /\ \A a \in ArtifactSet(d) :
              a.path \in DOMAIN files /\ files[a.path] = a.content
        /\ d \in DOMAIN manifests /\ manifests[d] = proc[p].counts

(* Mutant: every record adds an event.                                     *)
EventsAlways(d, rows, row) == Append(events, d)

(* An audit_event is added when a row of the delivery is new.              *)
EventsAfter(d, rows, row) ==
    IF rows \subseteq outputs /\ row \in audited /\ AlertsOf(d) \subseteq alerts
    THEN events ELSE Append(events, d)

(* _record_delivered_alerts, INSERT OR IGNORE.                             *)
RecordedAlerts(d) == alerts \cup AlertsOf(d)

Record(p) ==
    LET d    == DeliveryOf(p)
        rows == {Output(d, a) : a \in ArtifactSet(d)}
        row  == [delivery |-> d, counts |-> proc[p].counts]
    IN  /\ proc[p].pc = "recording"
        /\ Validated(p)
        /\ outputs' = outputs \cup rows
        /\ audited' = audited \cup {row}
        /\ alerts'  = RecordedAlerts(d)
        /\ events'  = EventsAfter(d, rows, row)
        /\ shown'   = d
        /\ IF p = "daemon"
           THEN /\ proc' = [proc EXCEPT ![p].pc = "finishing"]
                /\ UNCHANGED writer
           ELSE proc' = [proc EXCEPT ![p] = Idle] /\ writer' = None
        /\ UNCHANGED <<now, canonical, indexes, job, files, manifests, history,
                       bounds>>

(* finish_system_job: refused once the lease has passed.                   *)
Finished(j, status) ==
    IF j.lease # "live" THEN j
    ELSE IF status = "succeeded"
         THEN [j EXCEPT !.state = "succeeded", !.lease = "none"]
    ELSE Retried(j)

(* Whichever step raised, the attempt is closed as a success only behind   *)
(* the record.                                                             *)
StatusOf(pc) == IF pc = "finishing" THEN "succeeded" ELSE "failed"

FinishSystemJob ==
    LET a == proc["daemon"].anchor
    IN  /\ proc["daemon"].pc = "finishing"
        /\ job' = [job EXCEPT ![a] = Finished(@, StatusOf("finishing"))]
        /\ proc' = [proc EXCEPT !["daemon"] = Idle]
        /\ writer' = None
        /\ UNCHANGED <<now, canonical, indexes, disk, ledger, bounds>>

(* A step of the publication raises: a foreground command ends with the    *)
(* error, the daemon closes its attempt as failed.                         *)
Raise(p) ==
    /\ LET a == proc[p].anchor
       IN  job' = IF p = "daemon"
                  THEN [job EXCEPT ![a] = Finished(@, StatusOf(proc[p].pc))]
                  ELSE job
    /\ proc' = [proc EXCEPT ![p] = Idle]
    /\ writer' = IF writer = p THEN None ELSE writer
    /\ UNCHANGED <<now, canonical, indexes, disk, ledger, demand, commands>>

(* known_total > MAX_DELIVERY_ROWS                                         *)
TooManyRows(p) ==
    /\ proc[p].pc = "loading"
    /\ Total(p) > MaxRows
    /\ Raise(p)
    /\ UNCHANGED faults

(* A full disk, a rule on a value that is not a number, a changed file.    *)
Fail(p) ==
    /\ proc[p].pc \in Publishing
    /\ faults < MaxFaults
    /\ faults' = faults + 1
    /\ Raise(p)

(* The process dies: the kernel releases its lock and nothing else.        *)
Crash(p) ==
    /\ proc[p].pc # "idle"
    /\ faults < MaxFaults
    /\ faults' = faults + 1
    /\ proc' = [proc EXCEPT ![p] = Idle]
    /\ writer' = IF writer = p THEN None ELSE writer
    /\ UNCHANGED <<now, canonical, indexes, job, disk, ledger, demand, commands>>

-----------------------------------------------------------------------------
Deliver(p) ==
    \/ Rebuild(p) \/ LoadPage(p) \/ TooManyRows(p) \/ Render(p)
    \/ WriteFile(p) \/ Record(p)

Next ==
    \/ Tick
    \/ \E k \in Key, rev \in 1 .. MaxRevisions, gone \in BOOLEAN :
           Promote(k, rev, gone)
    \/ \E a \in Anchor : Enqueue(a) \/ LeasePasses(a) \/ BeginTick(a)
    \/ RebuildCommand \/ IdleTick \/ StartSystemJob \/ FinishSystemJob
    \/ \E a \in Anchor, rules \in {{}, Rule} : PublishCommand(a, rules)
    \/ \E p \in Process : Deliver(p) \/ Fail(p) \/ Crash(p)

Spec == Init /\ [][Next]_vars

(* A queued delivery is not starved by other commands: the daemon ticks    *)
(* again and again, its steps end, and leases pass.                        *)
FairSpec ==
    /\ Spec
    /\ WF_vars(Tick)
    /\ SF_vars(IdleTick \/ \E a \in Anchor : BeginTick(a))
    /\ \A a \in Anchor : WF_vars(LeasePasses(a) /\ proc["daemon"].pc = "idle")
    /\ WF_vars(StartSystemJob) /\ WF_vars(FinishSystemJob)
    /\ \A p \in Process : WF_vars(Deliver(p))

-----------------------------------------------------------------------------
(* The tables, the rows that were read and the counts in the manifest of a *)
(* publication come from one canonical state, and the tables still are its *)
(* index when the delivery is recorded: the writer lease of the outer call *)
(* spans its nested operations, and paging loses no row even where several *)
(* became available at the same time.                                      *)
PublicationIsCoherent ==
    \A p \in Process :
        /\ proc[p].pc \in {"loading", "rendering", "writing", "recording"} =>
              /\ indexes = Latest(canonical)
              /\ proc[p].counts = Counts(Latest(canonical))
        /\ proc[p].pc \in {"rendering", "writing", "recording"} =>
              proc[p].rows = AsOf(proc[p].anchor)

(* An audit manifest is written behind the artifacts it lists, and a       *)
(* delivery is recorded behind both: after a death at any step no manifest *)
(* and no output_artifact row names a file that was never published.       *)
ManifestsComeLast ==
    /\ \A d \in DOMAIN manifests : ArtifactSet(d) \subseteq history
    /\ \A o \in outputs : o.delivery \in DOMAIN manifests
                          /\ o.artifact \in history

(* From the record of a delivery until the next publication starts to      *)
(* write, the output directory shows that delivery whole: no publisher     *)
(* that failed or was late has left one of its files over it.              *)
ShownIsWhole ==
    shown # None =>
        \A a \in ArtifactSet(shown) : files[a.path] = a.content

(* A job ends as succeeded only when the delivery of its anchor has its    *)
(* lineage, whether this attempt wrote it or an earlier one that died      *)
(* before it could close.                                                  *)
SucceededIsRecorded ==
    \A a \in Anchor : job[a].state = "succeeded" =>
        \E r \in audited :
            /\ r.delivery.anchor = a
            /\ \A x \in ArtifactSet(r.delivery) : Output(r.delivery, x) \in outputs

(* The lineage of a delivery is true of the files, and a job that succeeded*)
(* has one.                                                                *)
LineageIsTrue == TypeOK /\ ManifestsComeLast /\ SucceededIsRecorded

(* Repeating a delivery after a crash adds no lineage: of each delivery    *)
(* there is one audit event per manifest, and the alert rows are those of  *)
(* the recorded deliveries, each once.                                     *)
ReplaysAddNothing ==
    /\ \A d \in {events[i] : i \in DOMAIN events} :
          Cardinality({i \in DOMAIN events : events[i] = d})
             = Cardinality({r \in audited : r.delivery = d})
    /\ alerts = UNION {AlertsOf(r.delivery) : r \in audited}

(* A delivery that was queued ends, also when its first publishers died.   *)
DeliveriesEnd == []<>(\A a \in Anchor : job[a].state \in Ended \cup {"absent"})

-----------------------------------------------------------------------------
(* The inductive invariant of the proofs.                                  *)

ProcessRecord ==
    [pc : {"idle", "claimed", "finishing"} \cup Publishing,
     anchor : Anchor \cup {0}, rules : SUBSET Rule,
     counts : {<<>>} \cup [1 .. Len(Kinds) -> Nat],
     kind : 1 .. Len(Kinds) + 1, after : Revision \cup {None},
     total : Nat, rows : SUBSET Revision, next : 1 .. 5]

(* No two revisions of a key have the same number.                         *)
RevisionsAreNumbered ==
    /\ IsFiniteSet(canonical)
    /\ \A r, q \in canonical : r.key = q.key /\ r.rev = q.rev => r = q

(* A process that is doing something holds the lease; what it publishes is *)
(* not on show, and the artifacts before its next one are on disk.         *)
PublishersAreAlone ==
    \A p \in Process :
        /\ proc[p].pc # "idle" <=> writer = p
        /\ proc[p].pc \in {"writing", "recording"} => shown = None
        /\ proc[p].pc = "writing" =>
              \A i \in 1 .. 4 : i < proc[p].next =>
                  Artifacts(DeliveryOf(p))[i] \in history

(* What the pages so far have brought: the kinds before this one, and of   *)
(* this one the rows up to the boundary.                                   *)
PagesAreExact ==
    \A p \in Process : proc[p].pc = "loading" =>
        LET all  == AsOf(proc[p].anchor)
            kind == proc[p].kind
        IN  /\ kind <= Len(Kinds)
            /\ proc[p].after # None => proc[p].after \in OfKind(all, Kinds[kind])
            /\ proc[p].rows =
                  {r \in all : \E i \in 1 .. kind - 1 : KindOf[r.key] = Kinds[i]}
                  \cup {r \in OfKind(all, Kinds[kind]) :
                          proc[p].after # None /\ ~Beyond(proc[p].after, r)}

(* Nothing was read before the tables are rebuilt, nor written before the  *)
(* pages were read.                                                        *)
PublicationsStartBare ==
    \A p \in Process :
        /\ proc[p].pc \in {"claimed", "rebuilding"} =>
              proc[p].kind = 1 /\ proc[p].after = None /\ proc[p].rows = {}
        /\ proc[p].pc \in {"claimed", "rebuilding", "loading", "rendering"} =>
              proc[p].next = 1

(* A job that waits or is claimed has an attempt left, and the daemon's    *)
(* steps find their job where the previous one left it.                    *)
JobsFollowTheDaemon ==
    /\ \A a \in Anchor :
          job[a].state \in {"absent", "queued", "retry_wait", "claimed"} =>
              job[a].attempts < MaxAttempts
    /\ proc["daemon"].pc = "claimed" => job[proc["daemon"].anchor].state = "claimed"
    /\ proc["daemon"].pc = "finishing" =>
          \E r \in audited : r.delivery.anchor = proc["daemon"].anchor

(* A recorded delivery has all of its rows and its event.                  *)
RecordsAreWhole ==
    /\ IsFiniteSet(audited)
    /\ \A r \in audited :
          /\ \A x \in ArtifactSet(r.delivery) : Output(r.delivery, x) \in outputs
          /\ \E i \in DOMAIN events : events[i] = r.delivery

IInv ==
    /\ LineageIsTrue /\ PublicationIsCoherent /\ ShownIsWhole /\ ReplaysAddNothing
    /\ proc \in [Process -> ProcessRecord]
    /\ events \in Seq(Delivery)
    /\ RevisionsAreNumbered /\ PublishersAreAlone /\ PagesAreExact
    /\ PublicationsStartBare /\ JobsFollowTheDaemon /\ RecordsAreWhole

=============================================================================
