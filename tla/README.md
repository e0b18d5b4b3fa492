# A TLA+ verification of nan_fung

`nan_fung` (`src/src/nan_fung`, Python) ingests public data about the London
office market into SQLite on a schedule and serves it to an agent runtime
(`src/agent-runtime`, TypeScript). Its core is `operational.py`: a durable
job queue, append-only record streams with review and promotion, a scheduler,
a per-host request throttle and a ledger of refreshes that agents ask for.
Around it are the ingestion life cycles, the delivery of projections, backups
and migrations. All of it is shared by a daemon, command-line processes and
one-shot tool processes, each of which may die between any two transactions.

The modules here are written from that code; `PROJECT.json` gives the source
lines of every definition under `map`. Run everything from this directory:

    tlc -workers 2 -config MCJobStore.cfg MCJobStore
    tlapm JobStore_proofs.tla

## 1. Inventory

| component | state | operations | what makes it correct |
|---|---|---|---|
| job queue (`operational.py`) | `workflow_job`, `workflow_attempt`, `ingestion_run` | enqueue, claim, start, heartbeat, finish, cancel, recover | a job is run by one worker at a time, within its budget; a worker that lost its lease can change nothing; a result is final |
| record streams (`operational.py`, view migrations) | `observation_revision`, `record_stream_head`, `run_observation`, reviews, `run_promotion` | persist, begin and finalize snapshot, decide, promote, revoke | every revision changes something; readers see only what was promoted; lanes do not mix |
| refresh ledger and approvals (`operational.py`, `refresh_api/`, `agent_tools/facade.py`) | `refresh_request`, `refresh_confirmation`, `agent_refresh_approval` and its events | submit, create, look up, decide, recover, resend | one job and one identity per request; a cohort cools down once; past the quota only with an approval |
| host throttle (`operational.py`, `datasources/common.py`) | `host_throttle` | permit, record response | a Retry-After is honoured by every process; requests are paced |
| scheduler (`operational.py`, `ingestion/jobs.py`) | `workflow_schedule` and its cursor | tick: sync, materialize, enqueue, move the cursor | each slot gets one job, none is lost to a failure |
| in-memory queue (`ingestion/jobs.py`) | jobs, attempts, claims under one lock | the same as the job queue | the same life cycle as the job queue, and no job the dataclass refuses |
| writer lease (`operational.py`) | a lock file, a depth counter | enter, leave | one writing process, re-entrant in itself |
| artifacts (`storage/artifacts.py`) | files named by digest, rows that name them | write, link, verify | a row never names a missing or different file |
| supervisor (`supervisor.py`) | heartbeat, stop flag | run once, run until stopped | every due job is worked off and a failing one does not stop the rest |
| workflows and life cycles (`workflows.py`, `ingestion/*_lifecycle.py`) | none of their own | sequences of acquire, persist, promote | a failure at any point leaves the run failed |
| parser runner (`ingestion/parser_runner.py`) | a child process | run with limits | the child is gone when the call returns |
| projections (`projections/`) | output files, delivery rows | render, stage, deliver, rebuild | a delivery is recorded for the files that are there |
| read API (`read_api/`) | none | read-only queries | reads the promoted views only |
| agent tools (`agent_tools/`) | sealed handles | one request per process | handles open only for whom they were made |
| backups (`backups.py`), migrations (`storage/db.py`) | copies, `schema_migration` | back up, restore, migrate | restore gives what was backed up |
| agent runtime (`agent-runtime/src`) | sessions, active turn, event stream | turn, cancel, approve, reconnect | one turn at a time, one final event per turn |

They interact through the database and the writer lease (`flock` on
`writer.lock`, which fails at once when taken). One store operation is one or
several SQLite transactions under that lease; between operations of one worker
every other process may act. What is hard here is therefore: steps of several
processes in any order, a process that dies between two transactions,
timestamps read before a transaction and used in it, leases and confirmations
that expire while they are used, and retries of what was already done.
`PROJECT.json` lists the hazards with their lines and the properties that
answer them.

## 2. Modules

Each module names the tables and files as VARIABLES with the columns the code
tells apart, and has one action per store operation (or per transaction, where
an operation commits more than once). Identifiers, hashes and payloads are
abstract values; hashing is taken as injective.

Several modules have a variable that Init chooses and nothing changes:
`definition` (CanonicalStream), `enabled` (Scheduler), `planned` (Ingestion) and
`demand` (ProjectionDelivery). It says which of the registered definitions,
schedules, jobs or requests the behaviour is about, so that one run checks
several instances and none of them has to hold all the rest as well.

**JobLifecycle** is the abstract specification of a job: numbered attempts, one
at a time, at most `budget` of them, one outcome each, and a state that follows
from the last outcome. It has no clock, workers, tokens or leases.

**JobStore** models the queue. `enqueue` with its dedupe keys (request,
schedule slot, instance id), backfill and projection jobs, `retry`; `ClaimNext`
and `ClaimJob` first recover expired leases, as the code does; `StartRun` and
`StartSystemJob` open attempt and run; `Heartbeat`, `FinishRun`,
`FinishSystemJob`, `Cancel`, `RecoverExpired`. A worker holds a handle (job,
token, attempt) and may forget it at any point (`Abandon`). Timestamps passed
in are at most `Skew` old: the supervisor takes one reading for a whole tick.
A daemon holds the writer lease for a tick, the life-cycle commands do not, so
the model lets workers interleave freely. FailRunning fails the one running
attempt that `AttemptLedger` says there is, where the code says `LIMIT 1`.
`ImplementsLifecycle` is its refinement of JobLifecycle.

**MemoryQueue** models `InMemoryJobQueue`, the reference queue of
`ingestion/jobs.py`. Each method holds one lock and is one action; threads keep
their claims between calls and may pass a `now` from before they got the lock.
It refines JobLifecycle too, so the two queues are compared through what both
promise. They differ where JobLifecycle allows both: `JobStore` cancels a
claimed job, the reference queue does not.

**CanonicalStream** models the record streams: revisions per key with their
heads, observation links of runs, full snapshots that tombstone what they did
not see, reviews and promotions, and the three views readers use. Decisions are
ordered as they are inserted; the view orders by `decision_at` first, which is
the same while the clock does not go back.

**RefreshLedger** models the refresh requests of agents. `submit_agent_refresh`
is two transactions under one lease (`EnqueueJob`, `RecordJob`), preceded by
its look-ups; a facade process reads the clock before it calls and may die
after any step. The approval path is `IssueConfirmation`, `BindApproval`,
`ApproveRefresh`, `Decide`, `RecoverToken`, `Resend`, each with its own clock
reading (`Readings`). Two things the model shows of the code and no property
forbids: an approved token that is submitted after the quota's day is over is
refused, because no confirmation is needed then; and a denied request may be
submitted again, without a token, on a day with quota left.

**HostThrottle** models the gate around each HTTP hop, for several processes
with old clock readings. A request that was permitted before a 429 was recorded
may still be sent after it: the permit is what the gate controls. A 429 without
a usable Retry-After blocks nothing. `lastPermit` and `deadline` are history
variables.

**Scheduler** models a tick as its transactions: `BeginTick` (registry sync
and the read of the schedules), then per schedule skip, pause or `Materialize`,
`EnqueueSlot` per slot, and `UpdateScheduleCursor`. The recurrences are
`IntervalNext` and, for calendar and monthly rules, one slot per period except
in the periods that have none. `IsSlot` says what a slot is without the search.
The lease recovery of a tick is JobStore's, and its enqueue is reduced to the
dedupe by schedule and slot that `DedupeKeysAreUnique` is about. A schedule
with a catch-up horizon drops older slots by design, and is left out of the
properties on lost slots. The error of `next_after` outside its handler
(operational.py:3868) ends the tick (`NoNextDue`), and with it what every later
tick can do for the schedules behind that one (`EndsTicks`, `Reached`).

**Ingestion** composes the supervisor daemon, the writer lease, the artifact
store and the five ingestion life cycles (Bank Rate, PLD, official macro, file
releases, ONSPD). The daemon holds the lease for a whole tick: it claims,
captures from the network, hands over to a life cycle and closes out what that
left open; an operator's process ingests a fixture, or replays saved evidence
with the lease taken per store operation. A life cycle publishes each artifact
(`StoredFile`), commits its rows (`Rows`), parses, observes record by record and
closes the run. Any step may fail, either process may die, and a claim's lease
may pass at any time (`Expire`). The job table is reduced to state, owner,
attempt and lease; the store's side of a claim (`Owns`) is what JobStore proves
about tokens. `captured` and `orphaned` are history variables.

**ProjectionDelivery** models a delivery of projections by the daemon (for a
job) or by an operator: writer lease with its nesting, rebuild of the derived
tables, keyset paging of the canonical rows as of the anchor (`Beyond`), where
revisions may be promoted in another order than that of their numbers, four
artifacts and an audit manifest written one file after another (`WriteOrder`),
then one transaction for outputs, alerts and the audit event. A file is what it
was rendered from. `history` and `shown` are history variables.

**StoreBackups** models a data directory as a database (number of applied
migrations, contents it names, sets it records) and files that may go bad;
migrations with their pre-migration backups, backup sets staged, verified and
renamed into place, restores (which take no writer lease) and the switch to a
restored directory, under deaths and changing releases.

**AgentTurns** models the agent runtime: the session registry with its
reservation, the turn runner with its deadline, cancellation, approvals with
their serialised decisions, and the event hub with its recovery records. One
Node process runs it, so an action is what runs between two awaits of the
outside; promise callbacks run before the next event (`Settled`).

The MC modules give each of these a small instance.

## 3. Runs

| run | question | bounds |
|---|---|---|
| `queue_safety` | the tables agree, late workers are fenced, the queue implements JobLifecycle | 2 workers, 2 jobs of three kinds, budgets of 1 and 2, lease 2, anchors up to 1 old, clock to 3 |
| `memory_queue` | the reference queue implements JobLifecycle and builds only valid jobs | 2 threads, 2 jobs, budgets 1 and 2, anchors up to 1 old, clock to 4 |
| `canonical_streams` | revisions, tombstones, lanes, visibility; late and repeated decisions | 3 runs; two lanes and scopes under automatic promotion, or two values under review |
| `refresh_ledger` | requests, identities, cooldown, quota, decisions | 2 processes, 2 requests, 2 principals, a quoted cohort and another, limit 1, clock to 4 with a day of 4 |
| `host_throttle` | Retry-After and pacing | 1 host, 2 processes, delays 0, 1, 2 and one past the horizon, 1 redirect |
| `scheduler` | slots and cursors under failures; due slots get their jobs | three registries of ten schedules (backlogs; calendar and horizon; all that a sweep cannot use), 3 faults, clock to 6 |
| `agent_turns` | streams, decisions, reservations, deadlines | 1 session, 2 turns, 1 approval, 2 decision requests |
| `agent_one_active_turn` | violation: finding 1 | 1 session, 3 turns, no approval |
| `ingestion` | evidence, completeness, sealed runs, ends of jobs | four pairs of jobs over all families and kinds, 4 contents, 2 records, 1 death |
| `delivery` | rows, files, lineage, repeats, ends of deliveries | a queued delivery beside an operator's, or three keys (one with two revisions) in pages of one row; 1 fault |
| `store_backups` | whole sets, backed rows, true records, backups before migrations | 2 processes, 2 contents, 2 directories, 4 migrations, 2 deaths, 1 bad file, 2 installs |
| `store_bootstrap` | violation: finding 2 | 1 process, 1 death, 3 migrations |

Two workers are enough for a stale handle to meet a fresh one, and two jobs for
dedupe and for one job to overtake another; three runs are needed for a late
decision to have something newer and something older than it. Clock bounds let
every lease, cooldown, confirmation and block both start and expire; the
daily limit of 1 makes the second job of a day the one that needs approval.
`host_throttle` has one host because hosts share nothing except a redirect,
which with one host is the continuation case; its proof covers any number. A
quota day longer than the run is avoided in `refresh_ledger` so that the roll
over happens. In `ingestion` one death is enough to orphan a job, a budget of
two to have it attempted again by the other process, and two records to leave a
run half observed. In `delivery` a page of one row puts the page boundary
between rows of the same time. In `agent_turns` two turns and one approval are
what a late decision or cancel needs to meet the wrong turn; the third turn of
`agent_one_active_turn` is the one that is accepted too many; it has no approval,
so that nothing but a cancel frees the reservation of a turn that has not ended.
Every bound is a CONSTANT.

The consistency invariants (`TablesAreConsistent`, `StreamsAreConsistent`,
`LedgerIsConsistent`, `SchedulesAreConsistent`, `EvidenceIsWhole`,
`LineageIsTrue`) are conjunctions of named parts, each with its own comment; the
module's type invariant is one of them.

Fairness, always under faults whose number is bounded:

- `scheduler`: time passes, a tick that is not interrupted goes on (weak), and
  ticks with a current anchor begin again and again (strong): `run_until` loops
  and reads the clock for each tick.
- `ingestion`: steps of both processes end, leases pass, a dead or refused
  daemon is restarted (weak); the daemon does not meet the operator's lease at
  every tick, and a job in `retry_wait` becomes due (strong). A tick that finds
  the lease taken raises, and the service manager starts the daemon again.
- `delivery`: publishers go on, time and leases pass, the daemon's ticks
  come round (strong, for the same reason).
- `agent_turns`: timers fire and the callbacks of a settled promise run.
  Nothing is assumed of the model, the tools or the user.
- `store_bootstrap`: `db migrate` is run again and again (strong), and its steps
  end.

Runs that say `CHECK_DEADLOCK FALSE` do so because the clock, the supply of
jobs and the faults are bounded and the system may then be at rest.

## 4. Proofs

Each holds for every value of the constants that meets the module's ASSUMEs,
which TLC evaluates in the runs: durations are natural numbers, intervals and
budgets positive, NULL is not a value.

`JobStore_proofs` proves the queue's invariants for every number of workers,
jobs, attempts and every lease. The inductive invariant `IInv` (in JobStore)
joins `TypeOK`, `ClaimColumns`, `AttemptLedger`, `RunMirrorsAttempt`,
`ClaimableHasBudget`, `ResultIsFinal`, `PromotedRunsSucceeded` and
`HandlesAreFenced`. They need each other: that a finish closes the right
attempt follows from the fencing of handles, fencing needs tokens that are
fresh and claim columns that are empty outside a lease, and the budget of a
recovered job needs the attempts to be counted without gaps. There is one lemma
per operation (`SubmitInv`, `RecoverInv`, `ClaimRowInv`, `StartInv`,
`HeartbeatInv`, `CloseInv`, `CancelInv`, ...), `Inductive` joins them and the
named theorems are corollaries. `DedupeKeys` has an induction of its own,
because only submissions touch identities (`OtherStepsKeepIdentity`);
`TablesConsistent` joins it with the others. `LeaseExclusive` and
`LateCommitsRefused` are action properties: under `IInv` no step takes a lease
that is live by the true clock, although recovery works with an old anchor, and
none but the holder's finish ends an attempt as anything but failed.

`JobStore_proofs` also proves `StoreImplementsLifecycle`: under the refinement
mapping (budget 0 for an absent job) the initial states agree and every step of
JobStore moves each job along one edge of JobLifecycle or leaves it. Claims are
the long case, because they recover every expired job first: one step returns or
fails several jobs and claims one of them. `IInv` supplies that the attempt that
is closed is the last one and that a job that starts has budget left.

`StoreBackups_proofs` proves that published sets are whole, that rows have
files, that recorded sets exist and that no migration of evidence goes without
a set of exactly that evidence. The strengthening says what a process holds at
each step: the lease from its first step to its last (`LeaseIsHeld`), a staged
directory that is a sound prefix of the set to be (`StagingIsSound`), and, while
it applies migrations, a published set that has what the database has
(`MigrationIsCovered`). The last needs the first: nobody saves evidence between
the backup and the migration, because the lease is held across both.

`StreamAndThrottle_proofs` proves all four properties of the streams. `IInv` adds
`RunsStartBare` (a run has a lane from its start on and no links before it) to
`StreamsAreConsistent` and `DecisionHistory`; without it a run could start in
another lane than that of rows it already has. Both ways to append a revision,
an observation and the tombstones of a full snapshot, go through one lemma
(`AppendInv`). The two action properties rest on `StepFacts` (links and
revisions only grow, and runs that are decided change no more) and on
`CanonicalIsLargest`, which says what readers get: the largest revision among
the approved runs' events. That a set of numbers with a bound has a largest one
is itself proved (`MaximumExists`), from the well-foundedness of `<`.

Its second part proves of HostThrottle `ThrottleIsStored` (`GateInv` adds
`AcquirersAreInStep`: a permitted host has a row, a clock reading is not from
the future) and from it that no permit is given while a recorded Retry-After is
in force and that paced permits are an interval apart, for any set of hosts,
processes and delays. The module extends both components, which is why
HostThrottle's specification, type and invariant are called `GateSpec`,
`GateTypeOK` and `GateInv`.

`RefreshLedger_proofs` proves the ledger's four invariants. A submission is two
transactions and several look-ups apart, so `IInv` says what a process may rely
on between them (`ProcessIsSound`): in `enqueued` it holds the lease and the
last job is the one it has just committed; with a token its request has the
host's approval and a confirmation that is no younger than its clock reading.
`InstantsAreStored` ties a job's cooldown to its own submission, which is what
makes `CooldownIsShared` inductive although the anchor a process brings may be
old: `CohortIsCool` compares it with the latest job of the cohort. The long
cases are `EnqueueJobInv`, `IssueConfirmationInv` and `DecideInv`.

`MemoryQueue_proofs` proves `JobsAreValid` and `QueueImplementsLifecycle`. The
argument is made on values: `Valid` says of a job and its attempts what holds
of it whatever the rest of the queue does, and each method is shown to map
valid jobs to valid ones (`CompletedValid`, `RecoveredValid`, `ClaimedValid`,
`StartedValid`). `IInv` adds that a running job has an attempt, without which
`finish` had nothing to close. The refinement then goes per job along the edges
of JobLifecycle, as for JobStore; the sweep of `claim_next` recovers several
jobs and claims one of them in one step.

`ProjectionDelivery_proofs` proves the four invariants of deliveries for any
page size, number of rows and number of faults. `IInv` needs:
`PublishersAreAlone` (whoever does anything holds the lease, so canonical rows
and tables stand still during a publication, and nothing is on show while files
are written), `PublicationsStartBare`, `PagesAreExact`, `RevisionsAreNumbered`,
`JobsFollowTheDaemon` and `RecordsAreWhole`. Paging is the algorithmic part:
one row per key is in force (`AsOfOnePerKey`), so the page order is total on
them (`OrderIsTotal`); a row's rank is the number of rows before it and grows
along the order (`RankGrows`); hence a page that is full has a last row
(`LastExists`) and what lies not beyond it is what lay not beyond the old
boundary and this page (`BoundaryMoves`), while one that is not full is the
rest of its kind (`FirstIsAll`). `EventIsAdded` is why replays add nothing: a
manifest row and its event come together or not at all. The proof splits `IInv`
by subject (`World`, `Procs`, `Records`, `JobsInv`, `DaemonInv`); `ProcessStep`
says once for all steps that the publisher without the lease is not disturbed.

`Ingestion_proofs` proves the three invariants of ingestion and
`ClosedRunsStaySealed`, for any set of jobs, families and attempts. A tick and
an operator's command are long (claim, capture, publish, save, observe, finish),
so `IInv` says what a process may rely on in the middle of one. `WriterIsHeld`
and `ClaimsAreKept`: the daemon holds writer.lock from the begin of a tick to
its end, so nobody recovers the job it works on, while the operator, who holds
it only to publish, may lose its claim at any step and never shares a run with
the daemon. `JobsAreOwned` and `RunsFollowJobs` tie owners, leases and runs to
the state of the job. `ContentsAreExact` is the heart: what the store has of a
run is what its process has done so far, neither more (the leftover of an
attempt that died) nor less; a finish that succeeds is therefore complete.
`DataIsOfRuns` keeps rows out of runs that never began. Steps are grouped by
what they disturb: `LocalStep` (only the process), `FinishStep`, `JobStep` and
`StoreStep`. The seal of closed runs follows from the same invariant, because a
process only writes to a run it still owns.

`AgentTurns_proofs` proves `StreamsAreConsistent`, `DecisionsReachTheirTurn`,
`ReservationsEnd` and `DecisionsAreFinal` for any sessions, turns, approvals and
requests. It assumes that the bounds are natural numbers, that turns and
requests are numbered in the order they come (`OrderAssumption`), and that None
is none of the other values. That no event follows a turn's end is not inductive,
because several parties end a turn and each looked before an await. `IInv` says
what each may rely on afterwards: decisions are serialised, so only the head of
the chain is past its queue and it holds the continuation of the turn that asked
(`RequestIsSound`); a turn that waits for its decision, or was resumed by one,
has not ended unless it was cancelled, has its outcome or threw
(`WaiterIsSound`, `ResumedIsSound`); what the coordinators know of a session is
of turns launched in it (`TurnIsSound`, `SessionIsSound`, `ApprovalIsSound`);
and each event was sent in its turn's session, before that turn's end and with
its ground before it (`LogIsSound`, `RecordsAreSound`). Sending is argued once,
for an arbitrary event that may be sent (`EmittedIsSound`). The steps are
grouped by what they move: a turn (`StepInv`), the head of the decision chain
(`AnsweredInv`) and the death of the process (`CrashInv`).

Only model-checked: liveness (`DueSlotsGetTheirJobs`, `JobsEnd`,
`DeliveriesEnd`, `PromptsAreBounded`); everything about Scheduler, because what
the recursive function of its recurrences computes cannot be proved without
induction on data; and the two runs of section 5, which expect a violation.

## 5. Findings

1. `agent_one_active_turn`: the design says one active turn per session.
   A turn stays registered after its end, until the next one boots, and
   `CancelCoordinator.cancel` releases the session's reservation also when the
   registered turn has ended (agent-runtime/src/cancel.ts:41). The trace: turn 1
   ends, turn 2 is accepted, a late cancel of turn 1 drops the reservation of
   turn 2, and turn 3 is accepted while turn 2 is being read.
2. `store_bootstrap`: the design exempts the bootstrap of a new store from the
   backup. `migrate` asks whether the file exists (operational.py:345); a
   bootstrap that died before its second migration leaves a file, and the backup
   that every later migrate then tries fails on the missing table.

Other places where the code and its documents differ, met while modelling.
Each is an ordinary behaviour of the model and has no run of its own:

- enqueue (operational.py:806): after the first job of a manual request ended,
  every manual request makes another job, even while one is active; the comment
  above says that they dedupe while one is active.
- finalize_full_snapshot (operational.py:2405) tombstones while the attempt
  runs, and the head stays when it then fails. Readers do not see it
  (`ReadersSeeOnlyDecisions`), but the retry has no tombstone of its own.
- a local time that does not exist (ingestion/jobs.py:451) is skipped, where the
  design moves it to the next valid minute.
- a turn that ends while the approval of an earlier, cancelled turn is pending
  gets no terminal event and no recovery record (agent-runtime/src/app.ts:103).
- a denial ends the turn and releases its session (agent-runtime/src/approval.ts:165)
  while the prompt of the turn that asked may still run, so here too the next
  turn is accepted beside it; `agent_turns` covers what the two may do.
- the daemon may claim the job of an offline replay between its enqueue and the
  operator's claim and then captures from the network (supervisor.py:304).
- a delivery repeated from the same anchor after a later promotion has the same
  id and another audit manifest, because the counts are of the latest rows
  (projections/delivery.py:376); and a replay of an older anchor puts its older
  files over the newer ones.

## 6. Not modelled, and the plan

SQLite and the file system are taken as documented. Left out for good: HTTP
and parsing of each collector, URL policies, hashing, rendering, command-line
parsing, static files, queries that only read. `PROJECT.json` says why,
component by component.

Planned, in this order:

1. The parser runner (child process, limits, timeout against a late result) and
   the tool process of the agent runtime's facade launcher.
2. Registry snapshots: definitions are immutable once they were synchronised.
3. The replay window of an event stream and reconnecting clients.
