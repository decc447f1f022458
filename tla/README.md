# A TLA+ development for Zest

Zest is a control plane for autonomous research runs. A run proposes
hypotheses with the help of a language model, turns each into an experiment,
has Core authorize it, sends it to a Worker, and assesses what came back, over
and over, within fixed budgets and under an operator's control. The runs live in
PostgreSQL; `zestd` processes drive them, may die at any point, and may be
several. What is hard to get right, and hard to test, is that nothing with an
outside effect happens twice, that nothing is spent that was not reserved, and
that a run taken up by another process, or by the same one after a crash, goes on
from where it was. That is what these modules are about.

Abbreviations for files, below `src/src/zest/`: **ARC**
`application/autonomous_research_controller.py`, **EPE**
`application/execute_planned_experiment.py`, **LRS**
`application/local_run_supervisor.py`, **ZD** `application/zestd.py`, **LF**
`application/lease_fencing.py`, **REPO** `data/postgres/repositories.py`, **PP**
`application/promotion_pipeline.py`.

## 1. The system: inventory

| Component | State it keeps | Operations | Talks to |
|---|---|---|---|
| Orchestration row (REPO, `data/records.py`, `orchestration_lease.py`) | one `research_orchestration` row per run: state, cycle number, phase, ids of the last hypothesis, experiment and attempt, lease (owner, epoch, expiry) | conditional UPDATEs: `save` (unfenced or fenced by owner and epoch), `acquire_lease`, `renew_lease`, `release_lease` | everything below writes it |
| Run supervisor (LRS) | a thread with owner id, epoch, stop event | `_run`, `tick`, `_renew_lease_if_due`, release; registry `start`/`stop` | calls the controller, holds the lease |
| zestd runtime (ZD, `classify_runtime_recovery.py`, `research_run_control.py`) | process status, registry of supervisors | `start_process`, `recover_runs`, `start_run`, `pause_run`, `resume_run`, `cancel_run`, `drain`, `_hold_for_human` | supervisors, row |
| Lease fencing (LF) | none | fenced `save`, fenced `invoke` | wraps the repository and the Worker port |
| Research controller (ARC, `research/orchestration.py`) | the `current` record in memory | `start`, `step` and its resuming paths, `_checkpoint`, `_complete_cycle`, operator commands | model, Core, Worker, all tables |
| Experiment execution (EPE) | `execution_attempt`, `experiment` rows | `authorize`, `dispatch`, `_record_outcome` | Core, ledger, Worker |
| Budget ledger (`data/budget_ledger.py`, `budget_consumption.py`, `budget_enforced_model.py`) | append-only `budget_consumption`, `issued_budget` | `insert_within_allowance`, `RecordBudgetConsumption`, `complete` | model port, dispatch |
| Hypothesis proposal (`propose_research_hypothesis.py`, `research/admission.py`, the identity anomalies) | `hypothesis`, reasoning and admission rows | generator, falsifier, admit; classify and admit an anomaly | model through the ledger |
| Program daily budget | one envelope per program and day | check before, charge after a model call | all runs of a program |
| Core (`core/`) | none (pure) | capability, source, scope, budget, approval, rate limit; default deny | EPE |
| Worker runtime (`worker_runtime/`) | none that lasts | one request or probe after another, inside an envelope | EPE, targets |
| Sessions (`session_binding.py`) | `session_context` rows, cookies in the memory of a process | login, use, expiry on 401 or 403 | EPE, Workers |
| Feedback and Transition A | `observation`, `worker_result`, `hypothesis_assessment` | ingest, evaluate | EPE, ARC |
| Promotion and findings (PP and its use cases) | `promotion_run`, evidence, candidate, verification, tier, proposal, review, approval and finding rows | `on_assessment`, `advance`, review, finalize | ARC, EPE, operator |
| Surface discovery (`application/discovery/`, `research/discovery/`) | facts, frontier items and their events, projection receipts | cycle: replay, claim, execute (TX A), project (TX B) | ARC, EPE |
| Hunt queue (`hunt_*.py`, `dispatch_approved_v3_queue.py`, `research/coverage`, `scheduler`) | coverage cells, hypotheses, tier decisions, queue items, unit events | generate, validate, queue, approve, dispatch, mark | operator, EPE |
| Compilers (`research/compiler_registry.py`, matrices, protocol plans) | none (pure) | item to experiment plan | hunt queue, ARC |
| Schema, records, repositories (`alembic/`, `data/`) | every table, its constraints and triggers, `alembic_version` | upgrade, downgrade, insert, update, save, rollback, read back | everything |
| Worker processes (`platform/`, `worker_runtime/python/persistent_runtime.py`) | a supervised process tree, its pipes and cgroup, one browser Worker kept between calls | spawn, contain, invoke, time out, terminate, clean up, shut down | ports, kernel |
| Browser engine (`browser_page.py`, `browser_engine.py`, `playwright_chromium_engine.py`) | one context per reference: page, cookies, lease, envelope, requests left, frozen or not; the references in order of age | acquire or make a context, navigate, interact, snapshot, evict; event handlers of the pages | Worker, pages |
| Model runtimes and integrations | sessions, circuit breakers | call a model | ports |
| Interface, HQ, benchmarks, qualification | none of the control state | presentation, offline measurement | – |

How they interact. An operator command reaches a `zestd` process, which reads the
row, writes it back **unfenced**, and starts or stops a supervisor thread. The
thread ticks: it renews its lease when due, reloads the row, and lets the controller
take one `step`. A step keeps the record it read in memory, across model and
Worker calls that take minutes, and **saves all of it**, fenced by owner and
epoch. The lease is renewed only between steps. A step that outlasts its
lease may find another process driving the same run.

Behaviours that are hard: two supervisors of one run; crashes between any two
transactions; a read and a write of the row with someone else's write between
them; a check (lease, budget) and an effect (Worker, model) in different
transactions; resuming from ids that earlier cycles left in the row; the last
unit of a budget; locks held while waiting for others. `PROJECT.json` lists them
as hazards, each at its line.

What makes each component correct:

* row and supervision – one attempt per experiment, one invocation per attempt and an
  epoch that does not fall, unless an operator's save undoes a takeover; terminal
  verdicts that stay, stops that end, no run locked up by an owner that is gone;
* ledger – never overspent, charged with the dispatch mark or not at all, reserved
  before spent, no transaction waiting for ever;
* controller – one experiment and one reproduction per hypothesis, bounds that also hold on resuming
  paths, a complete cycle history, no planned experiment forgotten;
* Core and Workers – deny unless every condition holds; what is sent stays inside
  the scope, the charge and the rate that were granted; a cookie stays with its login;
* promotion – a claim is validated only by its own reproduction, refuted only by
  the target, and no finding exists without each gate and the human;
* discovery – legal histories of the frontier, nothing OBSERVED before it is projected;
* hunt – only approved items run, a settled item stays settled but for an approver who
  read it earlier, a unit is not retried blindly;
* Worker processes – no browser outside its limits or beside a lost one, no answer to
  another request, no call that hangs but on a pipe without a timeout;
* browser engine – a context sends no more than its actions were given, holds cookies of
  one session only, and is never used again after a page was seen outside its envelope;
* store – downgrades undo upgrades, a stored row can be read back, references stay
  within a run, append-only rows stay as they were.

## 2. Modules

```
OrchestrationRow   the row and its conditional UPDATEs (operators only)
  RunSupervision   zestd, supervisors, controller, dispatch, Worker: many processes
    RunSupervisionProofs
    MCRunSupervision
BudgetLedger       the ledger of one IssuedBudget: many supervisors
  BudgetLedgerProofs
  MCBudgetLedger
HypothesisAdmission   what becomes a hypothesis (operators only)
  ResearchCycle    the controller's cycle in detail: one process that crashes
    ResearchCycleProofs
    MCResearchCycle

FindingGates       the decisions from evidence to finding (operators only)
FindingAuthority   what a promotion promises (abstract specification)
  PromotionPipeline   uses FindingGates, implements FindingAuthority
    PromotionProofs
    MCPromotion

CoreDecision       Core's decisions (operators only)
ScopeRules         targets, scope rules, envelopes (operators only)
  HttpWorkers      what each Worker refuses, sends and reports (operators only)
    AuthorizedExecution   composes CoreDecision and HttpWorkers
      AuthorizedExecutionProofs   of CoreDecision too
      MCExecution

SurfaceProjection  what an observation says of the surface (operators only)
  SurfaceDiscovery
    MCDiscovery

HuntCoverage, ExperimentCompilers   (operators only)
  HuntQueue        composes both with CoreDecision
    HuntQueueProofs
    MCHunt

DurableTables      what tables.py declares (operators only)
  Migrations       every revision, up and down (operators only)
  DurableRecords   what the record classes admit (operators only)
    DurableStore   composes both
      MCStore

WorkerProcesses    the processes behind the Worker ports, and the kernel under them
  WorkerProcessesProofs
  MCWorkerProcesses
BrowserEngine      the contexts of one browser Worker, and the pages in them
  BrowserEngineProofs
  MCBrowser
```

The specifications overlap on purpose: each keeps one dimension in full (processes;
SQL statements; phases and ids; gates; requests; schema) and abstracts the others.
Where a pure decision is the point, it is a module of operators, which the
specification beside it applies in every state it reaches.

**OrchestrationRow.** A row is a record `state, cycle, phase, exp, owner, epoch,
left`; `left` is the time until `lease_expires_at`, counted in units of which `TTL`
make up a lease, and 0 is expired. Each UPDATE is a condition (`CanAcquire`,
`CanRenew`, `CanSave`, `CanSaveFenced`, ...: its WHERE clause) and a value
(`Acquired`, `Released`, ...: its SET clause).

**RunSupervision.** The database is `row`, `attempt`, `planned`, plus two ghosts:
`invoked` counts Worker calls, and `reverted` says that an operator's save has written
back lease columns which were no longer the stored ones. Each runtime has a process status, a
supervisor (`pc`, the epoch it `held`, the record it remembers `cur`, the attempt in
hand `att`, the path it is on `mode`, the state it will close with `goal`, its
`stop` event), and a management thread (`mpc`, its snapshot `mcur`): the commands,
recovery and draining of a process run one at a time. Every action is one
transaction or one external call:

| Code | Actions |
|---|---|
| `LocalRunSupervisor._run`, `tick` | `SupervisorExit`, `RenewLease`, `Tick`, `TickFault`, `StepFault` |
| `step`, `_mark_running`, planning | `Inspect`, `MarkRunning`, `NothingToDo`, `PlanExperiment` |
| `authorize` | `ReadExisting`, `Authorize`, `Refuse` |
| `dispatch` | `ReadAttempt`, `MarkDispatching`, `DispatchDenied`, `CheckFence`, `InvokeWorker` |
| `_record_outcome`, `_checkpoint`, `_complete_cycle` | `RecordOutcome`, `RecordFails`, `CheckpointResult`, `CompleteCycle` |
| `start_process`, `recover_runs`, classification, registry | `StartProcess`, `ListRecoverable`, `Classify`, `Attach` |
| operator commands | `StartRun`, `BeginStop`, `BeginResume`, `OperatorSave`, `StopSupervisor` |
| drain, death, clock | `Drain`, `Crash`, `TimePasses` |

`authorize` and `dispatch` each read in one statement and write in a later one of
the same READ COMMITTED transaction; the read and the write are separate actions,
so that another process may write between them. What Core decides, what
the model answers and what the Worker reports are nondeterministic. The read and the
write of `stop_for_operational_failure` are one action: its write is fenced,
and it changes only the state. The database may fail under the thread itself: a
release that fails is swallowed (`SupervisorExit` with the lease kept), and a failed
renewal or reload ends the thread (`TickFault`). `Attach` may be refused by the preflight
or by the lease of another; neither is tried again.

**BudgetLedger.** Every SQL statement of a reservation is an action, with
the row locks PostgreSQL takes (`lock` on `issued_budget`, `rowlock` on the
attempt). A ledger row of amount *n* is kept as *n* units, so that a sum is a
cardinality. `MODEL_CALL` also locks the orchestration row; as it is
taken only by a holder of the budget row, and no transaction that writes the
orchestration row goes on to lock a budget, it is left out.
`called` and `granted` are ghosts: which model calls were made, and how many requests
a browser page was told it may send (EPE passes the limit for pages only).

**ResearchCycle.** One controller, so the record in memory is the stored row. All
five ways in which a step goes on with what an earlier one left are there, in the
code's order (`StopUnknown`, `ResumeAuthorized`, `ReuseHypothesis` and
`ResumeAdmitted`, `ResumePlanned`, `ResumeAfterWorker`), then the bounds, the
opportunity, the two model calls with their reservations, admission, plan,
authorization, dispatch, outcome, assessment, promotion and closing. Of the promotion
it has what reaches the controller's tables: the `stage` of each promotion run and the
reproduction `repro` it reserved, an experiment of the same hypothesis, in `Promote`,
`PrepareReproduction`, `AuthorizeReproduction`, `DispatchReproduction` and
`ReproductionReturns`; `_latest_hypothesis_id` and `matching[-1]` read both kinds. `Crash` may come between any two
transactions. Which opaque id is drawn does not matter, so `NewId` draws a fixed one; what the code
reads as the last of a list ordered by id is any of that list.
The ghosts `called` and `round` record the model calls of each opportunity; a call
repeated after a crash in the same round is a replay and counts once, as the
code's own ledger would have it.

What is proposed and admitted is decided in **HypothesisAdmission**. An answer of the model is
kept as which of its parts are not empty, whether it is malformed or claims authority,
and what the context made of each reference it gives (`Ref`); `parse_hypothesis_proposal`,
`parse_hypothesis_challenge` and `admit_hypothesis` decide on that in the code's order. A `Source`
is a differential or an observation from which an identity anomaly may be read; it is classified
once to become a candidate and again when it is admitted, with other transactions in between.
`Admit` and `NotAdmitted` of `ResearchCycle` take the outcomes these operators can give.

**FindingGates, PromotionPipeline, FindingAuthority.** One assessment on its way to a
finding. `FindingGates` has the decisions as functions of what the code loads:
evidence and candidate admission, verification, the tiers V1 to V3, proposal admission,
approval, creation of a finding. In `PromotionPipeline` a *reporter* is a call of
`on_assessment` and an *advancer* a call of `advance`; each keeps the copy of the
`promotion_run` row it read and saves all of it, so a copy may be stale. An action
is one transaction; those that read and then write unguarded
(`StartCandidateVerification`, `authorize`, `StartHumanReview`) are split there.
Nothing keeps calls apart: reports, advances and reviewers overlap freely. The reproduction that an
advancer has executed is followed from plan to assessment, with the Worker's
answer, refusals and failures. The humans are `StartHumanReview` and `SetHumanReview` of
each `Reviewer`, `RecordHumanReview` and `FinalizeFinding`. `MaxCalls` bounds the calls
of reporters and advancers together. The mapping to `FindingAuthority` reads the
phase off the rows that are written once; it is the only abstract specification so far.

**ScopeRules, CoreDecision, HttpWorkers, AuthorizedExecution.** `ScopeRules` normalizes a
target, matches it against compiled rules and derives the envelope; hosts are
sequences of labels and paths sequences of lexemes, so that a string prefix and a
prefix of whole segments differ as they do in the code. `CoreDecision` has the checks
of `core/`, `HttpWorkers` what each Worker refuses before it connects, the requests
it makes in order and the status it reports. `AuthorizedExecution` runs
experiments through them: `RateLimited`, `Deny`, `Allow` (the authorization
transaction), `_resume_authorized` (an attempt left AUTHORIZED, with neither envelope nor
secrets), `Dispatch`, `DispatchDenied`, `MarkUnknown`, the Worker's `WorkerRefuses`,
`WorkerStarts`, `WorkerSends`, `WorkerStops`, `BrowserFetches`, `BrowserEnds`,
`_execute_echo` (the one capability that contacts nothing), `TransportFails`, then `RecordOutcome`, `RecordFails`, `Ingest`, `IngestRejected`,
`IngestFails`, with `Crash` anywhere and `Tick` for the clock. One process executes (the
lease is RunSupervision's subject); the grant and the session's cookie are in its
memory and are lost when it dies. `Before` is the session rows other runs left:
a binding is checked for run, target, identity, profile, origin, state and expiry.

**DurableTables, Migrations, DurableRecords, DurableStore.** A constraint is a tuple, a
table a set of them. `DurableTables` has one definition per `Table`, `Migrations` one per
`upgrade()` and `downgrade()` in the order of `down_revision`, `DurableRecords` one per
record class, `DurableStore` one per repository: which statements it offers. The
actions are `Upgrade`, `Downgrade`, `Insert`, `Update`, `mark_decided` (an UPDATE of
several columns that the record relates: `Decisions` are the ones its caller makes),
`Save` and `Rollback`. A step that needs every row to have a value (`Required`) is refused
when one has none. One row is
followed, written ordinary or with one field out of the ordinary in every way that
some constraint or record class can tell. That is enough because every
constraint but uniqueness is about one row, and each speaks about one column or pair.
These modules read like tables: that is what they model, and their agreement
is what the run is about.

**HuntCoverage, ExperimentCompilers, HuntQueue.** The first two are the pure parts: which
families apply to which nodes, what coverage is owed and in which order, and how an
item becomes a plan or a refusal. In `HuntQueue` a cycle makes hypotheses
(`RunHuntCycle`, `RunScheduledCycle`), validates them (`ValidateHuntTiers`) and queues them; an
approver reads, past `_se3_marker_valid`, and decides (`ReadPending`, `ApproveHuntV3Queue`,
`RecordApproval`), in two transactions, and there may be several; a
dispatcher is `Load`, `Intend`, `Execute`, `Assess`, `Finish`, each a transaction or the
call of the executor, and may crash between any two.

**SurfaceProjection, SurfaceDiscovery.** The first has the pure projection: facts, route
templates, frontier items and their keys. In the second a runner's cycle is
`Step`: replay what has no receipt, choose (reads), claim (lock and commit),
compile, execute and store (TX A), project (TX B), or stop at a bound. Whatever two
runners insert at the same time is read in one action and committed in another
(`ensure_started` and `Seed`, `Select` and the claim or block, `Project` and `Settle`): when the commit clashes
with the other's (`Clash`) it raises, and `Fail` ends the cycle. `Driver` says
who drives it: `run_bounded`, whose every tick carries the discovery start, or zestd's
supervisor, which drops it after one.

**WorkerProcesses.** A tree has a root (what was spawned), a Worker (the root, or its
child when the executable is a trampoline) and one process the Worker started (driver
and Chromium, or whatever a command leaves). `setup` says what the host and the
executable are like. `pc` is the place of the call that holds the adapter's
lock; a kill is followed signal by signal (`terminate_tree`, `Scan`, `Term`,
`Grace`, `Kill9`, `Reap`, `release_supervision`, `CloseStdin`, `ClosePipes`,
`kill_contained`, `_wait_until_empty`, `cleanup`), since processes fork, die and are
orphaned in between. The start is `_ensure_process`, `Start`, the Worker's `Hello`,
`confirm_containment`, `SendAck` and the Worker's `_handshake`; a call is
`SendRequest` and `_read_result_line` against the Worker's `_production_engine`,
`Answer`, `Break` and `Leave`. `invoke` and `run_argv` are the two adapters that
spawn one process per call. A timeout may fire whenever it is waited for, and a
wait without one is a guard. Signals, crashes, memory exhaustion and orphans are
actions of the kernel, modelled from how the code uses it. A request may
not fit the pipe: the write of it has no timeout and ends with the reader's reading
or death (`WriteEnds`). A process is gone at once or not at
all, so one that is dead and not yet reaped counts as alive, as it does for
`_pid_alive`.

**BrowserEngine.** `rt[c]` is the `_Runtime` of context `c`, `order` the references as
`_runtimes` holds them, and `pc` the Playwright call that waits for context `cur`. A
request is `NavigateOutside`, `NavigateAgain`, `NavigateNew`, `Observe` or `Interact`; its
calls end in `Seeded`, `Loaded`, `TimesOut`, `ActionEnds`, `Settled`, `FailureSettled` and
`TakeSnapshot`. While any call waits, the handlers of every context run: `Route` (a request is
admitted and fetched, which suspends the handler), `Fetched` (its answer, possibly in a
later action), `OnPopup`, `OnChannel`, `OnMainFrame`, `OnFrame`. Early returns of a
request are guards, and an exception that nothing catches is `Stop`, the end of the Worker.
As in the code, a main frame that drifts before its navigation is committed is
not frozen by the handler, only by `_check_main_url` afterwards, and what happens
during a snapshot is seen by the next request only if it froze the context.

Each module also has a few *faulty variants* (`RenewWhileStopping`, `LockNothing`,
...), each next to the action it is a plausible mistake in. They are used by no
specification: replacing the original by its variant makes the
property listed with it in `PROJECT.json` fail, which shows that the property is
about that code.

## 3. Runs

| Run | Specification | Checks | Result |
|---|---|---|---|
| `fencing` | RunSupervision `Spec`, two runtimes, two attempts, every command | `SecondCallNeedsStaleSave`, `SecondAttemptNeedsStaleSave`, `EpochFallsByStaleSaveOnly`, `ResumableWasNeverSent`, `TerminalIsFinal` | hold |
| `takeover` | `FairSpec`, two runtimes | `StopEndsSupervision`, `AbandonedRunIsFree` | hold |
| `ledger` | BudgetLedger `FairSpec`, two supervisors | `WithinAllowance`, `DispatchedIsCharged`, `SpentWasReserved`, `EveryReservationEnds`, no deadlock | hold |
| `resume` | ResearchCycle `FairSpec`, three rounds with their reproductions, two crashes | `OneExperimentPerHypothesis`, `ExperimentsWithinBound`, `CyclesRecorded`, `EveryExperimentIsClosed` | hold |
| `promotion` | PromotionPipeline, two reporters, two advancers, two reviewers, three calls, one crash | `ValidatedIsReproduced`, `FailureIsNotRejection`, `ProposalHasChain`, `ImplementsAuthority`, `ReservedRunSettles` | hold |
| `execution` | AuthorizedExecution, three experiments, eleven kinds of plan, four scopes, another run's session | `ContactWithinScope`, `RateWindowKept`, `CookieBoundToItsLogin`, `RequestsWithinCharge` | hold |
| `store` | DurableStore, every table, revision and repository | `SchemaFollowsItsRevision`, `EveryRowIsReadable`, `LineageWithinOneRun`, `HistoryIsKept` | hold |
| `hunt` | HuntQueue, two approvers, two dispatchers, seven registries | `OnlyApprovedRuns`, `UnitOncePerDispatcher`, `OnlyStaleApprovalUnsettles` | hold |
| `claims` | SurfaceDiscovery, two runners, three cycles, one crash | `LegalHistory`, `ObservedIsProjected` | hold |
| `daemon` | SurfaceDiscovery, one runner driven as zestd drives it, one crash | `EveryObservationIsProjected` | violated (section 5) |
| `worker` | WorkerProcesses `FairSpec`, two calls of each adapter, one failure, five hosts | `BrowserIsContained`, `OneBrowserTree`, `AnswerIsForThisRequest`, `HangsOnlyOnPipes` | hold |
| `browser` | BrowserEngine, three references, three requests, two events of the pages | `RequestsWithinLimits`, `SessionsStayApart`, `CrossedIsLeft` | hold |

**Bounds, and why they are enough.** Two runtimes: every conflict is between a
lease holder and one predecessor or one operator transaction, and a third process could
only repeat the role of the second. `MaxEpoch` 2 lets the lease change hands, and the
stale save of the one command brings the first owner back (2.0 million states). `TTL` 1: a lease is either
valid or expired. One experiment with two attempts lets a
duplicate attempt exist at all. `CycleBound` cuts off the one loop the code does not
bound (section 6). In `ledger`, two model calls compete for one unit and two
attempts for three requests with pages of two, so both the refusal and the reduced
amount occur. In `resume`, three rounds over two allowed experiments and three model
calls let every bound be hit, and two crashes let a resumed step crash again; there
is a hypothesis more than the bounds allow, and an experiment for each allowed one and
its reproduction (0.8 million states).

In `promotion`, two reports and two calls of `advance` over one assessment are what a
takeover produces, three of the four being enough for every conflict, and two
reproductions let the second find the first one's. Two reviewers: one who reads, and one
who decides before the first writes (0.7 million states). The strategy is `authz`, which has every gate; the others have fewer. In `execution`, the
login, its use and a third experiment of every capability share one cookie, three
requests and a window of two; the four scopes have a prefix, an exclusion, an expiry
within the clock and a wildcard host. `store` has no bound: the number of tables,
revisions and rules is the program's own. In `hunt`, two hypotheses of one of seven
registries cover every way through the compilers, each unit may be tried twice,
and two dispatchers may hold one item that two approvers have read. In `claims` the site
has a foreign link, an ambiguous control and a page elsewhere; three cycles let an item be
claimed, left and claimed again, and two runners let every commit be refused once (1.3
million states). In `worker`, two calls let the second meet what the first left, in
the pipe or on the host; the hosts have a trampoline, a child with a session of its own
or with the Worker's stderr, a kernel without `cgroup.kill`, a cgroup that cannot be
used and limits the Worker refuses. Three calls and two failures (0.7 million
states) keep the invariants too. In `browser`, two places for three references let a
context be evicted and a reference outlive it, two bindings are two sessions, three
requests let a handler that was suspended in the first come back in the third, and two
events are a crossing and what follows it (1.2 million states).

The `TypeOK` of a module documents its variables and can be added to any configuration; no
run lists it, since the proofs (section 4) or the other properties say more.

**Deadlock** is checked in `ledger`. Elsewhere the system may legitimately stop: a run
is terminal, blocked, waiting for a human or without a process; a claim is closed; every
experiment has ended; the queue is settled; the calls are made; discovery has stopped at a bound; in
`store`, an append-only row in a table whose `downgrade()` insists on emptiness leaves
nothing more to do to it.

**Symmetry** is used only where the properties are safety properties.

**Fairness.** `RunSupervision` and `ResearchCycle` assume weak fairness of the steps
already under way: threads are scheduled, database calls return, model and Worker
calls have timeouts; and, in `RunSupervision`, that time passes. Nothing is assumed of operators, of drains, of crashes or, in
`RunSupervision`, of process starts; `ResearchCycle` and `SurfaceDiscovery` assume that a
dead process is started again (the units of `deploy/systemd` say
`Restart=on-failure`). `PromotionPipeline` assumes only that a call of `advance` that has
begun goes on, and `ReservedRunSettles` exempts behaviours with a crash.
`BudgetLedger` assumes weak fairness of statements that cannot block and strong
fairness of those that wait for a row lock, since PostgreSQL queues the waiters
of a row. `WorkerProcesses` assumes that a call under way goes on (its waits have
timeouts, but for two: `HangsOnlyOnPipes` names them) and that what was sent SIGKILL
dies. Nothing is assumed of a Worker or of what it started, with or without a parent. The specifications of `execution`, `store`, `hunt` and `browser` have no fairness:
only safety is claimed of them.

## 4. What is proved

TLAPS checks these for every set of processes, experiments, attempts and requests
and every limit; the assumptions on the constants are that the null values are not
ids, that the limits are natural numbers, and that the inputs have the form their
record classes give them. Every theorem about a specification is about all its behaviours. Each
inductive invariant was checked by TLC on the instance of its run before it was proved.

*RunSupervisionProofs*

* `TypeCorrect`: `Spec => []TypeOK`. `TypeOK` alone is not inductive; `Typed` adds
  that a supervisor past the point where it picks an attempt has one in hand.
* `InvokedAtMostOnce`, `AttemptIsUnique`, `EpochNeverRegresses`: what the run `fencing`
  checks, operators and takeovers overlapping in any way. The inductive invariant is `Guarded`:
  `Typed`, and `Inv` for as long as no stale save has come (`reverted`). `Inv` says: no supervisor's epoch is ahead of the
  row's, and what the holder remembers of the lease is what is stored, so its
  saves leave the lease alone (`LeaseInv`); an attempt is marked before the
  fence is asked (`MarkInv`); what was sent, or is past the fence, is not AUTHORIZED,
  and nobody who could still pass the fence is about to send it (`SentInv`); a call
  past the fence is the first and only one (`CallInv`); a holder about to
  insert an attempt found none, and there is still none (`InsertInv`). They are
  needed because the look-up and the insert, and the fence and the call, are separate
  steps: it is the epoch, which a stale supervisor never gets back but by such a save,
  that ties them together. A command read before a takeover and written after it is thus
  the only way out; section 5 has what follows it.
* `AuthorizedWasNeverSent` and `TerminalStaysFinal` hold after a stale save too: the
  order of mark and call and the WHERE clause of the UPDATE are enough.

*BudgetLedgerProofs*

* `LedgerTyped`: `Spec => []TypeOK`.
* `NeverOverspent`, `ChargedTogether`: `LedgerInv` says who holds the budget row
  (`LockInv`), that what its holder listed is still the ledger (`SeenInv`), and which
  requests are in hand (`ReqInv`).
* `ReservedBeforeSpent`: `SpentInv` adds who holds an attempt's row, how an amount that
  was computed before the budget row was locked relates to what is left (`AmountInv`)
  and to the row a first dispatcher charged (`LateInv`, `RowSizeInv`). It is needed
  because a late second dispatcher of a page computes an amount of its own and is then
  taken for a replay.

*ResearchCycleProofs*

* `CycleTyped`, `NeverTestedTwice`, `BoundIsHard`, `NoCycleIsLost`: type correctness and the
  three invariants of the run `resume`, for any bounds and any number of crashes. A crash loses the
  memory of a step, so `RowInv` says what the rows guarantee by themselves: a phase that
  resumes something has its id, what the row names is in its table, and once there is an
  experiment the row names one. `MemoryInv` adds what the step under way holds. `BoundInv` is
  needed because the resuming paths plan without looking at the bound: `_resume_admitted_hypothesis`
  plans only if the row names no experiment, which by `RowInv` means that there is none at
  all, and the cycle it resumes was opened under a bound of at least one. `PairInv` and
  `StageInv` say which experiments are reproductions: of one experiment each, of its
  hypothesis, reserved by its promotion run before they are planned.
* `AdmittedIsGrounded`: of every pair of answers the model can give, an admitted one rests on an
  item of the context that is not untrusted content and on none outside it, lacks no part, claims no
  authority and kept an alternative explanation. `CandidateIsAdmitted`: of every source, what was
  selected as a candidate belongs to this run, and the second classification refuses it only when
  a HunterFamily claims it by then or the compiler does not take its arguments.

*PromotionProofs*

* `PromotionTyped`, `ValidationIsEarned`, `RejectionIsEarned`: for any number of overlapping
  reports, advances, reproductions and crashes. Several advancers may be at the same
  reproduction, each with an attempt of its own; `MineInv` says whose an attempt is
  while it may still change, and `ObservedIsSettled` that an observation rests on an
  attempt that is nobody's any more. `AssessedInv` and `VerifiedInv` carry the target's answer
  through assessment, evidence and verification.
* `ProposalKeepsItsChain` and `PromotionRefines` (`Spec => ImplementsAuthority`, step by
  step): for any number of overlapping calls and reviewers too. `ChainInv` says what a stale
  write cannot take back: a proposal was made on a validating verification, and a candidate
  with one is VALIDATED, or VERIFYING where a reporter that had read it OPEN wrote last.

*HuntQueueProofs*

* `OnlyApprovedIsRun`: `QueueInv`, `ApprovingInv` and `DispInv` say that what is queued,
  being approved or held by a dispatcher rests on verdicts that are never taken back.
* `UnitNeverRetried`: `DispInv` adds that an intent is on record before its execution, and
  that a dispatcher about to execute a unit has not executed it before.
* `SettledStays`: for any number of approvers, an item leaves RUN or BLOCKED only by one
  who had read it as PENDING and decides after it was settled. A dispatcher that comes late
  settles it again, and does not reopen it.

*AuthorizedExecutionProofs*

* `ContactsStayInScope`, `RateIsKept`, `CookieStaysBound`, `ChargedBeforeSent`: for any rules,
  plans, profiles, clocks and requests of a page. The decision, the envelope, the charge
  and the request happen in different steps, with crashes and ticks in between, so the
  invariant carries each along: the envelope in hand is the one derived from an allowed
  check at `authAt` (`EnvelopeInv`); a Worker that sends passed its own check, or
  asks before each request, and has counted what it sent (`SendInv`); the charge
  covers what the Worker plans (`ProcInv`); the row of a bound session stays as it was
  (`BoundInv`), was logged in to by this run, for that profile and origin (`LoginInv`, `ReplyInv`), and
  was not refused (`SessionInv`). A resumed attempt has no envelope and no cookie, and
  was never sent. Lemmas about `ScopeRules`
  and `HttpWorkers` say that a segment-wise match is a string prefix, that the envelope
  allows no more origins than its document, and that every planned request stays below the
  target's origin (`MatchIsPrefix`, `EnvelopeSound`, `PlannedUrls`). `InputAssumption` says
  what the records do: URLs and path prefixes have the modelled form, a login names its session.

About the operators of `CoreDecision`, which every authorization goes through, for every argument:

* `AllowPassedEveryCheck`: ALLOW means that every check passed, that the level is not
  3, and that above level 1 a human recorded an approval of that very subject
  (`ApprovalIsHuman`);
* `DenyRuleWins`: one DENY or OUT_OF_SCOPE rule outweighs any ALLOW, and nothing is
  allowed without an unambiguous ALLOW;
* `AllowedHasAUnitLeft`: the budget check passes only with a unit left in every
  dimension.

*BrowserEngineProofs*

* `EngineTyped`, `NeverBeyondItsLimits`, `SessionsNeverMix`, `CrossedNeverServes`. The handlers run
  between the checks of an action and its calls, so `EachSound` says what holds of every
  context at every moment: what was sent and what is left stay within what was
  given, its cookies are of the session it is bound to, and a crossed context is frozen.
  `SeedMatches` relates the waiting request to the lease; `Reported` says that a crossing
  during an action is still pending when the action looks next.

*WorkerProcessesProofs*

* `ProcessesTyped`, `NoBrowserOutside`, `NeverTwoTrees`, `AnswersMatch`: for any hosts and any number of
  calls, failures and restarts. The adapter and the Worker share only two
  pipes and what the kernel says is alive, so the invariants of the run say too little by
  themselves. `AckInv` follows the acknowledgement of the containment from the moment it
  is about to be written until the Worker has taken it: all that time a Worker that lives
  is in the cgroup, so what it starts is there too. `PipeInv` says what may be in each pipe at each place of
  the adapter, so that the line of a call that timed out is never left for the next: either
  the tree it belongs to was given up, or it was read. `SupInv`, `ClosedInv` and `SpawnInv`
  say that a tree is given up before it is ended, ended before the next is
  spawned, and that a call spawns one at most. TLC checked the whole of it on the
  instance of `worker` with two failures (250,224 states).

**Only model-checked:** everything under fairness (`StopEndsSupervision`,
`AbandonedRunIsFree`, `EveryReservationEnds`, `EveryExperimentIsClosed`,
`ReservedRunSettles`, `HangsOnlyOnPipes`), which the installed provers
cannot do. Of the safety properties: those of `DurableStore`, whose tables are the program's
own and finite, so that the run is exhaustive and a theorem would say nothing more; `LegalHistory` and `ObservedIsProjected`
of `SurfaceDiscovery`, where the key of an item and the history it gets come from a fold over
the observations and the facts in them: that what is folded keeps a property takes an induction
over that data, which the installed provers cannot instantiate.

## 5. Findings

Places where the code, as modelled, does not do what its documentation, comments
or tests say. The first is the run `daemon`; each of the others can be shown by `tlc -config <cfg> <module>` with
a configuration beside the runs, or with that of a run and the property added to it.

| Configuration | Property | What happens |
|---|---|---|
| `MCDiscovery_daemon.cfg` | `EveryObservationIsProjected` | `docs/OPERATIONS.md:553` says a crash after TX A and before TX B is recovered by replaying TX B. `reconcile_missing_projections` runs only in a tick that carries the discovery start, which the daemon's supervisor drops after the first tick and a recovered run never gets. |
| `MCRunSupervision_fencing.cfg` | `NoEpochRegression` | `_operator_state` (ARC) reads and writes the whole row without lock or fence, so a command that overlaps a takeover puts the old owner and epoch back, and with them the old supervisor's fence: a second attempt and a second call follow (`invoked[a] > 1` is reachable); `orchestration_lease.py:5` calls the epoch monotonically increasing. |
| `MCRunSupervision_fencing.cfg` | `StaleOwnerNeverInvokes` | The fence of LF is checked in a transaction before the Worker call, and a supervisor that stalls in between calls it as a stale owner; `lease_fencing.py:4` says it cannot. The DISPATCHING mark still keeps the call single. |
| `MCRunSupervision_takeover.cfg` with `MaxCommands = 1` | `PauseIsDurable` | A step in flight saves its remembered record, state included, over PAUSED; `TECHNICAL_DECISIONS.md:8010` calls PAUSE permanent. |
| `MCResearchCycle_resume.cfg` | `EveryCallIsReserved` | Nothing clears `active_cycle_id`, so the invocation ids of later cycles repeat the first cycle's and are charged nothing; `TECHNICAL_DECISIONS.md:8148` says every call is reserved. |
| `MCResearchCycle_resume.cfg` | `ResumesItsOwnExperiment` | After a crash between admission and plan in a later cycle, `_resume_admitted_hypothesis` takes the previous cycle's experiment; `TECHNICAL_DECISIONS.md:8137`. |
| `MCResearchCycle_resume.cfg` | `CompletedIsAssessed` | An attempt dispatched by `_resume_authorized` is closed without assessment and promotion; `TECHNICAL_DECISIONS.md:7986`. |
| `MCPromotion_inflight.cfg` | `SupportedIsValidated` | The second of two advances finds the first one's attempt in flight, counts it as done (PP:606) and closes the candidate INCONCLUSIVE although the target supports the claim; compare `tests/integration/test_mr5_durability_seal.py:187-219`. |
| `MCPromotion_chain.cfg` | `VerifiedRunStays` | A report that overlaps an advance saves the promotion run it read before, and takes a verified run back to VERIFYING. |
| `MCPromotion_chain.cfg` | `ConcludedStays` | `start_human_review.py:33-42` reads the proposal and then sets its state, whatever it is by then: a reviewer that read before the decision and writes after it takes a decided proposal back to HUMAN_REVIEW. Approval and finding stay. |
| `MCHunt_hunt.cfg` | `SettledIsFinal` | Of two approvers that read an item as PENDING, the second takes it back to APPROVED although it was executed and settled meanwhile: `set_state` (`hunt_v3_queue_approval.py:88`) names no state it expects. |
| `MCExecution_execution.cfg` | `EnvelopeWithinScope` | `browser_envelope.py:100-109` compares path prefixes as plain strings, so that a page may fetch what Core's segment-wise evaluation would deny; `authorized_network_envelope.py:16` says a Worker may only be stricter. |
| `MCStore_store.cfg` | `AdmittedFaultIsStored` | `records.py:138` bounds a fault's summary to 1000 characters and then adds a mark of 14; the CHECK of the column admits 1000. |
| `MCHunt_hunt.cfg` | `ApprovedRunsOnce` | An item without units that was executed before a crash is still APPROVED and is executed again (`dispatch_approved_v3_queue.py:217` to `294`); `docs/plans/audit/SLICE_4_COMPLETION_RECORD.md:124` says exactly once. |
| `MCWorkerProcesses_orphan.cfg` | `EveryInvocationReturns` | A command exits and leaves a process that has its output: the timeout no longer applies, `terminate_tree` does nothing once the root is gone (`process_tree.py:128`), and closing the pipe waits for that process, however long it lives; `argv_process.py:118` says "Terminates the process tree on timeout." `run_supervised(["sh", "-c", "sleep 6 & echo hi"], timeout_seconds=1.0)` returns after six seconds and does not report a timeout. The write of a request has no timeout either. |

Seen while modelling, in the models as the code has it, and stated by no property,
since the repository promises nothing else: a frontier item that was denied or whose runner
died stays SELECTED; five of the eleven `DiscoveryBounds` are never read, and one
projection may go past `max_frontier_items`; a probe of four requests is charged as one
(EPE:1291); a rate-limited experiment is BLOCKED for good; a run whose attach was refused
once, by the preflight or by the unexpired lease of a dead owner, waits for the next process
start; `mark_decided` would store ADMITTED without an opportunity, which `records.py:1902` then
refuses to read, but its one caller names one; an executor's
INPUT_REJECTED marks a hunt item RUN although no attempt was made; a resumed attempt is
dispatched on the decision of its authorization, which a rule's expiry may have overtaken;
`_posix_terminate` counts descendants that are dead and not yet reaped as survivors, after
which the browser adapter refuses every call until the process is restarted.

## 6. Not modelled, and what comes next

Left out of the modelled parts: heartbeats, health and readiness; managed cycles; the
configuration fingerprint; the reconciliation write `mark_operational_failure`; graph and context pack of discovery;
the scores of opportunity selection; the controls and network events of a browser page; Windows job
objects, and the launcher that puts `zestd` into its cgroup. An
authorized attempt that is resumed while its budget is spent is retried every
tick without end (`DispatchDenied` on the authorized path); the models cut it off
with `CycleBound`. Uniqueness of rows is left to the specifications that rely on it.

Not modelled at all: the program's daily budget (next in the plan); model
runtimes and their adapters (network calls, present as outcomes); the operator interface, dashboards and HQ (read models and
HTTP); benchmarks and qualification (offline). `PROJECT.json` gives the reason for
each.

The plan, in order:

1. `ProgramDailyBudget`: check-then-act across the runs of a program, charging
   after the call, the rollover of the day; composed with `BudgetLedger`.
2. An abstract specification of a run (who may drive it, what is final)
   with `RunSupervision` shown to implement it.
3. `LegalHistory` of `SurfaceDiscovery` as a theorem, with the projection's fold
   replaced by a description of what it adds.
4. The model circuit breaker.
