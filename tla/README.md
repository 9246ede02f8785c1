# A TLA+ verification project for NervOS

NervOS is a self-hosted runtime for AI agents. Owners submit Runs to Agent
Instances through an API (or through conversations, schedules, webhooks and
workflows); Worker processes claim the Runs' Jobs from one SQLite database,
call a model provider and tools on their behalf, and settle them. All
coordination happens in the database: there is no message broker, and no
process knows of another one except through rows.

Paths below are relative to `src/`; `core/` stands for
`packages/nervos-core/src/nervos_core/`.

## 1. Inventory

| Component | State it keeps | Operations | Interacts with |
|---|---|---|---|
| Durable job engine (`core/infrastructure/database/jobs.py`) | `jobs`, `runs`, `job_attempts`, `queue_partitions`, `run_events` rows | submit, claim, start, renew, succeed, fail or retry, reclaim, cancel | everything that creates or runs work |
| Tool invocation records (`tool_invocations.py`) | `tool_invocations` rows | request, start or deny, conclude, withdraw, refuse | written by the tool loop under the engine's claim, closed by recovery and cancellation |
| Job execution (`core/application/job_execution.py`) | one slot's local state, its heartbeat task | start, call provider under a deadline, heartbeat, settle, project | engine, tool loop, conversations |
| Tool loop and mediator (`tool_loop.py`, `tool_invocation_mediator.py`) | the turn in progress | one call at a time: permission, approval, dispatch, record | tool records, approvals, MCP, packages |
| Worker service and registry (`apps/worker`) | slots, `worker_registrations` rows | poll, sweep, heartbeat, drain | engine, job execution |
| Submission (`jobs.py` `submit`, `_reconcile_submission`) | the caller's knowledge of its request | submit, reconcile a lost response | engine |
| Conversations (`conversations.py`) | conversations, Turns, messages, context snapshots, compactions | send, retry a Turn, project a Run's end, archive, compact | engine, job execution |
| Context builder and memory | memory records and proposals | select context, propose, accept | conversations, `succeed` |
| Triggers and scheduler (`triggers.py`, `scheduler.py`) | trigger definitions, occurrences, the scan cursor | create, edit, enable, tick, materialize | engine (submission in the same transaction) |
| Webhooks and internal events | occurrences by idempotency key or event id | authenticate, deduplicate, materialize | triggers |
| Workflows (`workflows.py`) | executions, steps, checkpoints, signals, decisions | create, pause, cancel, signal, decide, commit a step, continuation tick | engine, job execution |
| Approvals and permissions | approval rows, grants | request, decide, expire, consume at dispatch | tool mediator |
| Packages | installations, versions, environments | install, activate, disable, remove, run in a host process | worker, marketplace |
| MCP connections (`packages/nervos-mcp`) | connection rows, live clients | connect lazily, call, close | tool loop |
| Secrets, accounts, OAuth | encrypted secrets, tokens | store, refresh, revoke | MCP, packages, models |
| Marketplace and publisher trust | submissions, publications | submit, verify, publish | packages |
| Authentication and sessions (local and at the marketplace) | users, sessions; sign-ins, identities, codes, credentials | set up, log in, log out; start, callback, consent, exchange | API, marketplace |
| Model adapters, SDK, LangGraph adapter, CLI, web | none of their own | | API |

What is hard in this code:

* **Interleaving.** Several Workers, each with several slots, the API and the
  scheduler write the same rows. Every write is one `BEGIN IMMEDIATE`
  transaction made of compare-and-set statements, and the correctness of the
  whole rests on which columns each statement repeats in its `WHERE`.
* **Stale time.** A caller reads its clock before the transaction gets the write
  lock, and a transaction retried on contention keeps that reading.
* **Lost responses.** A COMMIT can take effect without its answer arriving. Each
  caller has a reading-back routine of its own.
* **Crashes.** A Worker can die between any two calls; leases and the reclaimer
  decide what becomes of its work, and may never run a provider call or a tool
  call twice when it might have had an effect.
* **Races with the owner.** A cancellation revokes the claim without waiting for
  the Worker, which learns of it from a refused renewal.
* **Limits and fairness.** Admission and concurrency ceilings, and the
  least-recently-served order of partitions.

* **State read before an await.** A permission, a plan, a definition, a release or
  a configuration is read in one transaction and acted on in another, with a
  thread, a network call or the owner in between.
* **Clean-up.** A lease, a session, a host process, a temporary file or a directory
  must be given back on every path, cancellation included.

What makes each component correct, in the words of its properties: the engine
keeps one authority per Job, settles once, never replays an execution that may
have acted, and makes progress; the Worker's code calls the provider once per
Attempt behind a durable start and always frees its slot; a submission reported
as accepted is durable; a schedule fires each instant once; a workflow is one
chain of steps, each behind its own approval; a Turn keeps its one answer, and
what a Run is shown of the past has no gap; an approval authorises one dispatch of
the action the owner saw; a delivery has one occurrence however often it is
repeated; a refresh token is spent once; a version is installed whole, pinned by
what uses it and never given other bytes; a Worker that stops exits, and its row
says so truthfully. Each of these is modelled and checked.

## 2. Modules

| Module | What it is |
|---|---|
| `RunLifecycle` | The abstract promise about a Run: no queue, Worker, lease or clock. |
| `JobEngine` | The engine: one action per transaction. |
| `JobEngineProofs` | Type correctness, the inductive invariant, the safety and action properties, the timeline and the refinement of `RunLifecycle`, proved. |
| `ClaimFairness` | `JobEngine` with a history of bypasses. |
| `JobExecution` | The Worker's code composed with `JobEngine`, and the Turn of the Run. |
| `Submission` | The callers of `submit` composed with `JobEngine`. |
| `EngineClientsProofs` | `JobExecution`, `Submission` and `ClaimFairness` proved: they refine `JobEngine` and keep their own invariants. |
| `Scheduling` | The arithmetic of schedules, and the reference it is checked against. |
| `Triggers` | Schedule triggers: owners' requests, Scheduler processes, occurrences. |
| `Workflows` | Autonomous workflows: steps, checkpoints, waits, decisions, the continuation tick. |
| `SchedulerProofs` | The arithmetic of `Scheduling`, the inductive invariants of `Triggers` and of `Workflows`, their safety, and the finality of a workflow. |
| `Conversations` | Turns, their Runs, projection, what a Run is shown, compaction. |
| `Memory` | Memory items, proposals and the maintenance pass, on top of `Conversations`. |
| `ConversationsProofs` | The inductive invariants of a conversation, alone and with the maintenance pass of `Memory`, of what a Run is shown, and of the memory books. |
| `ToolAccess` | MCP connections and catalogues, grants, approvals, the start of a tool call. |
| `Gateway` | The Worker's cached MCP sessions and their shared creation. |
| `ToolLoop` | The turns of one Attempt, its budgets and its transcript. |
| `Packages` | Installation, removal, binding and configuration of packages. |
| `PackageHost` | One Attempt of a package Run: adapter, host process and frames. |
| `DeliveryInbox` | The abstract promise to whoever delivers to a trigger: no secrets, bindings, queue or transactions. |
| `Deliveries` | Webhook calls and internal events. |
| `DeliveriesProofs` | The inductive invariant of `Deliveries`, its safety theorems and the refinement of `DeliveryInbox`. |
| `Accounts` | Secrets, key versions, account connections, refresh and consent. |
| `Marketplace` | The hosted side: ownership, keys, uploads, verification, releases. |
| `Acquisition` | The local side: installing one release through a ticket. |
| `SignIn` | Local setup and sessions; the marketplace's browser sign-in and credentials. |
| `WorkerService` | One Worker process: slots, registry row, drain. |
| `Platform` | These parts together, and what several of them promise. |
| `PackagesProofs` | The inductive invariants of `Packages`, `PackageHost`, `Acquisition` and `Marketplace`, their safety and what stays pinned and published. |
| `ToolProofs` | The inductive invariants of `ToolAccess`, `Gateway` and `ToolLoop`, their safety and action properties. |
| `PlatformProofs` | The inductive invariants of `WorkerService`, `Accounts` and `SignIn`, and the theorems about several parts. |
| `MC...` | Values of the constants for TLC, and the views described in section 3. |

### JobEngine and the code

`job`, `run`, `attempt`, `calls`, `served` and `timeline` are tables; a Job and
its Run are one-to-one and share a key. A claim is named by the number of its
Attempt: the claim token is 32 fresh random bytes, so equality of tokens is
equality of Attempts. NULL is 0 and instants start at 1.

One transaction is one action, because SQLite runs writers one at a time and a
compare-and-set that matches no row raises `_Fenced`, which rolls everything
back: a fenced operation is an action that is not enabled. `now` is chosen from
`Instants`, the readings at most `MaxLag` old.

Nothing is assumed of the holder of a claim in `JobEngine`: any claim ever
issued can be presented at any time, in any order, any number of times. This
covers crashed, paused and partitioned Workers and lost responses, and makes
the theorems independent of the Worker's code. `JobExecution` then replaces the
free holder by what `JobExecutionService` does.

Data that no decision reads (texts, usage, elapsed times, messages of errors) is
left out. Failure codes are reduced to one for each disposition of
`DISPOSITION_BY_CODE`; the doubling retry delay is kept, capped as in
`retry_policy.py`.

### JobExecution and the code

A slot's `stage` is the place where `execute` stands: before the start, reading
a start back, loading, waiting for the provider, settling, inspecting an
uncertain settlement, projecting. `beat` is the heartbeat task and `lost` the
event it sets. `invoked` is a history of provider calls. Every call to the
database is its own step, with three ends: answered, failed before its effect,
or answered never after its effect. The provider is free: it may return any
outcome at any time between two tool calls, or never. `Crash` stands for a
process death, a drained slot and an error that leaves `execute`. The delay of a retry
counts from `anchor`, the clock as it was read once before the settlement.

### Submission and the code

A caller's transaction either answers, or fails at its COMMIT after the INSERT
had handed it a key. SQLite restores its key sequence on rollback, so the key of
a rolled-back submission is the key of the next one.

### Scheduling, Triggers and the code

`Scheduling` translates `core/domain/scheduling.py` and the cron adapter in
`core/infrastructure/scheduling.py`. Instants are integers; the zone has one
change of offset, and a cron expression matches the wall readings of one residue
class. `WallOf` and `InstantOf` are `datetime` with `zoneinfo`, its `fold`
included; `GapEnd` is the bisection of `_gap_end`. `IsCoalesced` is an
independent definition: a firing is the first moment at which the local clock
has reached a match.

In `Triggers` a management call is two steps, because the service reads the row
and the clock before the transaction; so are a Scheduler's page, its evaluation
of a candidate and the transaction that applies it. `row` is
`trigger_definitions`, `occurrence` is `trigger_occurrences` with the
configuration it was decided for, `request` is a call in flight, and `sch` holds
each Scheduler's clock reading, page, cursor and command. The queue is a count
of occupying Jobs for each Agent: `JobEngine` says when a Job leaves it. The
provider's admission limit has the same shape as the Agent's and is left out. A
package version can be removed only when no Agent is bound to it;
`DefinitionMayBeGone` stands for it, and the exception it causes ends the
process.

### Workflows and the code

`wf`, `steps`, `checkpoints` and the signal and decision rows are tables of
`workflows.py`; one transaction is one action. A step's Run is reduced to queued,
running or ended: `CommitStep` is the commit inside the Run's success
transaction, `LoseStepRun` stands for everything else that ends a Run.
`WorkflowTick` is the whole tick of the Scheduler: `ScanLimit` rows in the order of
`updated_at`, which is the position in `scanOrder`, each one reviewed,
dispatched, deferred or ended. `EditAgent` is an owner who changes the Agent
under a running workflow, which its pinned identity must notice.

### Conversations, Memory and the code

The Worker settles a Run in one transaction and projects it on its Turn in a
later one; `owed` holds the projections not yet made, which a crash loses
(`LoseProjection`) and a repeat makes twice. A Worker whose settlement was refused,
because the Run had been cancelled or its lease was lost, projects its result all the
same (`SettleLate`; `job_execution.py:560-570` asks only whether the transaction
returned). A cancelled or recovered Run can thus answer its Turn: the finding `answer`
shows it in the code's own states, and `OneAnswer` therefore says of the
authoritative Run that it succeeded or spoke too late (`Spoke`), where one might expect that it
succeeded. `Reconcile` is
`reconcile_unprojected_terminal_runs`. A context is a snapshot stored with its
Run: the memories selected, the compaction and the Turns after it. A compaction is one
text that is cut at its blank lines each time it is read, so a Turn whose texts have
blank lines is several *blocks* (`Block(i, k)`, what each costs and whether its first
line reads as a heading in the constant `Blocks`). A refresh drops blocks of the old
text one at a time and Turns of the new batch one at a time (`Cuts`); it takes the
number of the new front for the start whenever the front looks like a heading
(`StartAfter`), and the row's checks refuse a range that is none and a text too long
(`RefreshCompaction` then changes nothing). A
context keeps the newest blocks that fit, the tail of a Turn if need be. `Memory` adds
what a Run proposes, the policy frozen at its submission, and the maintenance
pass as its three parts with other transactions between them. The ranking of
memories is an arbitrary choice of candidates within the limits.

### ToolAccess, Gateway, ToolLoop and the code

`ToolAccess` has one Agent Instance, one Run and one connection. A refresh is
three steps (mark, discover over the network, record), an Attempt's call is one
step per transaction of the mediator: gather, assemble, record, check, admit,
poll, start, conclude. The coroutine of an Attempt that lost its authority goes on
until a transaction refuses it. `reviewed` is a history of what the owner saw when
granting. `Gateway` is `gateway.py` in stretches between awaits: the future
every joiner of a creation awaits, the session's owner task, invalidation and
teardown. `ToolLoop` is `tool_loop.py`: the model is free to answer anything,
contradictory shapes and repeated call ids included; `spent` compares the usage
the provider reported with the usage stored.

### Packages, PackageHost and the code

In `Packages` each registry transaction, and each directory published or
deleted, is one action; what a thread read before its transaction is in that
thread's record. Removal has its three phases (plan, finalize, delete
directories). A configuration is reduced to the versions that accept it and the
value of one field a schema may declare immutable. In `PackageHost` the
host is the package's code and nothing is assumed of it: it writes frames at any
time, before it is asked and after its result, reads what it is sent or not, floods
stderr, hangs, or exits with any code. A pipe is counted in frames (`PipeRoom`
bounds it), and what a frame says is decided when the adapter reads it, which gives
every order of every frame. The adapter may be cancelled at every await, those of
`_cancel`, of the finally clause and of the refusal included (`CancelCleanup`);
`adapter.left` remembers the two ways something may stay behind.

### Deliveries, Accounts and the code

A webhook call in `Deliveries` is authenticated and parsed against one read of
the definition and materialized in a later transaction; the network may lose the
request or the reply, after which the sender repeats it. A publication visits the
triggers it discovered one transaction at a time. `DeliveryInbox` says what either
may count on: each trigger answers a client once, at one moment at which it takes the
delivery, recognises it, refuses a contradiction, or does nothing; under a key it takes
only one. `callBar` maps a sender to a client of its one hook, a publication to a
client of the triggers it discovered, and the answers of both to those four. The
steps between asking and the transaction map to nothing. In `Accounts` a dispatch is
`AccountActionBroker` from its claim of the refresh to its clean-up; a secret is
its status, key version and rotation count, and the two timestamps are reduced to
the questions asked of them (expired, refresh younger than its lease).

### Marketplace, Acquisition and the code

One project in `Marketplace`: memberships, keys with proof and authorisation,
transfers, moderation, uploads, verification under a lease and an attempt
number, reservation of the version, publication and distribution. An archive is
its digest; `VersionOf`, `SignerOf` and `Defective` are what the verifier reads
out of it. `Acquisition` is `MarketplaceInstallService` with one ticket per request
of the owner; the release's row and the local version's row change under it as
`Marketplace` and `Packages` allow.

### SignIn and the code

A local request is `AuthenticationService.setup` or `login`, cut where the code
leaves the database to hash: the lookup, the password work (at most
`_MAX_CONCURRENT_PASSWORD_WORK` at once, refused beyond that), the transaction. At
the marketplace a sign-in is a row of `auth_transactions`; its callback consumes it,
redeems the provider's code with no transaction open, and completes it in a second
one, where the identity is known (its account row is locked) or new (nothing to
lock; the unique key decides). A token is known only to whoever received it, so
rows stand for their holders.

### WorkerService and the code

`process` is where `run_worker` stands, `slot` a slot's task, `workerRow` the row of
this incarnation. A call handed to a thread goes on when its task is cancelled: a
claim or a heartbeat in flight still commits. The wall clock may move either way.
What a slot executes is `JobExecution`'s concern.

## 3. Runs

`pass` means that TLC explored every reachable state within the bounds.

| Run | Properties | What it shows |
|---|---|---|
| `engine` | `TypeOK`, `ClaimAgreement`, `SettlementAgreement`, `StartTruthful`, `ReplayOnlyWhenSafe`, `TimelineTruthful`, `HistoryIsFrozen`, `ImplementsLifecycle` | One Job through its claims, with tool calls, stale clocks, retries, expiries and cancellation at every point. |
| `progress` | `AcceptedIsDurable`, `WorkProgresses` | An accepted submission is durable and none is inserted twice; recovery and claiming make progress. |
| `limits` | `ActiveWithinLimits`, `NoSecondBypass` | Ceilings over the leases that never ran out, with transactions older than their commit, and bounded bypass, with Workers of different capabilities and budgets. |
| `execution` | `ExecSound`, `SlotIsFreed`, `CancellationEndsWait` | The provider is called once per Attempt behind a durable start, and again only after it declined; a slot comes free whatever the provider and the database do, and the heartbeat alone ends the wait of a cancelled Run's Worker. |
| `triggers` | `TypeOK`, `OneTimeFiresOnce`, `RevisionNamesConfiguration`, `AppliedToCurrentRow`, `CoalescesToLatest` | Two Schedulers, an owner and an Agent that is disabled, rebound and full, over schedules of every kind and a spring forward. |
| `scheduler` | `WorkflowSound`, `WorkflowFinal`, `WorkflowProgress`, `DueIsHonoured` | The scan reaches every due trigger whose Agent has room; workflows under their owner, their steps' Runs and the tick. |
| `services` | `ConversationSound`, `ContextFaithful`, `MemorySound`, `AnswerStays`, `ProposalsSettle` | Conversations and memory around the Runs. |
| `platform` | `AccessSound`, `CallPathSound`, `InstalledSound`, `DeliverySound`, `CredentialsSound`, `MarketplaceSound`, `WorkerSound`, `NoCapabilityAcquired`, `DecidedStays`, `ImplementsInbox`, `WaitsEnd` | The parts around the engine. |
| `stranded`, `wedged`, `answer`, `dst` | one each | See *Findings*. |

Several properties are conjunctions of named parts, each with its own comment
in its module:

| Property | Parts |
|---|---|
| `HistoryIsFrozen` | `SettledIsFrozen`, `ClosedAttemptIsFrozen`, `StartedAtIsWriteOnce` |
| `WorkProgresses` | `ExpiredClaimsDrain`, `DueWorkIsClaimed` |
| `ExecSound` | `ExecTypeOK`, `ProviderAfterBoundary`, `ReinvokedOnlyAfterDecline` |
| `WorkflowSound` | types, `StepChain` (one chain of steps and checkpoints), `LiveRunCommits` (a Run that can succeed can commit), `DecisionGates` (one approval, one step), `BudgetHeld`, `OneWakeup` |
| `WorkflowProgress` | `LostRunReviewed`, `ReadyServed` |
| `ConversationSound` | types, `OnlyNewestActive`, `OneAnswer` |
| `ContextFaithful` | `ContextUnbroken`, `ContextWithinBudget`, `CompactionExact` |
| `MemorySound` | types, `ScopeWithinCapacity`, `NothingRelearnt`, `SuggestedFromAnswer`, `NoLostEdit` |
| `AccessSound` | types, `ApprovedOnce`, `OfferedOnlyWhenProven`, `HistoryKept` |
| `CallPathSound` | types, `OneUsableSession`; `LimitsHeld`, `TranscriptPaired`, `UsageBeforeAction` |
| `InstalledSound` | types, `ActiveIsComplete`, `RunsCanExecute`, `ConfigFits`; `OneHandOff`, `TicketsBounded`, `InstalledIsReal`; `HostSound` (`HostReaped`: no process runs behind an Attempt whose launch did not raise, and what else is left has one of two causes; `HostBounded`) |
| `DeliverySound` | types, `DeliveredOnce`, `ToldTheTruth`, `PublicationAccounted` |
| `CredentialsSound` | `AccountSound` (types, `LinkBacked`, `SingleFlight`, `NoOrphanCredential`, `ConsentOnce`) and `SignInSound` (`AdministratorOnce`, `SignInOnce`) |
| `MarketplaceSound` | types, `OwnershipSound`, `ReleaseBacked`, `OneVerifier` |
| `WorkerSound` | types, `LateWorkBounded`, `StoppedIsTrue` |
| `DecidedStays` | `DecisionFinal`, `PackagePinned`, `DeliveryFenced`, `DisconnectFinal`, `ReleaseFixed`, `DisabledStaysOut`, `BeatMonotone` |
| `WaitsEnd` | no call waits for its approval, no caller for its session, no loop for its model, no adapter for its host (but for one that writes `cancel` to a full pipe), no stopping Worker for its slots |

**Views.** `scheduler`, `services` and `platform` each check several modules that
share no row in these models, or one module through different groups of its
operations. A product of them would only multiply states, so the variable `view`
is chosen in the initial state, never changes, and lets one group of actions
run; the rest stays in its initial state. `scheduler` has three views (`triggers`,
`one`, `several`), `services` six (`talk`, `dispute`, `history`, `learning`,
`review`, `editing`), `platform` twenty-two: `connection`, `approval`, `builtin` of
`ToolAccess`; `gateway`; `loop`; `installing`, `binding`, `draining` of `Packages`;
`host`; `hooks`, `events` of `Deliveries`; `refresh`, `consent` of `Accounts`;
`ownership`, `listing`, `receiving`, `verification` of `Marketplace`; `worker`;
`racing`, `ageing` of `Acquisition`; `local`, `hosted` of `SignIn`. Some views start in the middle, for instance
with a granted tool or an uploaded archive, in a state the operations of another
view lead to. The comment at the head of each MC module says what its views keep
and what they hold still.

**Bounds.** `engine` has two claims of two instants each and one tool call per
Attempt: a retry after a decline, a requeue after an expiry, an expiry of the
last claim before and after its start, and a call at each of these moments all
fit into `MaxTime = 6`, with clocks that lag by up to half a lease. One Job is
enough because the properties relate rows of one Job only (the proofs cover any
number of Jobs and claims). `progress` has two Jobs
of one partition, so that one can stand before the other in each of the two
orders. `limits` has three partitions on three providers and ceilings of 2, 1
and 1, so that each ceiling is the binding one in some state. In
`execution` (in one view two Attempts, in the other a tool call) `MaxTries = 2`
stands for the five attempts of the code: the first
retry and the exhaustion are both reached. The callers of `progress` are two, with
two keys: the smallest case with a reused key. `triggers` has one trigger, since nothing but the page
relates two, two Schedulers, two definitions of its Agent and a gap of two
instants inside the three the clock has; the second revision is enough for a
decision to be stale by its revision. `scheduler` has pages of one trigger and two
triggers on different Agents, the smallest case in which a blocked page hides another
trigger, and every schedule due from the start: what is left is only the scan. Its
workflows have budgets of two and three steps, so that the step limit and the
reservation are each the binding one, two signal keys, a decision that can expire
and a deadline inside the clock; with two workflows, a scan of one row and a queue
of one Run, a deferred workflow stands before a ready one. `services` has up to five
Turns over a budget of five, so that a context is full, a compaction is folded twice
and overflows; messages with one block and with two, one whose block no compaction can
hold and one that looks like a heading, so that a Turn is cut, a refresh refused and a
start misread; in the view with late results (`Dispute`) at most two Turns, three Runs
and two projections owed at once; two clients with stale reads; one active item per scope.
`platform` has two of everything that races (Attempts, installers, editors,
senders, publishers of an event, brokers, callbacks, receivers, verifiers,
tickets, sign-ins, identities), of which one crashes or loses its lease, three
callers of the gateway (one that creates, one that joins, one that comes after the
teardown) and three local requests against two places for password work; limits of one or two, so that each is reached and
exceeded by one; four model calls and two tool calls, so that the loop ends by every
one of its limits; an inadmissible schema
among the three a server may offer and a defective archive among the three uploaded.
`dst` has a repeated span of four readings, twice the cron period. `MaxTime` is the last instant of the
clock; at it the actors go on, only no further lease expires.

Deadlock is not checked: when the bounded clock stands still and every Job is
settled, the system has nothing left to do.

`ExpiredClaimsDrain` excludes states with a `Wedged` claim, and
`DueWorkIsClaimed` speaks of Jobs in a claimable pair; the cases left out are
the findings `wedged` and `stranded`. `ActiveWithinLimits` counts the leases that
never ran out. A renewal that read its clock while its lease was live, and waited for
the lock until after it had expired, extends it all the same (`revived`), and a claim
made in between may have used the capacity: in the code the Jobs in flight can exceed a
ceiling by the revived ones, and the run `limits` (`MaxLag = 1`) reaches such states.
Its view leaves out what no later step reads.

**Fairness.** `FairSpec`: every Worker polls (`Worker._slot`) and sweeps
(`_reclaim_periodically`) as long as it lives, and time passes; nothing of the
holders of claims. `SlotIsFreed` assumes `ExecFairness`:
the event loop runs ready coroutines, the threads of database calls return (with
an answer or an error; `busy_timeout` bounds the wait), and the deadline is a
timer; nothing of the provider, the heartbeat or other Workers.
`CancellationEndsWait` assumes `HeartbeatFairness` instead: the heartbeat task
runs and the watcher's coroutine is scheduled; not the deadline. These use weak
fairness only. `DueIsHonoured` assumes that a Scheduler that stopped is started
again and keeps polling (`run_scheduler`), that crashes and rebindings cease in
the end, and, as strong fairness, that contention does not meet the same trigger
in every tick for ever: each tick is a new attempt after the poll interval. It
says nothing of a trigger whose Agent is full, and nothing of more triggers
falling due than the ticks can take.

`WorkflowProgress` assumes that the continuation tick runs again and again and
that a step's Run is settled in the end, which `JobEngine` and `JobExecution` show
(recovery settles it when its Worker dies); nothing of the owner. `ProposalsSettle`
assumes that the maintenance pass (`_maintain_memory`) is run again and again
and, as strong fairness, that its last part is not abandoned by a database error
every time. `WaitsEnd` assumes, all as weak fairness, that time passes while a call
waits for its approval and the mediator polls; that the event loop runs the gateway's
tasks and a call to a server ends (at the latest with the Run's deadline); that every
await of the tool loop returns, for the same reason; that
the adapter's own timeouts and, in the end, the Run's deadline fire; and that the
two bounded waits of the drain end. It assumes nothing of the owner, the package's
code or the slots.

## 4. Theorems

The engine is proved with TLAPS for all sets of Jobs, Workers, Agents and providers and all
values of the budgets, leases, delays and bounds that satisfy `IdAssumption` and
`BoundAssumption` (keys are positive numbers, Jobs are finitely many, limits and
leases are at least 1).

* `TypeCorrect`: `Spec => []TypeOK`.
* `EngineInvariant`: `Spec => []EngineInv`.
* `ClaimAgreementHolds`, `ReplayOnlyWhenSafeHolds`, `SettlementAgreementHolds`,
  `StartTruthfulHolds`: the safety invariants of `engine`.
* `SettledIsFrozenHolds`, `ClosedAttemptIsFrozenHolds`,
  `StartedAtIsWriteOnceHolds`, and `HistoryIsFrozenHolds`, their conjunction: the
  action properties.
* `ImplementsLifecycleHolds`: `Spec => Lifecycle!Spec`.
* `TimelineTruthfulHolds`: `Spec => []TimelineTruthful`.

**The argument.** `EngineInv` is `TypeOK` and, for each Job, `JobInv`:

* `HeldByLatest`: a held Job and its latest Attempt agree on status, token and
  lease, and no other Attempt is open. This makes the token of a compare-and-set
  name the latest Attempt.
* `SettlesTogether`: Job and Run agree when absent or settled, and Attempts are
  numbered by the claim count.
* `StartIsKnown`: `started_at`, the started Attempts and the error code agree.
* `BoundaryKnown`: a running Attempt has started, a claimed one has not. Needed
  because reclamation decides by status what it concludes about the start.
* `SupersededSafely`: the strengthening of `ReplayOnlyWhenSafe`. An Attempt is
  superseded when a later one exists *or its Job waits to be claimed*; without
  the second case a claim would not preserve the property.
* `UnclaimedBeforeSubmission`: an absent Job has no claims.

Most operations end a claim in one of two ways, so their proofs go through two
lemmas: an operation *gives up* its claim (closes the holder, releases the
Job), and it then either settles the Run or leaves the Job waiting. One lemma
per operation shows which, and `GivesUpInv` and `GivesUpStep` do the rest. The
action properties use `Touches`: a step writes to at most one Job, that Job is
unsettled, and of its Attempts only an open or a new one. The refinement maps a
Run to `accepted`, `executing`, `declined` or its outcome, and its executions to
the Attempts that started.

**The timeline.** `EngineStory` adds to `EngineInv` that the events of a Run count its
rows (`Counts`: claims, started Attempts, tool calls requested, dispatched and left
ambiguous), and that a settled Run has one closing event, its last, which names its
status, and any other Run none (`Closing`). A step appends events and changes rows in one transaction;
`Recounts` says that both changed by the same number, and each action is shown to
recount. Counts of events go through one lemma on appending, and counts of rows
through cardinalities of the sets of rows in a state.

For `Triggers` (`SchedulerProofs`), for any number of triggers, Schedulers, requests, Agents and
schedules and any zone:

* `TriggerInvariant`: `Spec => []TInv`.
* `OneTimeOnce`: `Spec => []OneTimeFiresOnce`.
* `RevisionIdentifies`: `Spec => []RevisionNamesConfiguration`.
* `AppliedToCurrentRowHolds`: `Spec => AppliedToCurrentRow`.
* `AlignmentHolds`: `Spec => []NextFireAligned`.
* `TriggerTypes`: `Spec => []TypeOK`.
* `CoalescesAtTickHolds`: `Spec => CoalescesAtTick`.

Neither `OneTimeFiresOnce` nor `RevisionNamesConfiguration` is inductive. A second occurrence of a one-time trigger
is impossible because a trigger with an occurrence is disabled
(`CompletedIsDisabled`) and every way to enable or edit it looks for the
occurrence. That the tick disables it needs the command to carry no next fire
time (`CommandsRemember`), which needs the page to know the trigger's kind
(`PagesRemember`), which holds because no edit changes a kind, which in turn
needs the requests in flight to know it too (`RequestsRemember`). For revisions,
`HistoryAgrees` relates every occurrence to the row: no later revision, and the
row's configuration when the revision is the row's. The lemmas follow the kinds
of step: one for a change of a Scheduler's memory, one for a change of a request,
one for a change of a row (which create, update, enable, disable and delete are
instances of), and one for the transaction that records an occurrence.

`AppliedToCurrentRow` compares a decision with the row of another moment. `DecisionsAgree`
bridges the two: what a Scheduler read is still the row's schedule if the row still has
the revision it read, and what it decided is still what the row would be decided now
(`MemoryAgrees`). It is kept because no transaction changes a schedule and keeps the
revision (`RowsMoveOn`), which is what the comparison of revisions in the transaction
relies on. `NextFireAligned` is the alignment that `TypeOK` states of every row; a
request between its reads and its transaction carries it too (`RequestsAligned`).
Nothing in these arguments depends on the arithmetic of instants; the next ones do.

**The arithmetic of schedules** (`SchedulerProofs`, before `TypesInv`). `CronNeighbours`:
the matches next to a wall reading are the nearest of their residue class on each side.
`BisectionFinds`: `GapEnd` returns the transition. It is written, as in `_gap_end`, as a
bisection, here a recursive function on intervals. That the function has its value on
every interval follows from a closed form that satisfies its equation
(`BisectionExists`); that it finds the transition follows by a least counterexample on
the width of the interval. So `ResolveLocal` is `Resolved`, a definition without search,
which is monotone (`ResolvedMonotone`): later wall readings mean no earlier instants,
gap and repeated hour included. `CronCoalesces` and `IntervalDecision` are what the
theorems need of a decision: `IsCoalesced`, for any offsets, period and missed span.

`TypesInv` then carries the types through the processes: a page, a command and a request
hold fire times that are instants. `CoalescesAtTick` says that what a tick records is
coalesced, for any number of Schedulers and requests, where a one-time trigger completes
at the fire time of its row. `CoalescesToLatest`, which the run `triggers` checks with one
management request in flight, says more of a one-time trigger: that this is the instant
its schedule names. With requests that overlap it is not true of the code: `set_enabled`
writes the fire time it computed from an earlier read of the schedule and compares no
revision (`core/application/triggers.py:684`), so a row can be left enabled for the
instant of a schedule since replaced. There is therefore no theorem of it; what a tick
does with such a row is within `CoalescesAtTick`.

`TriggersAssumption` says what the domain's validation says of schedules (a minute of a
period, a positive interval), and that the clock starts far enough from the first
instant for the match before it to be an instant, whatever the offsets, as the clock of a
host is.

**The ceilings** (`EngineClientsProofs`). `ActiveWithinLimitsHolds` needs no invariant
over counts and no bound on the lag. A step other than a claim leaves active only Jobs
that were active (`ActiveKept`); one whose lease had run out and is live again is, by
that, revived (`KeptIsTimely`). A claim counts the leases that are live at its reading of
the clock, and a reading is never later than the commit, so it counts every lease that is
live now (`ClaimKeepsCeilings`).

**The clients of the engine** (`EngineClientsProofs`). `JobEngine` lets any claim be
presented at any time, so what remains is that the real holders only do that, and
what they remember is true:

* `ExecRefinesEngine`: `ExecSpec => Spec`, and `SubmitRefinesEngine`:
  `SubmitSpec => Spec`. Every theorem about `Spec` above therefore holds of the
  Worker's execution service and of the control plane.
* `ExecSoundHolds`: `ExecSpec => []ExecSound`. Inductive is `ExecInv`, which adds to
  `EngineInv` one line per slot, `SlotFits`: before the start is known the provider
  was not called; it is called at most once per Attempt and only on a started one;
  an outcome waiting to be settled exists, with an anchor that was a reading of the
  clock; and a failed Attempt failed with the outcome its slot holds, since nobody
  else fails an Attempt that a slot still owns. Other actors change the row under the
  slot, so the lemma the proof turns on is `FitsKept`: a slot goes on fitting the row
  as the engine may leave it (`RowKept`).
* `AcceptedIsDurableHolds`: `SubmitSpec => []AcceptedIsDurable`. `CallerInv` ties
  each inserted Job to its caller, which knows the key and is no longer idle; a key
  that a rollback gave back belongs to nobody until the next insert.
* `NoSecondBypassHolds`: `FSpec => []NoSecondBypass`. A partition that was passed
  over while it could be served has an older marker than the one that passed it, and
  the newest marker goes to whoever is served (`PassedIsRemembered`).

**Workflows** (`SchedulerProofs`). `WInv` says of each workflow separately that its
row fits its steps, checkpoints, decisions and signals (`Fits`): `Chained` (the row
counts its steps; all but the last are settled; the status says whether the last is
out), `WithinBudget` (what was drawn is what the steps cost), `Checkpointed`,
`Asked` (one decision per revision, consumed exactly when the step behind it
exists) and `Woken`. `WorkflowSound` is not inductive: that no step passes an
undecided question needs `Asked` to connect the decision with the status of the row,
and that a late commit finds its own revision needs `Chained`. `FewActive` is the
ceiling on running workflows. One lemma says that a step which moves one row into a
fitting one keeps `WInv`; each action is an instance. `WorkflowFinalHolds` follows
from `Chained`: the steps, decisions and signals of a finished workflow are refused
by the status they read in their transaction.

**Deliveries** (`DeliveriesProofs`). `DInv` is `DeliveryShapes`, `InFlight` (a call
under way names its trigger, its payload and, for events, its key), `OutcomesTrue` (each outcome a publication noted stays true) and the two
properties themselves. It gives `DeliverySoundHolds` and the action property
`DeliveryFencedHolds`. That `Deliveries` implements `DeliveryInbox`
(`ImplementsInboxHolds`) rests on `InboxInv`, which adds to `DInv` that a client at rest
remembers nothing (`ForgetsAtRest`: its next call is the promise's `Ask`) and that a trigger
which answered a publication is not tried again (`TriedOnce`: a second answer would be
a step the promise does not have). `DeliveryDecided` is what one transaction decides and writes;
`AnswerStep` shows that it is one of the promise's four answers, and each branch of
`MaterializeWebhook` and `MaterializeEvent` is shown to satisfy it. The constants have
one assumption more: trigger ids and the queue limit are numbers and there is at least
one secret, which is what the schema says.

**Conversations** (`ConversationsProofs`). `TalkInv` adds to `ConversationSound`
that a projection a Worker still holds is of a Run of some Turn, and says succeeded
only of a Run that did, or whose Worker had the answer when the Run could no longer
record it (`OwedTrue`). Without it a late projection could answer a Turn
with a failed Run. `Told` states the rest of Turns, replies and Runs without naming a
variable, and the proof has one lemma for each kind of change: Runs are added or
ended (`Keeps`), a Turn is added, reopened, or given a verdict. The same lemmas prove
the invariant for `MemorySpec` (`MemoryInvariant`), where the maintenance pass
projects from a list it read earlier and queues extraction Runs; that list needs
`PassTrue`. Proved for both specifications: `ConversationSound`, `AnswerStays` and
`ContextFaithful`.

*What a Run is shown.* `FaithfulInv` is two statements. `Summary`: a compaction is the
ascending list of the blocks, from some block on, of the answered Turns up to its end,
and begins in the Turn it says unless a message looks like a heading. `Contexts`: the
history of a stored context is the ascending list of the answered Turns from some Turn
on to the newest before its own; the blocks followed by those of the history are the
ascending list, from some block on, of all the blocks before its own Turn; and its cost
is within the budget (`Shown`). That a Turn is answered never changes, so both survive
every step but the two that write them. For these, `Lists` relates a sequence of numbers
to the set it lists: such a list is unique (`ListsAgree`), lists of adjacent ranges join
(`StretchJoined`), and a newest part lists an upper range (`StretchCut`). Blocks are
numbered so that those of a later Turn come later (`BlockOrder`), which a refresh needs
to put the batch behind the old text (`UpToFacts`), and whose trimming then leaves at
least one block (`TrimmedFacts`) with the start following the front (`StartFollows`).
`SumOf` is a recursive function; that a newest part that fits is found, and what it
costs, is by least counterexample (`FittingFacts`), the library's induction being out
of reach.

*Memory.* `LearntInv` adds to `MemoryInv` that each Run has a row with a policy
there was (`Captures`), what editors have read (`Noted`), and `Kept`: each suggestion comes
from a Run that succeeded and whose answer its Turn kept, each version of an item was
written over the one before it, an automatic item repeats no fact of an earlier one, and
no scope holds more active items than its capacity. A maintenance pass processes a list of proposals in one transaction; `Books` are
the tables after each of them, and `Kept` holds of every one. That the list is
finite needs `IsFiniteSet(Facts)`, which is new in `MemoryConstants`: the content of a
memory is at most 32000 bytes (`core/domain/memory.py`).

**The parts around the engine** (`ToolProofs`, `PlatformProofs`). Six components of the run
`platform`, each for all values of its own constants:

* `WorkerService`. `WorkerInv` says per slot what its row in the process allows
  (`SlotFits`), that the slots are counted right, and that no slot is busy once the
  registry says stopped. From it `WorkerSoundHolds`, and `BeatMonotoneHolds` for the
  registry's clock.
* `ToolAccess`. `AccessInv` adds to `AccessSound` the types; that a remote definition is
  on offer only while its connection exists (`ConnectionInv`); that the recorded history
  of permission revisions does not change (`HistoryKept`); that the grant below a Run's
  cutoff is the one the Run found when it was created (`GrantsInv`); that a call knows
  its own invocation row, which is dispatched exactly while the call executes
  (`CallsInv`); and that what was dispatched under review equals what was spent of
  approvals (`ApprovedOnce`). Most steps only add rows or close them without
  dispatching or spending; `CallsStay` and `ApprovalsStay` say so of the two tables, and
  the lemma `Unspent` draws the conclusion once for all of them. Only `MarkStarted` is
  different: it adds one to each side of `ApprovedOnce`. From it `AccessSoundHolds`,
  `NoCapabilityAcquiredHolds` (a Run never gains a tool it was not created with) and
  `DecisionFinalHolds`.
* `Accounts`. `AccountInv` says per row what it rests on: a usable connection has an
  active secret (`LinkFits`), and a broker between its claim and its finish holds the
  revision and the secret of its connection, unless that was disconnected meanwhile
  (`BrokerFits`, `OneHolds`). What makes the steps of others harmless is that a secret
  a broker created, or a consent's verifier, belongs to nobody else (`CreatedApart`,
  `VerifiersApart`), and that secrets only move on (`SecretStep`). The proof found that
  the first form of `NoOrphanCredential` was too strong: the credential a callback
  connected may be superseded by a refresh before the callback's record is gone, so the
  property speaks of a secret that was ever connected. From it `AccountSoundHolds` and
  `DisconnectFinalHolds`.
* `SignIn`. `LocalInv` counts: the sessions issued to a request are one if it was answered
  with one and none otherwise, and the requests at password work are within the
  semaphore. `HostedInv` follows a sign-in from its callback to its credential: while it
  is redeemed it is consumed and nobody's, so one callback completes it; a session, a
  code and a credential each name a row whose account is theirs, and that account and
  its consent are given once (`GoesOn`). From it `SignInSoundHolds` and
  `DisabledStaysOutHolds`; the two parts together give `CredentialsSoundHolds`.
* `Gateway`. `GatewayInv` says that what is pending for a connection is the session being
  opened for it (`PendingFits`), that a connection has at most one session opening or
  live (`OneEach`), that the cache names only live ones (`CacheFits`), and what a caller
  remembers of the session it uses. A session that failed to open, or left the cache
  because it was invalidated or old, is neither, so the next caller may open another while
  the owner of that one closes it.
* `ToolLoop`. `LoopSound` is not inductive in the middle of a batch: `LoopInv` says that
  the calls still queued fit the budget that is left, and that the transcript has a
  result for every call but the queued ones, each after its call (`TranscriptFits`).
  With the former it gives `CallPathSoundHolds`.

**Packages, from their publication to a host** (`PackagesProofs`):

* `Packages`. `PackageInv` is about rows and files (`RegistryInv`) and about who uses a
  version (`UseInv`). An installer between reservation and activation is alone with its
  version (`OneInstaller`), and what it published is on disk unless the version was
  removed meanwhile (`StepFits`); a remover deletes only what belongs to removed versions
  (`RemovalFits`); and an editor whose revision is the binding's has read the binding in
  force (`EditFits`), so a compare-and-set on the revision is enough to refuse a stale
  edit. From it `PackageSoundHolds` and `PackagePinnedHolds`.
* `PackageHost`. `HostInv` relates how far the adapter has come to the process
  (`ProcFits`: it is dead before the two last waits of the clean-up, and a success is a
  clean exit) and to the requests it has seen (`HostSessionFits`: at most one is
  unanswered, and none while the adapter listens). It says nothing of the host. From it
  `HostSoundHolds`: behind a finished Attempt a process runs only when `establish` or
  `verify` raised something else than `ContainmentUnavailable`; a handle or a directory is
  left only then or by a cancellation in the wait for the killed process.
* `Acquisition`. `AcquisitionInv` says that a ticket is in the hands of one request from
  approval to settlement and that one installation is built at a time (`OneOfEach`),
  and that an installed ticket has its version behind it, unless another ticket's
  installation took the version down (`Backed`). It gives `AcquisitionSoundHolds`.
* `Marketplace`. `MarketInv` has two halves with disjoint variables. `OwnerInv` is about
  publishers: whoever holds an active grant of a publisher key holds it at the present
  revision, so a transfer leaves no second owner. `PublicationInv` is about uploads: an
  upload being verified has a lease that names one verifier, a verifier still at work
  either holds that lease or has lost it for good (`WorkOf`), it holds a place of the
  gate (`Admitted`), and the file on the shelf is there as long as a row points to it
  (`UploadBacked`). `MarketplaceSound` alone is not inductive: that a verifier which
  finishes late is refused rests on the lease it remembers. From it
  `MarketplaceSoundHolds` and `ReleaseFixedHolds`.

**Several parts** (end of `PlatformProofs`): `CredentialsSoundHolds`,
`CallPathSoundHolds` and `InstalledSoundHolds` (packages, tickets and hosts) join the
parts a property is about.
`DecidedStaysHolds` has the specifications of seven parts as hypotheses and proves all
of `DecidedStays`. No part writes another's variables, so the joint theorems need no
further invariant.

New assumptions, each a fact of the schema or of the settings: ids of Attempts and bounds
are numbers, positive where the code needs at least one (`GatewayAssumption`,
`LoopAssumption`, `PackageAssumption`, `HostAssumption`, `AcquisitionAssumption`); and
the value that stands for "nobody" or "no version" is not a publisher, a verifier, a
Worker, a request, a sign-in, an identity, a version or a content.

**Only model-checked:**

* All liveness and what it rests on (`DueWorkIsClaimed`, `SlotIsFreed`, `DueIsHonoured`
  and the others of section 3 that assume fairness): outside TLAPS' reach.

* The one-time half of `CoalescesToLatest`, as said above; every other invariant and action
  property of a passing run has a theorem.

## 5. Findings

Each is a run that TLC ends with a counterexample; `PROJECT.json` quotes the
line of the repository it contradicts.

* **`stranded`.** A retry's claim that expires before its start is requeued as
  `queued`, but its Run is `running`, and no claim takes that pair. The Run stays
  until its owner cancels it.
* **`wedged`.** The last claim of a retried Run, expired before its start, is
  selected by every sweep and fenced by the branch for exhausted claims, which
  expects a Run that never started. Every later expired claim waits behind it.
* **`answer`.** `_finalize_success` projects an answer also when `succeed`
  reported that the claim was revoked: a cancelled Run's Turn can show an answer.
* **`dst`.** In the second pass of a repeated hour the next cron match can
  resolve to its first pass, which is not after `now`; `calculate_cron` takes
  this for an invalid schedule, and a tick disables a healthy trigger.

**Met while reading**, and not stated as properties. Paths as in section 1; the
models contain the behaviour unless it says otherwise.

* *Engine and execution.* The deadline during a tool call closes the Attempt as
  failed and leaves the call `started` for good. `_reconcile_submission` accepts only
  the timeline of an unclaimed Run, so a committed submission whose response was
  lost is reported unavailable once a Worker has claimed it; it reads by the key
  alone, and a rolled-back submission's key is given to the next caller.
  `inspect_claim` answers TERMINAL for an expired Attempt, upon which the heartbeat
  ends without telling the slot, which then waits for its deadline; its call in the
  heartbeat is not guarded against database errors.
* *Worker.* A slot that dies without setting stop leaves the others claiming
  through the drain (`LateWorkBounded` counts from the stop event); a slot whose
  coroutine suppresses cancellation is abandoned.
* *Conversations and memory.* A failure that schedules a retry is projected as a
  failed Turn. A message with a blank line is cut apart by the compaction, and what is
  left of its Turn may be its tail. A block that starts like `Turn 9:` is taken for a
  heading: the compaction then names a wrong start, or a start after its end, which the
  row's check refuses, as it does a single Turn too long for the row. A refused refresh
  is silent, and until a later one passes no context is shown the compaction.
  `reconcile_unprojected_terminal_runs` has no caller in the apps, so
  a conversational Run settled by cancellation or recovery leaves its Turn running,
  unless a late Worker projects it.
  A Run that succeeds between the maintenance pass's read and its materialization is
  marked `source_ineligible` for good; a pending extraction of another authority can
  hold the head of the page. `docs/runtime-integration/README.md:46` and the
  docstring of `eligible_conversation_source` say that deleted conversations are
  ineligible for extraction; only the materialization of proposals asks, and the
  extraction Run is queued all the same.
* *Triggers, deliveries.* Contention on the last candidate of a page counts it as
  examined, so the cursor steps over it until the scan wraps; `set_enabled` writes a
  fire time computed from a schedule that may have been edited since. A skipped
  occurrence is the answer for its key for ever; a repeat without a key runs
  twice; a trigger deleted between discovery and its transaction ends the publication
  with an exception, after part of it is durable.
* *Workflows.* A paused workflow's deadline is not looked at until it is resumed
  (`docs/autonomous-workflows/workflow-contract.md` lists it for any nonterminal
  state). The step of a cancelled workflow whose Run then fails stays `running`. A
  second wait for the same signal key never wakes. The EXPIRED written for a late
  decision is rolled back by the exception that reports it.
* *Tools.* A refresh in flight across disable and enable records its catalogue as
  connected. The approval of a crashed Worker's call stays pending until somebody
  lists, decides or asks again. Cancelling one caller of a shared MCP session creation
  cancels the future of all who joined it; a caller cancelled while it invalidates a
  session cancels the owner it waits for; invalidation closes also a session created
  since.
* *Packages.* A crash leaves an INSTALLING row that no caller in the apps recovers;
  an INSTALLED row is answered as success and never activated; a removed version
  cannot be installed again; `mark_pending_removal` does not look for bindings made
  since the plan (the later phase does). In the host adapter an exception other than
  `ContainmentUnavailable` during establishment leaves the process, its handle and its
  directory: the `try` with the finally clause begins after it. A cancellation in the
  finally clause's `await process.wait()`, or in that of the refusal, skips the release
  and the directory (`HostReaped` allows exactly these). `_cancel` writes its frame
  without a timeout: a host that does not read a full stdin is then neither signalled nor
  killed until a second cancellation (`SessionOver` excludes exactly this; the slot itself
  comes free, `SlotFreed`).
* *Marketplace.* A project transferred away and back cannot authorise the same
  key again; a release that is ready when its project is transferred can no longer be
  published and keeps its version; a crash after the reservation leaves the
  quarantined object. Locally, preparing an aged ticket that was already handed
  over marks it failed and unlinks its file; the final update to `installed` names
  no state.
* *Accounts.* A failed or crashed refresh leaves the connection in `needs_refresh`
  until the owner connects again; re-encryption counts as a rotation and refuses a
  refresh in flight; a crash between finish and revocation leaves the old token active.
* *SignIn.* A logout fails while the clock stands before the session's creation (a
  CHECK of the row); of two first sign-ins of one identity the second rolls back,
  its sign-in being consumed; a code may be issued for an account that was disabled
  after the request authenticated, and is refused at the exchange.

## 6. Not modelled

Of the engine: `close_legacy_nonterminal_runs`, a start-up migration. Of the tool
loop and the mediator: argument schemas and the bounding of results; a call is valid
or not by free choice. Of memory: the ranking of candidates, and `bind_tool`, whose
rows no modelled decision reads. Of packages: archive, wheel and manifest parsing,
`bind_instance` and the two reconcilers, which have no caller in the apps. Of MCP: the
connectors and the wire format. Of the marketplace: listing texts, search, and the verifier's own checks of an archive. Of triggers: display names and
the validation of expressions, zones and texts. Encryption, password hashing, HTTP
handling, model adapters, the SDK, the LangGraph adapter, the CLI and the
web client are outside: they are pure validation or translation, or have no durable
state of their own.

The modules around the engine do not share its variables: `ToolAccess`,
`Conversations`, `Workflows`, `Packages` and `Deliveries` see a Run through the few
states they read of it, which are those of `RunLifecycle`. What is shown of each holds
for every order of the Run's steps that `RunLifecycle` allows, but the joint
transactions (a success that commits a workflow step and stores proposals) are
checked on each side separately.

## 7. Plan

1. Another abstract specification: one dispatch per approved action, refined by
   `ToolAccess`.
2. Composition: `ToolAccess` over the invocation rows of `JobEngine`, and
   `Conversations` with the projection of `JobExecution`.
