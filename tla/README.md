# A verification project for the spec-driven agent framework

`sdaqf` is an offline command-line framework: it turns requirements into plans,
lets agents on several hosts work through them, and keeps evidence of what was
done. What it shares between processes lives in files: a SQLite store that
hosts take turns to advance (M6), the workflow epochs inside it and the
artifacts published beside them (M8), and a few documents kept under lock
files. This directory holds TLA+ modules of those parts, the TLC runs that check
them on small instances, and proofs of their central promises for instances of
every size.

Paths below are relative to the repository; `scheduler.py` alone is
`src/sdaqf/adapters/scheduler.py`, and `store` is its class
`SQLiteSchedulerStore`.

1. The system
2. Modules
3. What the runs check
4. Where documentation and code differ
5. What is proved
6. What is only model-checked
7. What is not modelled

## 1. The system

| Component | State it keeps | Operations | What would make it wrong |
|---|---|---|---|
| **M6 scheduler store** (`adapters/scheduler.py`, `domain/scheduler.py`) | SQLite tables: tasks, current leases, lease history, worktree leases, budget totals, messages in both directions, consumed approvals, capability observations, event log | `tick`, `request_cancel`; read-only: `status`, `export`, `inspect_mailbox`, `wait_for_projection` | two attempts of a task believed current, an effect repeated, a slot or budget leaked, a task revived after its outcome is settled, a store stuck for good |
| **M6 replay validator** (`_validate_connection` and below) | none; reads the whole event log before each commit | accept or refuse the transaction | refusing what the live policy does, or accepting what it would not |
| **M6 contracts** (`application/scheduler_contracts.py`) | none | parse graphs and messages, derive identities | two authorities with one identity |
| **M6 hosts and outbox** (`FileSystemSchedulerArtifactStore`, mailbox) | files | publish exclusively, deliver the outbox | a message seen twice, half, or never |
| **M6 recovery and migration** (`application/scheduler_recovery.py`, `scheduler_migrations.py`) | a new store built from evidence | rebuild, migrate v1 to v2 | an interrupted rebuild taken for a store |
| **M8 workflow epochs** (`open_workflow_epoch` ... in `store`) | epoch, publications, terminal rows in the same SQLite file | open, reserve, confirm, finish; fences the scheduler | an artifact published but unknown, a terminal publication that blocks for ever |
| **M8 workflow runtime, outcomes, recovery** (`application/workflow_runtime.py`) | published artifacts | advance a run, resume it after a crash | a step done twice or lost |
| **M8 planning, contracts, simulation, explanation** | none | pure construction and checking | wrong gate order |
| **M7 solver** (`adapters/solver.py`, `application/solver*.py`) | one run | start, limit, time out, verify | an unverified result taken for a proof |
| **M5 context** (`application/context_*.py`) | none | select and compact under a budget | over budget, or dropping what is mandatory |
| **M2 orchestration, checkpoints, approvals** | documents on disk | goal transitions, approval registry | an illegal goal transition |
| **M2 tooling, skills, evidence**; **M1 requirements, planning**; **M3 quality gates, release QA, UI** | documents | pure validation and aggregation | verdicts that do not add up |
| **M4 migrations, evaluation, baselines** | staged files | migrate with rollback, compare | a half-applied migration |
| **Workspace, CLI, schema validation** | none | input and output | - |

Interactions. Hosts call `tick` with whatever messages they found in their
mailbox; outgoing messages are rows written in the same transaction and
delivered afterwards. Approvals come from an owner as messages. The workflow
runtime drives `tick` and puts its own epochs into the same file; an artifact is
reserved in an epoch, linked into the checkout, and confirmed in the epoch. There are no
threads: all concurrency is between *processes* on one file, and SQLite's
`BEGIN IMMEDIATE` makes a call the unit of interleaving, or, of an M8 service,
each of its calls to the store and each write to the checkout.

What is hard here:

- A call may die anywhere before commit, and the next one must find a store as
  good as before. A call is also refused *as a whole* when replaying its own
  events does not reproduce it, so a disagreement between the live policy and
  the replayed one stops the scheduler rather than corrupting it.
- Authority moves with time. A lease is first a *proposal* (so that an owner has
  something to approve), becomes *activated* by the first request sent under
  it, is renewed by heartbeats, and ends by a result, a refusal, a cancellation
  acknowledgement, a bad worktree, or expiry. Each of these is its own code and
  must release the lease, the worktree, the slot and the reservations alike.
- Replies race: a result against a cancellation request, an acknowledgement
  against expiry, an approval against the worktree it is waiting for.
- Messages repeat, come late, come through the wrong host, or never come.
- Replayed readiness must guess which host's capabilities the live code used.
- A workflow artifact lives in two places that no transaction spans. A service
  that dies between its reservation, its file and its confirmation leaves a state
  that only certain other calls may finish.
- A workflow State is never read back on trust: every call derives the whole
  chain again, so a rule that derives differently the second time locks a
  workflow out of its own history.

## 2. Modules

### The scheduler

`SchedulerStore` -> `SchedulerReplay` -> `Scheduler` -> `SchedulerSafety`, which
TLC reads through `MCScheduler` and `MCProgress` and TLAPS through `SchedulerProofs` ->
`AttemptProofs` -> `BudgetProofs`; `RecoveryProofs` extends `SchedulerProofs` and
`SchedulerRecovery`.
`SchedulerCases` holds the small graphs, budgets and vocabularies of the runs.

**`SchedulerStore`** is the store as a record of tables, with the operators that
read it and compute the next one. Each is a helper of the code or a fragment
several of its paths share: `Outstanding` (`_outstanding_reservation_for_lease`),
`BudgetAllows` (`_budget_allows_dispatch`), `SafeRetry` (the retry condition and
`_reserve_retry`), `Grants`/`Consumed` (`_consume_approvals`), `Closed` (what all
ends of an attempt release), `Resumed` (`_activate_dispatch_after_worktree`).
The task graph, the budgets and what hosts may say are CONSTANTS; the ASSUMEs
state what parsing a graph guarantees.

| Field of the store | Table or column |
|---|---|
| `task[t]` | `tasks`: state, dispatch phase, outcome, attempt, fence, blocker codes |
| `lease[t]`, `history` | `current_leases`, `lease_history` |
| `tree[t]` | `current_worktree_leases`: none, requested, observed |
| `reserved`, `used` | `budget_totals` |
| `mail`, `rejected` | `messages` (both directions); `message-rejected` events |
| `consumed` | `consumed_approvals` |
| `caps`, `registered`, `spoke` | capability observations; what replay reads from the event log to choose a host |

**`SchedulerReplay`** is the part of the replay validator whose verdict depends
on the interleaving: the table of transitions (`_EVENT_TRANSITIONS`), exact
readiness (`_validate_exact_readiness`, `_readiness_authority_host`), the lease
of a duplicate, and rejection against adoption.

**`Scheduler`** is the machine. Its variables are the committed store `disk`, the
working copy `db`, the open transaction `tx`, the reason `fault` for which it
must not commit, and the clock `now`. A call opens with `Begin...`, runs its
passes one visited lease, message or task at a time, and closes with `Commit`,
`Abort` (a raise, or replay's refusal) or `Crash`. `tick` is expire -> ingest ->
refresh -> retry -> dispatch -> commit; `request_cancel` is two transactions,
the first of which only expires leases.

| Action | Code |
|---|---|
| `ProposalExpires`, `LeaseExpires` | `_expire_leases` |
| `Redelivered`, `Reject` | the duplicate and rejection branches of `_ingest_message` |
| `CapabilityObserved`, `ApprovalReceived` | their branches of `_ingest_message` |
| `DispatchAccepted`, `DispatchRejected` | `_apply_dispatch_ack` |
| `Heartbeat`, `WorktreeObserved`, `CancelAcknowledged` | `_apply_heartbeat`, `_apply_worktree_observation`, `_apply_cancel_ack` |
| `ResultRaises`, `ResultSucceeded`, `ResultUnsuccessful` | `_apply_result`, `_settle_result_budget`, verification |
| `RefreshTask` | `_refresh_ready` |
| `RetryWorktree` | `_retry_budget_blocked_worktrees` |
| `BudgetBlocks`, `ApprovalBlocks`, `WorktreeBlocks`, `RequestWorktree`, `Dispatch` | `_dispatch_ready` |
| `CancelRefused`, `CancelRepeated`, `CancelRequested` | `request_cancel` |

The environment is as free as the code leaves it: `Deliverable` holds every
message a host or owner could have written by now (it cites a lease that was
once issued, and a host answers only what was sent), every adopted and every
rejected message again, in any order, through any host.

What is abstracted: blockers keep their codes and lose their references; solver
calls and steps are charged exactly like tool calls and folded into them; a
lease identity is the tuple its digest covers; verification happens in the step
of the result it verifies, as it does in the code's transaction; a committed
message counts as readable by its host (the outbox file comes later, and until
then the host is merely silent); of the replay
validator, `SchedulerReplay` keeps the checks a legal schedule can fail, since
the others restate the live computation (`SchedulerAudit` has them). A
`request_cancel` whose timestamp was overtaken by another call between its two
transactions is refused by the event log and is no step here. A cancellation
requested of a read-only task whose lease then expires unacknowledged is
forgotten: the task is retried. That is what `_expire_leases` does, and the
model does it too.

**`SchedulerSafety`** states the properties, of a store rather than of a step:
`Everywhere(P)` asks for P of both the committed store and the working copy, so
that neither a crash nor a commit can expose a store that breaks it.

**`AttemptLedger`** is the abstract specification of all this: tasks that wait, are
offered an attempt, run, complete, close or are left in doubt, a copy that a call
works on and a saved one, and no message, lease, budget or clock. `SchedulerSafety`
maps the tables to it (`StandingOf`, `EntriesOf`): `db` is the copy, `disk` the saved
one, and `AttemptsKept` says that the scheduler implements it.

**`SchedulerEvidence`** runs the same machine and writes the rows each action
appends: events, messages, leases, budget entries. **`SchedulerAudit`** is
`_validate_connection` over those rows, one check per row and per ledger, and
**`SchedulerRecovery`** puts `recover_scheduler_database` (lock, validate,
rebuild, publish, die) beside the live scheduler, together with `status` and
`historical_status`. **`MCScheduling`** holds six instances; a behaviour draws one
of them at the start and stays with it.

### The workflow epochs and their publication

**`WorkflowLedger`** is the abstract specification: a Plan has one current State
and gets at most one Outcome, and between that decision and its settlement
nothing else in the store moves. **`WorkflowEpochs`** is the store's
part (`open_workflow_epoch`, `reserve_workflow_transition`,
`reserve_workflow_terminal`, `confirm_workflow_artifact`,
`confirm_workflow_terminal`, each with its exact-retry branch, and
the scheduler mutations a pending terminal blocks), with callers that may hold
any stale head. Its log is the only truth: `heads` is the projection the code
keeps beside it, and a transaction ends with the comparison of the two.
**`WorkflowEpochSafety`** states its properties and the mapping to the ledger.

**`WorkflowPublication`** puts the processes around it: `publish_plan`, run and
resume, Outcome, supersession and recovery, each a list of steps (classify and
observe, tick, revalidate, reserve, link, unlink, confirm, observe again, close,
offer) with a crash or a refusal at any of them, over a checkout that outlives
the process. **`WorkflowPublicationSafety`** states what must hold between the two.

**`WorkflowRuntime`** asks the other question: not when a file appears but what it
says. From a prefix of the scheduler's history, the evidence of completed tasks
and the files as git sees them it derives a State, and from two States an Event,
as `workflow_runtime.py` and `workflow_outcome.py` do; every call rederives the
whole chain.

### The components that keep documents

| Module | Code | Its machine |
|---|---|---|
| `Migrations` | `migrations.py`, `scheduler_migrations.py` | two migrations sharing one approval consumption file and its lock file: read, claim, copy, link, die |
| `Context` | `context_*.py`, `adapters/context.py` | index, select, snapshot, compact, report; sources may vanish between any two |
| `SolverProblem`, `Solver` | `adapters/solver.py`, `solver*.py` | run, verify and adopt under a lease that is renewed or expires meanwhile, with an adapter that errs |
| `Orchestration` | `application/orchestration.py` | roles to waves, worktree scopes, disagreements |
| `ToolExecution` | `tooling.py`, `checkpoints.py` | processes that spend approvals, retry a probe and keep checkpoints |
| `Assurance` | `quality_gates.py`, `release_qa.py`, `ui_validation.py`, `evidence.py`, `handoffs.py` | claims, evidence and gates of a candidate that changes between the two looks git is given |

`ComponentSafety` states what the first and the last have in common: a file that several
processes rewrite under a lock file loses nothing. `ComponentCases` has their small
inputs; **`MCComponents`** extends them all and runs them as `MCScheduling` runs the
scheduler's instances: a behaviour draws one component and stays with it. Nothing is
renamed on the way, so that its properties are those the proofs speak of.

Some definitions take the form the provers can read. `Context` puts nodes in order
by counting those before each (`Numbered`, `Ranked`), not by the sort of the community
modules, whose definition they do not unfold; the order is that of the code's `sorted`.

Definitions named `M_...` beside a definition are a plausible bug in it. They are
used by nothing: each is what a property of a run must notice if it takes the
place of its original.

## 3. What the runs check

Six runs pass. Deadlock is not checked in them: clocks, logs and calls end at
their bounds, and a scheduler or a service without work really does stop.

| Run | Instance | Properties |
|---|---|---|
| `attempts` | A read-only, with an owner's stop and a worktree; B has effects and depends on A; two attempts, two retries, context for three attempts, one tool call at a time, wall time 1; ttl 2, horizon 2; approvals, refusals, results with and without evidence, failures, cancellations | `Fenced` `AttemptsCounted` `RetriesPaid` `EffectsOnce` `DependenciesDone` `OneEnding` `ConcurrencyExact` `ApprovalsBound` `ReservationsExact` `WithinLimits` `CompletedProved` `AttemptsKept` |
| `scheduling` | six instances, one per behaviour, see below | `PromisesKept` `CommitsReplay` `EveryRowCounts` `RecoveredIsLive` |
| `progress` | three tasks, two slots; the first is read-only, has two attempts and shares its worktree with the last; one host; ttl 1, horizon 2; failures, results that overspend, or no answer; `FairSpec` | `TypeOK` `Authority` `WorktreeExclusive` `ExpiryIsNoticed` `NoStarvation` |
| `epoch_store` | two Plans, log of 10 and of 2 events; callers with any head, two names, two slots | `Replayed` `LinearHistory` `Isolated` `BoundOnce` `LedgerKept` |
| `publication` | one Plan, 13 events, two processes (one publishes, runs and ends, one recovers and supersedes), two crashes | `ConfirmedIsPublished` `ReservedBeforePublished` `TerminalCloses` |
| `components` | the documents' components, one per behaviour | `RecordsReproduce` `OutcomesTrue` `ContextsWhole` `ReviewedLast` `ExecutionsApproved` `VerdictsExact` `ReadyIsProved` `ClaimedBeforePublished` `WritesKept` `CopiesWhole` |

**The scheduler's promises.** No two attempts share a fence and the running one
is the last (`Fenced`); the attempt number counts activations and never passes
`max_attempts`, though proposals take a number and give it back
(`AttemptsCounted`); each repeated attempt was paid for with a retry
(`RetriesPaid`); a task with effects is activated at most once (`EffectsOnce`);
what an activated task depends on is done and stays done (`DependenciesDone`);
one reply at most ends a lease, and a result never follows a cancellation
request (`OneEnding`); every dispatch consumed one approval per stop, given for
that lease and in force at that moment (`ApprovalsBound`); the `concurrency`
counter is the number of running tasks, and what is reserved is the sum of what
current leases have outstanding (`ConcurrencyExact`, `ReservationsExact`), within
the limits (`WithinLimits`); completion rests on evidence and on completed review
targets (`CompletedProved`); and every step is one of the abstract ledger's
(`AttemptsKept`), in which what is final or unknown stays so.

**`scheduling`** repeats some of them in the graphs that try them hardest
(`PromisesKept`): approvals that lapse while a worktree is awaited; limits that
block a dispatch before and after the worktree, with three attempts and one
retry; a review whose target is not done; two hosts, two messages to a tick, and
a rejected message delivered again, which must never be adopted. Two more
instances write their whole evidence: the validator derives every row again
(`CommitsReplay`), notices the loss of any single row (`EveryRowCounts`), and a
recovery that may die anywhere publishes once, whole, what the scheduler had
written (`RecoveredIsLive`).

**`epoch_store`**: the heads are the replay of the log (`Replayed`); a Plan's
reservations form a chain without repetition that its Outcome ends
(`LinearHistory`); between a terminal's reservation and its confirmation no other
Plan writes and the scheduler stands still (`Isolated`); within an epoch a path
and an identity stand for each other (`BoundOnce`); and every step is one of the
ledger's (`LedgerKept`).

**`publication`**: what is confirmed is in place (`ConfirmedIsPublished`), what is in
place was reserved (`ReservedBeforePublished`), and a pending terminal is closed
at last if its exact request is retried (`TerminalCloses`).

**`components`**: every State and Event on record is derived again
(`RecordsReproduce`); a completed Outcome rests on native truth, and an ambiguous
effect stays on record (`OutcomesTrue`); a context holds both sides of a
contradiction, or names the missing one, and all that is required
(`ContextsWhole`); a reviewer runs after what it reviews, and an integrator between
the owners of the worktrees and the reviewers (`ReviewedLast`); no approval pays twice
(`ExecutionsApproved`); a solver task succeeds only with a result its problem
bears out, and no honest search is lost (`VerdictsExact`); `LOCAL_READY` means
gates passed for one commit and its files (`ReadyIsProved`); no migration output
without its claim (`ClaimedBeforePublished`); a migrated database holds what its source
holds, and a registry edited meanwhile is never reported migrated (`CopiesWhole`); writers under a lock file keep each other's entries
(`WritesKept`).

**Why the bounds are enough.** A lease can be taken, expire, be retried and expire
again (ttl 1, horizon 2), with messages of the first attempt arriving during the
second. In `progress` that is time for both attempts of the first task and, when they are
lost, for the last one, which waited for a slot at first and for the worktree then: with
three tasks on two slots it is the smallest case with both waits. There an attempt
fails, or is lost, or reports a result that makes every call that hears it raise until the
lease expires; heartbeats and a second host are in `scheduling`. ttl 2 leaves room for a heartbeat between request and expiry. Two tasks
suffice for every other conflict the code knows (worktree, dependency, review,
budget are all relations of two tasks), two hosts for every question of
authority. One message to a tick is enough where order within a tick does not
matter, since ticks at one time compose; the instance with two hosts takes two,
where it does. `MaxRejected` bounds audit rows that only `RejectedStaysOut` reads.
The log of ten events of `epoch_store` holds a whole workflow (plan, a transition with
its confirmations, a terminal, its confirmation), the two of the other Plan are
what it takes to disturb it; 13 events of one Plan in `publication` hold a
transition, a recovery and a terminal. Two crashes are one in each of two calls,
or one in the call that repairs the other. `components` gives each machine its
two or three smallest conflicting inputs. What section 5 proves does not depend
on any of these bounds.

**Fairness.** Of the scheduler (`FairSpec`): work in an open transaction is weakly
fair and crashes end eventually: a process that was not killed finishes its
loop. (A crash of a call that changed nothing looks like its commit, hence
`Crash => Work`.) The clock is strongly fair, since transactions keep
interrupting it. *Some* host keeps calling `tick`; nothing is assumed of the
others, nor of any message. The last conjunct, that again and again a call gets
no messages before its dispatch, is the only assumption about the mailbox. It is
needed because of the `duplicates` finding below: a mailbox that repeats one
stale message to every call makes every call fail. `progress` has no approval
stops for a similar reason: a proposal caught by the `proposal_expiry` finding is
never withdrawn. Of the publication: a started call returns (`Returns`; some step
of it, or its refusal, is always enabled, so this is weak fairness of its steps),
and an operator again and again repeats the exact request that a pending
terminal admits (`SF(Retry(c))`): nothing in the code calls it by itself.

## 4. Where documentation and code differ

Six runs end in a counterexample to a sentence of the documentation or to an
assertion of the tests.

- `proposal_expiry`: "An unactivated proposal may expire and rotate"
  (`docs/multi-agent-control-framework.md:192`). `_expire_leases` also withdraws a
  proposal whose task is READY, which a refresh makes it whenever the slots are
  taken; `_EVENT_TRANSITIONS` admits that cause from BLOCKED or RUNNING only.
  Each later tick fails alike.
- `duplicates`: "Duplicate message identity is idempotent" (line 199). The event
  recording a duplicate names its lease, and replay requires the lease to be
  unexpired at that time.
- `foreign_host`: readiness uses "the invoking host when no Lease exists" (line
  211). Replay does not know the invoking host and takes the last host that
  spoke, or the only one registered.
- `historical`: `tests/test_m6_scheduler_store.py:87` asserts that
  `historical_status` of the head is `status`. The one takes message identities from
  the events, the other from the messages table, where a rejected message is
  not; after a rejection they differ and every later workflow epoch is refused.
- `renewal`: "Periodic heartbeats refresh a new portable Lease projection without
  changing the stable authority ID" (`docs/architecture.md:363`), yet
  `verify_loaded_solver_result` compares the whole projection, so a heartbeat
  between run and verification turns a true result into a rejected one.
- `report`: "`workflow report` is a transient, read-only view over confirmed
  terminal receipts" (`docs/integrated-vibe-coding-framework.md:267`), and an
  Outcome may be `superseded`; `status` and `report` never accept a superseded State.

In the first three the store stays correct: the call aborts, and the loss is one
of progress.

Smaller observations, seen while modelling and kept in the model as the code has
them, without a run of their own:

- A terminally blocked dependency *and* a missing capability: the live code records
  two blockers, replay expects one (`scheduler.py:3672` against 6525-6561), and the
  tick is refused.
- A State left in `TRANSITION_RESERVED` without its files can be retried by its exact
  request only; run, resume and recover refuse it (`workflow_recovery.py:310`,
  `scheduler.py:1843`). A Plan published but not confirmed is in the same place, and
  two Plans that reserve one path make `_matching_receipt` ambiguous.
- A publication interrupted inside its write (`adapters/workflow.py:500-530`) leaves
  an untracked temporary that changes the Candidate digest; `TornPublish` turns
  this on, and with it no service proceeds until somebody cleans up.
- The first run of a workflow whose cause is not `RUNTIME_STARTED` counts as a resume
  (`workflow_runtime.py:3687`); an ambiguity recorded by recovery is the union of
  the source's and the current ones, and it can no longer be superseded once
  everything is complete.
- Nothing keeps an orchestration role from being a writer and an independent reviewer at
  once: as the owner of a worktree it runs in the last wave, after the integrator, though
  a plan says that integration runs after parallel implementation
  (`orchestration.py:397`). A role asked for by name without a worktree runs beside the
  owners.
- Compaction never omits a node, the status `stale` cannot be reached at a
  snapshot, and `stale_required_count` is the constant 0.
- Local readiness passes no approvals, so an accepted critical finding can
  never be `LOCAL_READY`; the G4 artifact is not evaluated again.
- `approval_id` is unique over all tasks, so a second decision with the id of a
  consumed one is silently dropped (`scheduler.py:7065`); a cancellation not yet
  acknowledged is forgotten when the lease of a read-only task expires (`:6455`);
  a clock that runs backwards makes the call that meets it fail.

## 5. What is proved

The theorems hold for every task graph, budget, vocabulary, ttl, number of tasks
and hosts that the ASSUMEs of `SchedulerStore` admit; for every set of Plans,
processes, artifacts and length of history that `EpochBounds`, `NoneIsNone`,
`PublicationBounds` and `ClientsRun` admit; and for every set of processes,
approvals, documents, problems and manifests that the ASSUMEs of `Migrations` and
`Context` and `ToolBounds`, `AssuranceBounds`, `OrchestrationBounds` and `SolverBounds`
admit (these four are hypotheses of their theorems; `MCComponents` assumes them of its
instances, so that TLC evaluates them). None of them bounds a size: they say that a
graph refers to its own tasks, that limits are numbers, that a host does not write the
scheduler's messages, that `None` is no artifact and "free" no process, that severities
are the four of the code, that the sorted list of roles names the registry's, that a
solver problem is one the loader accepts (finite domains of numbers, terms over its
variables), that a manifest has finitely many sources with sizes and levels, the
canonical one among them. The value of an empty column is no task, projection,
lease or worktree row (`NullAssumption`); `WorkflowRuntime` assumes nothing.

| Theorem | Says | Module |
|---|---|---|
| `TypeCorrect` | `Spec => []TypeOK` | `SchedulerProofs` |
| `AuthorityHolds`, `WorktreesAreExclusive` | `Authority`, `WorktreeExclusive` | `SchedulerProofs` |
| `AttemptsAreFenced`, `AttemptsAreCounted`, `EffectsHappenOnce`, `DependenciesAreDone`, `EndingsAreUnique`, `SlotsAreCounted`, `CompletionIsProved` | `Fenced`, `AttemptsCounted`, `EffectsOnce`, `DependenciesDone`, `OneEnding`, `ConcurrencyExact`, `CompletedProved` | `AttemptProofs` |
| `RecoveriesAreLive` | `RecoverySpec => RecoveredIsLive`: what a recovery publishes, once, is the evidence and the rows the scheduler committed | `RecoveryProofs` |
| `SettledTasksStay` | `Spec => SettledStays`, an action property | `AttemptProofs` |
| `SchedulerImplementsLedger` | `Spec => AttemptsKept`: the scheduler implements `AttemptLedger` | `AttemptProofs` |
| `RejectedIsRejected` | `Spec => []RejectedStaysOut` | `AttemptProofs` |
| `ReservationsAreExact`, `LimitsHold`, `ApprovalsAreBound`, `RetriesArePaid` | `ReservationsExact`, `WithinLimits`, `ApprovalsBound`, `RetriesPaid` | `BudgetProofs` |
| `HeadsAreReplayed`, `HistoryIsLinear`, `TerminalsAreIsolated`, `ReceiptsAreBound` | `SpecStore => []` of `Replayed`, `LinearHistory`, `Isolated`, `BoundOnce` | `WorkflowProofs` |
| `StoreImplementsLedger` | `SpecStore => LedgerKept`: the store implements `WorkflowLedger` | `WorkflowProofs` |
| `ConfirmedFilesExist`, `FilesAreReserved` | `Safety => []` of `ConfirmedIsPublished`, `ReservedBeforePublished` | `WorkflowProofs` |
| `PromisesUnderServices` | `Safety => []` of the four promises of the store | `WorkflowProofs` |
| `NothingIsTakenBack` | `Safety => [][Grows]_vars`: no receipt is dropped, no file removed or replaced | `WorkflowProofs` |
| `RecordsAreReproduced`, `OutcomesAreTrue` | `RuntimeSpec => []` of `RecordsReproduce`, `OutcomesTrue` | `ComponentProofs` |
| `SuccessIsProved` | a solver task that succeeded has a result its problem bears out, whatever the adapter said | `SolverProofs` |
| `HonestSearchesKept` | what the reference search found, the replay never refutes | `SolverProofs` |
| `VerdictsAreExact` | both, as `VerdictsExact` | `SolverProofs` |
| `ContextsAreWhole` | `ContextSpec => []ContextsWhole` | `ComponentProofs` |
| `OutputsAreClaimed`, `MigrationsAreWhole` | `ClaimedBeforePublished`, `CopiesWhole` | `ComponentProofs` |
| `ExecutionsAreApproved` | `ExecutionsApproved` of `ToolExecution`; its halves are `ApprovalsPayOnce` and `SandboxRetriesApproved` | `ComponentProofs` |
| `ReadinessIsProved` | `ReadyIsProved` of `Assurance` | `ComponentProofs` |
| `ReviewersComeLast` | `ReviewedLast` of `Orchestration` | `ComponentProofs` |
| `ClaimsAreKept`, `EvidenceIsKept`, `WritesAreKept` | no claim and no evidence is lost from its file; together `WritesKept` | `ComponentProofs` |
| `SpendingStays` | no spent approval is lost from its file | `ComponentProofs` |

With these, every invariant and action property that `attempts`, `progress`,
`epoch_store`, `publication` and `components` check on a small instance is a theorem
of the same specification, and `RecoveredIsLive` of `scheduling`, which that run checks
of two instances, is one of `RecoverySpec` for all of them.

*Types.* `TypeInv` adds to `TypeOK` that the working copy is typed even where it
equals the committed store, and that an open transaction was opened by a host
and knows where its expiry pass leads. The argument is one lemma per operator of
the store (`ClosedType`, `ResumedType`, ...), which says that it keeps every
table well formed, and one lemma per pass, which adds up the actions. The one
subtle point is `ReservedType`: a reservation is read back from a message, and
only the scheduler writes messages of that type, because the vocabulary of
hosts excludes it (`VocabularyAssumption`).

*Authority* is not inductive. Nothing in it says that the identity of a new lease
is new: were an old request for the same attempt still in the mail, the proposal
would count as activated the moment it is made. `AuthorityAt` therefore adds that
every request ever sent for a task carries an attempt number the task has
reached, and, while a proposal is pending, one strictly below the proposal's.
Withdrawing a proposal gives its number back, which is safe because of the
second half; activating it needs the first. Worktree exclusivity rides along:
only `RequestWorktree` adds a worktree, under the occupancy test, and every
ending removes it.

*Steps, once for all.* The scheduler has some twenty actions that write the store, and
each later invariant would have to look at all of them. `AttemptProofs` shows
first, and once, that each does one of six things to one task and leaves every other task
alone: it keeps it (`Kept`), computes its readiness again (`Reconsidered`),
proposes (`Offered`), activates (`Started`), ends its attempt with or
without a retry (`Finished`), or takes a proposal back (`Withdrew`). `StepInv`, the
invariant this needs, is authority together with where requests come from
(`Requested`).

*Attempts.* It then proves its invariants over these six. `AttemptsOf`, per
task, relates its row, its activations in the mail and its lease: the fence of the
row is the largest ever issued, activations are numbered without gaps, a task
with effects that was activated is never ready again, what it waited for is
completed, and completion has its result and its reviews. A dependency stays
completed since no step touches a settled task; this is also what `SettledStays` needs.
`EndingsOf` adds what ended each lease; `Since` that a cancellation request and the
reply that overtakes it are under one lease. `RecordInv` separates adopted from rejected.

*Recovery.* `_rebuild_from_evidence` folds the rows of five tables over the seed; the
scheduler writes its mutable rows directly. `RecoveryInv` says that the two agree at every
step inside a call (`Told`: the log of the transaction, folded, gives the working copy's
rows), that the committed evidence tells the committed store, that both pairs are one
while no call is open, and that recovery runs only then, so that the file it is about to
publish is what the database still holds. The argument has two halves. A fold over a
sequence that grew by one row is one step after the fold over the old (`FoldGrows`, from
the definition of the fold and a least counterexample: two functions with the same steps
agree), so a handler needs only show that each row it appends says what it did
(`Follows`; `WroteTells`). Then there is one lemma for each way a handler writes, the
double ones with two rows: a result that succeeded and its verification
(`SucceededTold`), a dispatch with the consumption of its approvals (`SentTold`, a fold of
its own). Two facts of the scheduler are needed beyond `AuthorityInv`: the lease and the
worktree of a task are told by their latest row alone, so rows must be numbered
(`Numbered`), and a task that runs has no outcome yet (`Steady`), since starting it does not
clear one. The handlers with their rows are then shown to be the scheduler's own
(`LoggedHandlers`, `RecoveryIsScheduler`), which brings in authority.

*Budgets.* The columns are sums over tasks. `SumProofs` has the lemmas about sums over
finite sets that the community modules' fold does not state (adding an element,
changing one term, comparing two sums), from the definition of the fold and a least counterexample.
`BudgetProofs` then follows the books: a request waits, is dispatched, is accepted, ends
(`Waits`, `Dispatches`, `Accepts`, `Ends`), and each of the four moves exactly what the
lease has outstanding. The invariant `Books` has to know more than the sum: that a lease's bills
are in the mail once (`BilledOf`), that accepting and settling are each
one-sided (`OneSided`), and which reservation was made under it (`ReservedOf`). Retries
are paid because what a task consumes beyond its first activation is repaid by
the charge of the step that offered it again (`Repaid`).

*Epochs.* Every call of the store appends an event of one of five shapes: opening,
reserving, confirming, ending a Plan, or the repetition that appends nothing.
`StoreInv` joins to the properties what they rest on: heads and evidence are
valid (`EvidenceValid`, what the code itself checks before a commit), the log agrees
with the head of each Plan (`LogKept`), and what the log says is pending the head holds, at
the same scheduler event (`HeldAt`). That the heads are the *replay* of the log is an
induction over a recursive function; it is proved by carrying the whole
sequence of intermediate heads in the invariant (`Projected`), and showing that
a function with those steps is the replay (`ReplayReduces`). Since the lemmas
speak of the event and not of its caller, they hold of `SpecStore`, where callers are arbitrary, and
of `Safety`, where they are the services.

*Publication.* A receipt becomes CONFIRMED only by a process that saw its file, and
no step removes or replaces a file: the checkout grows by files whose
receipt is reserved (`AddsReservedFiles`), confirmations are added only when true
(`AddsTrueConfirmations`). `ServiceInv` is `StoreInv` with these and with what each
process still has to do: an artifact past its link step is on disk or
was reserved by the call that carries it, whatever the others did meanwhile.

*Refinement.* The mapping sends a head's State and Outcome to the ledger's current
State and verdict, and a confirmed terminal to `settled`. A reservation maps to
`Extend` or `Decide`, a terminal confirmation to `Settle`, a tick to `Advance`, all else to a
stutter; `LedgerInv` says that the States and Outcomes named are the ledger's.

*Services.* `ServiceInv` contains `StoreInv`, so the store's promises hold under the
processes that really call it as well as under arbitrary callers
(`PromisesUnderServices`); each action's lemma also shows `Grows`, hence
`NothingIsTakenBack`.

*Migrations.* A claim is written under the lock file, before the link, and nothing
removes it; the invariant says for each process, by its program counter, what it holds,
what it read and what is claimed.

*Tools.* `ExecutorKnows` says the same of a process that spends approvals: it holds
the lock file from its read to its write, what it read is the file, and none of its
approvals is in it; what it has written stays. `Apart` then says that a claimed
approval is in one place only: with one executor about to run, or with one
process that was started. `ApprovalsSpentOnce` alone is not inductive, because
it looks at started processes and not at those about to start. That a retry after a sandbox
denial has a new technical approval is a property of the grants `Permitted` accepted,
carried through the five steps to `Run` (`Approved`).

*Evidence and readiness.* A writer under the lock file read the ledger that is still there
(`WriterKnows`), hence it replaces the ledger by a larger one. `TrialKnown` links the
artifact of G4 to the copy that was installed when the gates ran, since the file it
speaks of may be replaced before the judgement. `AcceptedIsProved` is the step that
needs the gates themselves: a verified claim that is consistent has conformance evidence
besides the diff review (`LedgerSound`: a diff review is never a test), and the
judgement, unlike the gate, grants no acceptance.

*Plans.* `OrchestrationInv` says that a plan is what `PlanOf` makes of a request that
loads. That concurrency keeps to the request needs the widest wave to be a number,
so that finitely many roles have a largest wave (`LargestNumber`, from `LeastNumber` of
`SumProofs`).

*The ledger of attempts.* Each of the six kinds of step is an action of `AttemptLedger`
under `EntriesOf`: an offer gives an attempt number, a withdrawal gives it back, a start
runs a task whose dependencies are completed while a slot is free, an ending completes,
closes, retries or leaves in doubt, and a commit, an abort or a crash makes the two copies
one. The invariants above supply what each action of the ledger demands and the step
alone does not say.

*Workflow records.* `ChainHolds` and `Exact` look at every entry of a chain, the
scheduler's history at the moment of it, and the causes before it. They are inductive
once it is said that the history only grows and never forgets an unknown effect
(`Unforgotten`), that entries refer to it in its order (`InOrder`), and that before the
Outcome no entry is a terminal (`Open`); each writer has a lemma that what it appends is
what the reader derives (`RegularReproduced`, `RecoveryReproduced`, `TerminalReproduced`).
`CauseHolds` is written with the chain as a parameter, so that an entry's cause depends on
the entries up to it alone (`EntriesKept`). `Decided` carries what a completed Outcome
proved past the moment it was produced.

*The solver.* The objective and its bounds are folds over the terms of a problem; `SolverProofs`
derives from the definition of the folds that a sum over a finite set is bounded by the sums of
the bounds, that the index of an assignment in the search space is a bijection, and so
that a search that visited the whole space proved what it states. A verdict that confirms
is then true of the problem, for any report. The other direction, that an honest report is
confirmed, is that the replay of the search stops where the search did.

*Contexts.* The closure of a contradiction, the order of candidates and the texts a
compaction keeps are recursions and folds, each taken apart once (`FoldHolds`: what every step
of a fold keeps, its result has; `ComponentIsWhole`: after as many rounds as there are
edges nothing more is added, since each earlier round added an edge). `Takes` is what the
selector's loop keeps: whole contradictions, inside clearance, nodes, edges and bytes.
`ContextInv` then says of each artifact on file what `Holds` says, and `CompactKeeps` finds why
a compaction loses nothing: its budget is the query's, and the texts of the snapshot cost no
more than its nodes did. Permutation enters only through the place of a node being the number
of those before it, for which a rank must order strictly (`RanksOrdered`).

## 6. What is only model-checked

- *Liveness*: `ExpiryIsNoticed`, `NoStarvation`, `TerminalCloses`. Liveness under fairness
  needs `ENABLED`, which is out of the prover's reach.
- `CommitsReplay`, `EveryRowCounts`: the validator's verdict is a conjunction over every
  row of an evidence, each judged against the rows before it, and the second asks for the
  verdict on evidences no handler wrote. They need an invariant as large as the validator
  itself, which was not attempted.
- `PromisesKept` repeats, in other graphs, properties that are proved for all graphs.

## 7. What is not modelled

Not modelled: simulation of M6 and M8 (they drive the modelled operations through
fixed scenarios); planning, contracts, explanation of M8 and requirements, planning
of M1 (construction and checking of documents without state); workspace, schema
validation and command line (input and output). Digests, canonical bytes and artifact
shapes are identities throughout; limits of sizes, file modes and paths are
guards or left out. Of the modelled components, what each module leaves out is
said at its head and in the notes of `PROJECT.json`. Reused approval ids across
tasks, forgotten cancellations and a clock that runs backwards are listed as hazards
without a property.
