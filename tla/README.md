# Verification of Prefect's orchestration

TLA+ modules, TLC configurations and TLAPS proofs about the parts of Prefect whose
correctness depends on orders of events: what happens to flow runs (the server's
orchestration rules, the services that act on runs by themselves, the clients that
propose states), concurrency limits with leases, the delivery of cleanup messages
and of background task runs to workers, the causal order of events, and the
client's transactions.  Paths below
are relative to `src/src/prefect/` unless they start with `src/`.

## 1. The system

### Components, their state and their operations

| Component | State | Operations | Hard part |
|---|---|---|---|
| Orchestration policies (`server/orchestration/core_policy.py`, `global_policy.py`, `rules.py`) | none of their own; they read and write a run's state, its `empirical_policy`, counters and the concurrency tables | a stack of rules entered in order and unwound in reverse; before, after and cleanup hooks; reject, delay, abort | a rule's effect may be undone or overtaken by a later rule; after hooks run after the global transforms |
| Flow-run transitions (`server/models/flow_runs.py`, `server/api/flow_runs.py`) | `flow_run`, `flow_run_state` rows | create, set state (orchestrated or forced), resume, delete | set state holds the row lock, but resume and two services read the run before they take it |
| Late runs, pause expirations (`server/services/`) | docket tasks keyed by run | a monitor queues a task per run, the task writes a state | the run moves on between queueing and execution |
| Cancellation cleanup (`server/services/cancellation_cleanup.py`) | docket tasks keyed by run and state | time out `CANCELLING`, recover lost checks, cancel subflows and child task runs | the check is queued after the commit; a subflow is read and written in two sessions |
| Deployment concurrency (`core_policy.py`, `server/models/concurrency_limits_v2.py`, `server/concurrency/lease_storage/`, `server/services/repossessor.py`) | `active_slots` of a limit, leases with an expiry, the lease id in the run's state | acquire, renew, release, revoke expired leases | slots live in the database, leases outside of it; whoever ends a run gives the slot back, and a slot must be given back once |
| Concurrency limits (`server/api/concurrency_limits_v2.py`, `concurrency/`, `server/concurrency/lease_storage/filesystem.py`) | `active_slots` of the limits, lease files and their index, a client's lease and its clean-up list | increment and decrement with lease, renew, expire, revoke, cancel | database, lease file and index are written one after the other, with awaits in between, and answers get lost |
| Task-run orchestration (`core_policy.py`, `server/models/task_runs.py`) | `task_run` rows, the task cache, tag limits | caching, retries, tag concurrency | cache keys raced by runs |
| Scheduler (`server/services/scheduler.py`) | scheduled runs with idempotency keys | create future runs | two schedulers at once |
| Foreman, workers, work queues (`server/services/foreman.py`, `server/models/workers.py`, `work_queues.py`) | statuses and heartbeats | poll, mark offline | runs polled by two workers |
| Worker cleanup (`server/worker_communication/cleanup_queue/`, `server/utilities/worker_channel.py`, `worker_channel_cleanup.py`, `workers/_cleanup.py`, `server/services/cleanup_reconciler.py`) | messages, reservations, dead letters and completed ids; connections, in-flight tokens and a dispatch task per pool; a worker's executions and pending operations | enqueue, reserve, acknowledge, release, renew, expire; register, dispatch, track, forget; execute, send, retry | a lease that runs out while its holder works; answers of earlier attempts; the registry counts apart from the queue; a dispatch task that exits while a worker connects |
| Events (`server/events/ordering/`, `triggers.py`, `actions.py`, `server/utilities/messaging/`) | a broker's queues and retries; events in process, seen events, followers; buckets | order events by their `follows` links, evaluate, sweep lost followers, count, fire | out-of-order and repeated delivery, lost leaders, failing evaluations, followers called from within their leader |
| Background tasks (`server/task_queue.py`, `server/api/task_runs.py`, `client/subscriptions.py`, `task_worker.py`) | two queues in memory per task key, a handler per connection, a worker's tokens | enqueue, send, acknowledge, put back, subscribe, acquire and release a token | a connection that breaks with a run or its acknowledgement on it, full queues, saturated workers |
| Client transactions, results and locks (`transactions.py`, `results.py`, `locking/`) | a tree of transactions, staged results, lock holders | begin, stage, commit, roll back | failing hooks, nested isolation |
| Engines, workers, runner (`flow_engine.py`, `task_engine.py`, `workers/`, `runner/`) | a process per run | propose states, renew leases, report crashes | their proposals race each other and the services |
| CLI, UI, settings, blocks, deployments, integrations | configuration | input and output | none that belongs here |

### How they interact

Every state of a flow run goes through `models.flow_runs.set_flow_run_state`.
It loads the run with `FOR UPDATE` (SQLite: a `BEGIN IMMEDIATE` transaction when
the API opens the session), compiles the rules of a policy for the intended
transition, enters them one after the other, writes the state that is left and
unwinds the stack.  Clients call it through the API with `CoreFlowPolicy`, or with
`force=True` and `MinimalFlowPolicy`; services call the model function directly.
A worker submits a run by proposing `Pending`, an engine starts it by proposing
`Running`, and it renews the run's concurrency lease while it executes; the
repossessor revokes what is not renewed and gives its slot back.

Cleanup messages go from the queue through the dispatch task of their pool to a
worker's websocket, and its operations come back on it.  Task runs that are
deferred go from the orchestration rule into the queues of their key and through
a websocket handler to a task worker.  Events reach the triggers consumer through
the message broker.  Clients of `concurrency()` blocks, the endpoints and the
repossessor share the limits' counters and the lease storage.  Threads of a client
share the result store and its locks.

### Behaviours that are hard to test

`PROJECT.json` lists them as hazards with the line where each one bites.  The
most important ones are the interplay of rules in one transition (a rule that is
overtaken runs its cleanup hook), the protocol of many transitions (run count,
pause keys, scheduled time and leases are handed from one state to the next),
reads without the lock on PostgreSQL, slots that several parties give back, and
recovery when the server stops between a commit and what follows it.  In the other
components they are what lies between two awaits or two writes: leases that run out
under their holder, answers and acknowledgements that get lost, two parties that
keep count of the same thing, exceptions that leave nested calls, queues that are
full.

## 2. The modules

| Module | What it is |
|---|---|
| `FlowRunRules` | one transition: every flow rule, global transform and policy as an operator from a transition context to a transition context; no variables |
| `FlowRunOrchestration` | the state machine: the runs, the limit, the leases, the handlers and services and their bookkeeping; properties |
| `MCFlowRunOrchestration` | instances for TLC: sets of client requests |
| `FlowRunOrchestrationProofs` | the types of the flow runs and the backing of the slots, proved |
| `FlowRunHistoryProofs` | what a transition does to a run, and nine invariants and action properties, proved |
| `FlowRunLimitProofs` | what a transition does to the slots, and the deployment's limit, proved |
| `CleanupLifecycle` | abstract: what the cleanup queue promises about every message |
| `WorkerCleanupQueue` | queue, registry, dispatcher, connections and executors; implements `CleanupLifecycle` |
| `WorkerCleanupQueueProofs` | the refinement and four invariants, proved |
| `CausalOrdering`, `MCCausalOrdering` | the triggers consumer with the memory broker and the ordering; the event graphs for TLC |
| `CausalOrderingProofs` | the invariants of the ordering, proved |
| `Transactions`, `MCTransactions` | nested transactions of several threads, call by call; their symmetry |
| `TransactionsProofs` | the invariants of transactions and that writes hold the lock, proved |
| `ConcurrencyLeases`, `MCConcurrencyLeases` | limits, leases, clients, endpoints and repossessor, step by step; an instance with two limits |
| `ConcurrencyLeasesProofs` | the index, the slots and the limits, proved |
| `BackgroundTasks`, `MCBackgroundTasks` | task queues, websocket handlers and task workers; an instance with two keys |
| `BackgroundTasksProofs` | the invariants of the queues and workers, proved |

`FlowRunOrchestration` takes and gives back a slot with its lease in the step that
commits a state; `ConcurrencyLeases` is what becomes of that when every write is a
step of its own.

### FlowRunRules

A context is `OrchestrationContext` with what rules reach through the session:
initial and proposed state, the run's columns, slots, leases.  A rule `R` is
an operator `R(c)` with the code's name.  `Governs` is the test of
`BaseOrchestrationRule.invalid`: the rule's FROM and TO sets, and that no earlier
rule changed the proposed type.  `Enter` keeps the type the rule left, and
`Survives`/`Fizzles` decide when the stack unwinds between the after and the
cleanup hook, as `__aexit__` does.  `CoreFlowPolicy` is the composition of all
rules, transforms and hooks in the order of `CoreFlowPolicy.priority`; so are
`MinimalFlowPolicy` and `MarkLateRunsPolicy`.

What the rules compare is kept, the rest is abstracted: a scheduled time is `past`
or `future`, a pause timeout `pending` or `elapsed`; the names of states are those
a rule tests; a result is persisted or not; pause keys, transition ids and leases
are model values; an infrastructure pid is there or not.  Messages, timestamps,
labels, parameters and instrumentation are left out.  One deployment limit is
modelled; runs outside it are those not in `Limited`.

### FlowRunOrchestration

| Variable | In the code |
|---|---|
| `st` | the run's current state |
| `run` | `empirical_policy` (resuming, pause keys, retry type), `run_count`, start and end time, `infrastructure_pid` |
| `slots` | `active_slots` of the deployment's limit |
| `leases` | the lease storage: absent, live or past its expiry |
| `reads` | a run some handler has loaded without the lock and not written yet |
| `late`, `check` | queued docket tasks `mark_flow_run_late` and `handle_cancelling_timeout` |
| `retry` | a request whose response was lost |
| `hist` | history for the properties only: retries, keys fired, submissions, whether the schedule lies ahead |

Each operation of the API and each docket task is an action with the code's name.
A transition is one step because the row lock is held from the read to the commit.
Where the code reads the run earlier the read is an action of its own
(`ReadForResume`, `ReadExpiredPause`, `ReadSubflow`), and the writing action
orchestrates the state and columns that were read.  `SnapshotReads` says what the
database makes of it.  On SQLite (`TRUE`) the session works on the snapshot of its
first read and fails to write once another one has written (the comment in
`server/database/configurations.py:545` describes this).  A handler that fails has
done nothing, so the model has only the others: `Unheld` keeps the run as it was
read until the handler writes.  On PostgreSQL (`FALSE`, READ COMMITTED) the write goes
through, because the ORM does not refresh an object it has loaded; only changed
columns are written (`Columns`).  `cancel_subflow_run` writes in a second session
and sees the current state on both.  Per run, one such handler is at work at a time.

`OrderlyClients` restricts what clients propose to the protocol of workers and
engines (`InTurn`); it is `TRUE` only where a property is about that protocol.
`LeasesExpire = FALSE` stands for clients that renew in time.

Assumptions of the model: clients speak an API version of at least 0.8.4; hooks do
not raise; ids are not reused (the model recycles lease ids that nothing refers
to); slots and leases are committed together with the state (the code keeps the
leases outside the transaction, see `ConcurrencyLeases`).

### WorkerCleanupQueue

| Variable | In the code |
|---|---|
| `queue` | `_messages`, `_reservations`, `_dead_letters` and `_acked_messages` of the queue, with `delivery_count` |
| `overdue` | the tokens whose `lease_expires_at` lies in the past |
| `conn`, `handling` | a `WorkerChannelConnection`: connected, its ready frame sent; the operation its receive loop is answering |
| `dispatcher` | the dispatch task of the pool, with `_exiting_dispatch_tasks_by_work_pool_id` |
| `dispatching` | how far `dispatch_one_cleanup_message` of a connection is |
| `inFlight` | `_cleanup_in_flight_by_worker` |
| `toServer`, `toWorker` | frames on the websocket |
| `executing` | the deliveries of a `WorkerCleanupExecutor`: its handler runs, or it sends the operation that ends it |
| `cleaned` | history: tokens whose handler succeeded |

Every operation of the queue holds its lock and is one step; so is every section of
the registry under its lock.  Between reservation, tracking and sending the code
awaits, and each is an action.  The cleanup queue's clock is what may happen next:
a lease in use runs out at any moment, a worker may think so earlier or later.
A renewal, its answer and the registry's update are one step.  `Closed` drops the
frames of a broken connection.  `Operate` is the shared test of acknowledge, release
and renew (`_validate_current_reservation_locked`).  Left out: other pools, queue
preferences (the choice of a message is free), wakeups (the dispatcher polls every
second anyhow), error answers, a server that restarts and forgets its queue.

The refinement `QueueKeepsLifecycle` maps a message to the status its entry has and
to its delivery count; one step may move several messages, since expiry does.

### CausalOrdering

| Variable | In the code |
|---|---|
| `follows` | `ReceivedEvent.follows` |
| `inbox`, `dead` | the queues of the `Subscription`, the messages moved to the dead letter directory |
| `calls`, `message` | the stack of nested `reactive_evaluation` calls of a consumer loop or of the sweep; the message it will acknowledge or retry |
| `waitlist`, `processing`, `seen` | `_waitlist` with `_followers` and `_events`, `_processing_events`, `_seen_events` |
| `aged` | received longer ago than `PRECEDING_EVENT_LOOKBACK` |
| `dropped` | history: events of sweeps that were given up |

Everything runs in one event loop, so an action reaches from one await that really
waits (a message, the poll for a leader, an evaluation) to the next.  An evaluation
is one step that succeeds or raises.  `Evaluated` unwinds the stack as far as the
loops over followers go and calls the next one.  Left out: the timeout class on
Python 3.10 (`anyio.fail_after` raises another `TimeoutError` there), expiry of seen
events, queues of the broker that are full, restart.

### Transactions

`txn` holds every transaction with its parent, its children and its outcome,
`blocks` the with-blocks of a thread, `active` its context variable, `store` and
`locks` the result store.  `calls` is the stack of a thread that leaves a block:
`__exit__` with what `reset` has to do, and above it the `commit` and `rollback` of a
transaction, of its child, and so on, each with the children it has gone through.  An
action enters, continues or leaves the call on top, or lets its error out (`Raised`),
which `commit` answers with a rollback and `rollback` with its finally clause.  Threads
interleave between any two of these: before and after each child, between the check of
the lock and the write, between the hooks and the release.  What may raise is a hook of
a commit or of a rollback, the write, or the release of another one's lock.  Isolation
is `SERIALIZABLE` throughout: without locks nothing relates two transactions of a key.
The values are `staged` and `undone`, so that a value that was rolled back can be
recognised in the store; `found` and `undone` in a transaction are history.  A
transaction `writes` if it has a key and `write_on_commit`, which the task engine sets
for tasks that persist their results and clears for attempts that failed; one that does
not commits without looking at the store, and releases its lock all the same.

### ConcurrencyLeases

| Variable | In the code |
|---|---|
| `pc`, `lease` | where a client is in `concurrency()`, and the lease id it knows |
| `slots` | `active_slots` of a limit in the database |
| `file`, `index` | lease files; `expirations.json` |
| `grant`, `release`, `renewing` | how far the handlers of increment, decrement and renew are |
| `queued`, `revoking` | docket tasks `revoke_expired_lease`: queued, running |
| `stopped` | history |

Each write of database, file and index is an action, each lost answer a choice of
the action that sends it.  `Overlap` says whether two handlers may work on the same
lease at once; `Persistent` whether leases survive a stop of the server.
Left out: slot decay, counts of denied requests, limits that are changed,
deactivated or deleted, several slots at once, several server processes on one
directory.

### BackgroundTasks

| Variable | In the code |
|---|---|
| `scheduled`, `retry` | `_scheduled_queue`, `_retry_queue` of each `TaskQueue` |
| `serving`, `keys`, `sent` | running `scheduled_task_subscription` handlers, the keys of their `MultiQueue`, the run they took and wait for |
| `open`, `wire` | the websocket: not broken, and what it carries |
| `link`, `hand` | the `Subscription` of a worker; the run `__anext__` returned that waits for a token |
| `running` | the limiter's borrowers |
| `submitted`, `acked`, `starts`, `unheard`, `lost` | history |

A connection may break between any two steps and the handler learns of it only by
sending or receiving, so a handler whose client is gone may take one more run.
An acknowledgement that is on the wire when it breaks may arrive or not.
Left out: the commit that follows the rule which enqueues, clients that send
something else than an acknowledgement, restart of the server (its queues are in
memory and nothing enqueues their runs again).

## 3. What TLC checks

The first four runs use `MCFlowRunOrchestration`.

| Run | Instance | What it shows |
|---|---|---|
| `FlowRunLifecycle` | one deployed run, SQLite, one retry, count up to 3, all requests, forced transitions to every state but a pause, pauses and suspensions with a key | `RetriesBounded`, `NeverEarly`, `SubmittedOnce`, `FiredPausesRemembered`, `EndTimeMatchesState`, `CancellationSticks` |
| `FlowRunLimit` | two interchangeable runs, one slot, `ENQUEUE`, four leases, retries, crashes and forced cancellations, clients in turn | `ActiveWithinLimit` |
| `FlowRunRecovery` | one run on a limit, leases expire, requests for cancellations and pauses, deletions, queued checks that have become stale | `TypeOK`, `SlotsBacked`; liveness: `CancellationCompletes`, `PausesEnd`, `SlotsReclaimed` |
| `FlowRunRaces` | a subflow run on PostgreSQL, `CANCEL_NEW`, numbered requests that are lost and sent again, forced Completed (with and without a persisted result) and Running | `PersistedResultKept`, `LateOnlyScheduled`, `DuplicateLeavesNoTrace` |
| `CleanupDelivery` | one message, one worker that takes one at a time, two delivery attempts, two attempts per operation, completed ids pruned, two faults | `AckedWasCleaned`, `CapacityAccounted`, `DispatcherServes`; refinement: `QueueKeepsLifecycle`; liveness: `EveryMessageSettles`, `CapacityReturns` |
| `EventOrdering` | three events in a chain and in a fork, two consumers and the sweep, one event delivered twice, one retry, depth 1, one failing evaluation | `LeaderFirst`, `EvaluatedAlone`; liveness: `EveryEventEvaluated` |
| `Transactions` | two interchangeable threads, three transactions, one key, with and without `write_on_commit`, every mode and failure | `CommittedHasRecord`, `UndoneNotWritten`, `ChildrenSettled`, `OneAtATime` |
| `ConcurrencyLeases` | two clients, one of two limits and one of one of them, a slot each, two leases, storage in memory, handlers of a lease in turn | `SlotsCoverLeases`, `WithinLimit`, `LeasesIndexed`; liveness: `SlotsReturn` |
| `BackgroundTasks` | three runs of two keys, a worker of both and one of the first, queues of size one, one token each, three connections, one fault | `KeptUntilAcked`, `StartedOnce`; liveness: `EveryRunStarted` |

Every module's `TypeOK` is checked too, and each constrains what a type alone would
not: bounds of retries and attempts, of queues, slots and tokens.

Expected violations, each the disagreement of a sentence in the repository with
its code (quoted in `PROJECT.json`):

| Run | Property | What happens |
|---|---|---|
| `CancelOverLimit` | `RunningWithinLimit` | r1 is run, completed and rerun while r2 has the slot; r1 waits in `AwaitingConcurrencySlot`, is cancelled through `CANCELLING` (it still has a pid), and its `CANCELLED` gives back the slot of r2; r3 starts beside r2 |
| `ResumeOnlyPaused` | same | on PostgreSQL a resume overwrites what was committed since it read the run |
| `LeaseReleasedTwice` | `WithinLimit` | a client's release and a second handler of the same lease both read it before either has revoked it; two slots come back, and a third party enters beside the client that holds one |

### Bounds and why they are enough

* One run suffices for what rules do to a run; two compete for a slot; the
  violation of the limit by a cancelled waiter needs three.
* `MaxRunCount` bounds the Running states of a run.  With one retry, three of
  them show a retry, a rerun and a resume between them.  Where the limit matters
  (`FlowRunRecovery`) one start per run is enough, since
  reruns, deletions and recreations still take and give back the slot.
* `LeaseIds` is one more than the runs and handlers can refer to at once, and
  ids are recycled when nothing refers to them; a transition that finds no free
  id is disabled (`InBounds`).
* One pause key shows repetition; a pause with `NoKey` stands for one with a
  fresh key.
* `TwinRuns` and `TwinThreads` are sound as symmetry: no constant of those runs
  tells the runs or threads apart and no liveness is checked with it.
* `CleanupDelivery`: `MaxTokens` admits a message that is delivered twice, with all
  its stale frames; one worker has stale and fresh deliveries of the message side by
  side in its executor, and two workers meet only in the queue and the dispatcher,
  which tell tokens apart and not workers.  `MaxFaults` = 2 lets the connection break
  while the dispatch task is exiting and again during a delivery.
* `EventOrdering`: three events are the least with a follower of a follower and with
  two followers of one; a depth of 1 makes the third one too deep; one duplicate and
  one failure meet in every order.
* `Transactions`: three transactions are a parent with two children, a chain, or two
  of one thread against one of another; one key suffices as transactions without a
  key exist too.  `DistinctModes` lets TLC go on from one of any two commit modes that
  `__exit__` treats alike: without a parent `EAGER` is `LAZY`, with one `OFF` is `LAZY`.
* `ConcurrencyLeases`: two limits show that a request takes all or none, two clients
  compete for one of them; lease ids are used again once nothing refers to them.
* `BackgroundTasks`: one run more than a key has places, two workers for one key and
  one for the other; three connections are a worker's, its next one after the fault,
  and another worker's.
* Deadlock is checked in the flow-run runs.  The others stop where their bounds
  end or where all work is done, so their cfgs say `CHECK_DEADLOCK FALSE`; what has to
  go on is stated as liveness instead.

### Fairness

`FairSpec` is used by `FlowRunRecovery`.  Monitors are perpetual docket tasks, so
reading an expired pause, recovering a missing cancellation check and revoking an
expired lease are weakly fair; a task that is queued is executed and retried for
ever (`Retry.forever`), so the timeout check and the second half of a handler are
too; time passes.  The monitor adds a check by `docket.add` under the run's key, which
does nothing while any check of that run is queued, also one of an earlier state (only
the request that sets Cancelling replaces it).  So `EnsureCancellingTimeoutCheck` waits
until the stale check has run, and `SkipStaleCheck` is fair like every queued task.
Nothing is assumed of clients except that they do not force `Cancelling` on a run again and again: each such state restarts the timeout, and
TLC shows the endless postponement when forced `Cancelling` is among the requests.
Fairness conditions are stated about the entry a task removes
(`FinishHandler`, `FinishTimeoutCheck`): only that task removes it, and the
condition has a guard TLC evaluates quickly.

`WorkerCleanupQueue`: the reconciler and the dispatcher are loops, workers reconnect
with a backoff, and leases in use run out in the end; one weak fairness condition
each for the server's steps, the workers' steps and time.  That each side needs only
one is because none of its steps can be taken for ever; renewals, faults, producers
and impatient workers are not among them.  `CausalOrdering` and `BackgroundTasks`:
an event loop goes on as long as it has anything to do, time passes, workers
reconnect; one condition, for the same reason.  `ConcurrencyLeases`: handlers that
run come to their end, leases expire, and the repossessor is a perpetual service;
clients may stop at any point, which is why `SlotsReturn` is worth stating.
`Transactions` has no liveness: see section 5.

## 4. What is proved

Each theorem holds for all values of the constants that satisfy the named assumption
of its module.  An invariant that is not inductive is strengthened; the strengthening
was checked by TLC on the module's run before it was proved.

`FlowRunOrchestrationProofs`, from `RulesAssumption` and `OrchestrationAssumption`:

* `TypeCorrect: Spec => []TypeOK`.  `TypeOK` is inductive.  The lemmas follow the
  pipeline: every rule maps a well-typed context to one (`...Type`), so every
  policy does, so every commit writes typed states, columns and counters.
* `SlotsAlwaysBacked: Spec => []SlotsBacked`: there are never more taken slots than
  leases in the storage, provided no client is of a version whose leases the server
  removes (`LeasingClients`).  With `TypeOK` the invariant is inductive.  The
  argument: within one transition `slots <= |leases|` is kept by each rule
  (`...Sound`): acquiring adds one of each, with a lease id that was absent; revoking
  removes at most one lease and gives one slot back, where the clamp at zero is
  needed because a lease id that is absent removes no lease.  Rules that touch
  neither are framed (`Frame...`).  Hooks of old clients revoke without release and
  are excluded by the hypothesis.

`FlowRunHistoryProofs`, from the same assumptions, in three parts:

* What a policy makes of a transition (`CoreOutcome`, `MinimalOutcome`,
  `MarkLateOutcome`).  Rule by rule (`...Before`): as long as the status is `ACCEPT`
  the proposal is still the client's own (`Original`) and what the rule forbids is not
  the case (`Admitted`); once a rule replaced it, it is one of four substitutes or a
  retry, and no later rule governs it.  `GlobalOutcome` and the `...Unwinding` lemmas
  carry the run's columns through the transforms and the hooks, among them the cleanup
  hook that restores the pause keys.
* What a step does to one run (`StepKinds`): nothing, a read, a pid, a deletion, the
  passing of time, or the commit of an outcome that started from the run as it is or
  from what a handler read (`Transits`); with `WriteOutcome` the next state and history
  of the run are those of the outcome.
  Clients may force any state (`ForcedRequests`), as `set_flow_run_state` accepts any.
* The invariants.  On either database, `LifeInv` (a run that is not there has no
  readers and no queued tasks; it was submitted at most once, and not since it was
  scheduled or ended) gives `RunSubmittedOnce` and the action properties
  `PersistedResultsKept` and `OnlyScheduledMarkedLate`.  On SQLite, `HeldInv` adds that
  what a handler read and still writes is the run as it is (`Current`), which makes
  every transition one of the run itself (`Rewrites`); then
  `RetriesAlwaysBounded` (a run that is Running, Paused or resuming has used fewer
  retries than its count, so each retry has a count of its own, at most `Retries`),
  `EndTimesMatch`, `PausesRemembered`, `CancellationsStick` and `RunNeverStartsEarly`
  (a run that waits carries the time it waits for through Scheduled and Pending).
* `DuplicatesLeaveNoTrace`: after the rejection of `PreventDuplicateTransitions` every
  rule, transform and hook is the identity, and the columns written are the old ones.

  Three theorems have a hypothesis on clients.  `RetriesAlwaysBounded` assumes
  `PausesOrchestrated`: none forces a pause.  TLC shows one retry too many without it:
  `force=True` skips `HandlePausingFlows`, so a run that awaits its retry can be paused,
  and its resumption is not counted.  `RunNeverStartsEarly` assumes
  `TimelyClients`: a client that proposes Pending sets no scheduled time of its own
  (`CopyScheduledTime` respects one that is set).  `OnlyScheduledMarkedLate`
  assumes `LateNames`: clients name no state but Scheduled ones "Late" (the rule looks at
  the name of Scheduled proposals only).  All hold in the runs.

`FlowRunLimitProofs`, from the same assumptions:

* `WorkStaysWithinLimit: Spec => []ActiveWithinLimit`, for any number of runs and slots,
  either strategy and either database, provided `CountedWork`.  The hypothesis is on
  the clients: they take turns and renew their leases, and nobody puts a run to work
  past `SecureFlowConcurrencySlots`.  What it excludes gives counterexamples: a blocking
  pause gives the slot back and resumes without one, a waiting run that is moved to
  Cancelling gives back a slot it never had (`CancelOverLimit`), and so does Pending on
  creation or Pending or Running by force, which the core policy does not see; subflows are excluded from
  `Limited` because their cancellation by a parent is such a forced Cancelling.
  Suspending, rescheduling, retrying, crashing, deleting and forcing a terminal state
  are allowed, which the run's instance does not try.
* The invariant is `LimitInv`: the runs at work are at most the slots taken, and these at
  most the limit.  A run that waits in its process for a retry (AwaitingRetry) counts as
  at work: `RetryFailedFlows` does not release its slot, and it goes back to Running
  without asking for one.  With Pending, Running and Cancelling alone the invariant
  would not be inductive.  `Calm` adds that what a resumption or an expiry has read is
  a run that was suspended, so that a resumption leads to Scheduled and not to Running.
* `Charges` bounds what one transition does to the slots (it gives back at most one, and
  only if it leaves the working states), `Takes` says that who is admitted to Pending
  pays for it.  Both are carried through the rules: all but
  `SecureFlowConcurrencySlots` and `ReleaseFlowConcurrencySlots` leave the slots alone
  (`Mild...`), and the cleanup of the first gives back what a rejection later in the
  pipeline made useless.  `Accounts` is the same about a step of the system, and
  `WorkingStep` counts.

`WorkerCleanupQueueProofs`, from `CleanupAssumption`:

* `TypeCorrect: Spec => []TypeOK`, inductive together with `QueueInv`, which says of
  every entry of the queue: its reservation is the last one issued, only active
  messages are reserved, and a free message has attempts left.
* `QueueImplementsLifecycle: Spec => QueueKeepsLifecycle`.  Each operation on one entry
  (give back, acknowledge, reserve, reserve what was just given back, store) is a
  step of the lifecycle (`...Steps`, about single records); each action changes every
  entry by one of them (`NextSteps`); a step of the lifecycle asks the same of all
  messages.  `QueueInv` is needed because a free message without attempts could be
  neither delivered nor given up.
* `AckedAfterCleaning: Spec => []AckedWasCleaned`.  The induction adds that whoever is
  about to acknowledge, or has sent it, has cleaned (`AcksFollowHandlers`); an
  acknowledgement that counts names the last reservation by `QueueInv`.
* `DispatcherAlwaysServes: Spec => []DispatcherServes`, inductive with the types.
* `CapacityAlwaysAccounted: Spec => []CapacityAccounted`.  `CapacityInv` says it of
  everything on its way to the worker (the dispatcher's send, the wire, the executor),
  that every token anybody still acts upon was issued, so that no later reservation
  makes a stale one live again, and that the operation a handler is answering has
  ended its reservation.

`ConcurrencyLeasesProofs`, from `LeasesAssumption` (finitely many clients and leases):

* `TypeCorrect: Spec => []TypeOK`, with `Known`: a client in a block knows its lease.
* `LeasesAlwaysIndexed: Spec => []LeasesIndexed`, also if handlers overlap.  The
  induction adds that a handler removes an entry only after its lease (`EntryLast`).
* `SlotsAlwaysCover` and `LimitsHold`: `Spec => []SlotsCoverLeases` and
  `Spec => []WithinLimit`, provided that the handlers of one lease take turns
  (`~Overlap`).  `LeaseReleasedTwice` shows that they fail without that.
  `Turns` is what a handler may rely on after it has read the lease: the
  lease it gives back is still stored, and no other handler is at it.  `Covered`
  counts a lease from its creation until somebody has given back its slots, so each
  step moves a slot from one summand to the other or removes it from both sides.
  Limits follow because leases of different clients differ and none is given back
  while its client is inside (`Own`), which maps the clients inside injectively into
  the leases covered.  A stop of the server with persistent leases is excluded by
  `Interrupted` in the properties themselves.

`BackgroundTasksProofs`, from `TasksAssumption` (finitely many workers, and each
subscribes to at least one key: the server closes a subscription without):

* `TypeCorrect: Spec => []TypeOK`, `NoRunLostOrDoubled: Spec => []KeptUntilAcked`,
  `NoStartWithoutLostAck: Spec => []StartedOnce`, all from `TasksInv`.  `Conserved` is
  an equation: the places of a run in queues and handlers and its acknowledgements
  are one together from the moment it is submitted; each step moves it from one
  summand to another.  `Backed` weighs starts and runs in the hand of a worker
  against acknowledgements that arrived, were lost or are on the wire.

`CausalOrderingProofs`, from `OrderingAssumption`, for any graph of follows links, any
number of consumers and any depth:

* `TypeCorrect`, `NoFollowerOvertakes: Spec => []LeaderFirst` and
  `NoEventLockedOrDoubled: Spec => []EvaluatedAlone`, from `OrderingInv`: the calls on a
  stack are about different events (`CallsSound`), and whatever a stack evaluates or
  has yet to call may be evaluated already (`AllReady`), since its leader was seen
  before the loop over followers began.

`TransactionsProofs`, from `TransactionAssumption`, for any number of threads, keys and
transactions and any depth of nesting:

* `TypeCorrect`, `CommittedAlwaysRecorded`, `UndoneNeverWritten`, `ChildrenAlwaysSettled`,
  `OneTransactionPerKey` and the action property `WritesAlwaysUnderLock`, all from
  `TransactionInv`; no run checks the last one, which the instance satisfies too.  `Family`: children know their parent, who is older and of the same
  thread.  `Stack`: each call was made by the one below it for the child it has come to,
  a commit goes on only while its transaction is not final and the children it has
  gone through are over.  `OwedRecorded`: who found a record, or is committed and was to
  write one, has it; a transaction that was found keeps what it found while it lasts.
  `Context`: what a thread goes back to, its with-blocks and the
  parents that will adopt them, was neither committed by itself nor adopted yet; that
  is why nobody is given a child after its commit.  `RolledBack`: a transaction that is
  rolled back and not yet `undone` has its rollback on the stack.  `Holding`: whoever
  has begun and is not over holds the lock of its key.
* A step of the call on top changes one transaction only.  `TopStep` says what it may
  do, and `TopStepKeepsInv` that this preserves everything; each action of `commit` and
  `rollback` is shown to be one.  `OthersStep` frames the other threads: no transaction
  of theirs is touched, so neither `Stack` nor `Context` notices.  The lemmas about
  stacks (`EnterStack`, `CallStack`, `ReturnStack`, `RaiseStack`) are stated for any
  transactions, so that each action cites them for its own.

A child whose rollback hooks raise gives up its lock and stays STAGED; its parent goes
on to commit.  `ChildrenSettled` counts it as over, by `undone`.

Only model-checked: liveness, which is outside the prover's reach, and the expected
violations.

## 5. Observations that no run keeps

Seen while modelling, all of them reachable in variants of the runs above.

* A run that pauses releases its slot and takes none when it resumes, so a limit of
  one can have two runs in `Running`; `tests/server/orchestration/test_validate_deployment_concurrency_at_running.py`
  documents related cases as expected failures.
* On PostgreSQL an expired pause that was read before the run was resumed fails the
  running run; a retry, the end time or the wait for a schedule can be lost the same
  way, and with two pause keys a late resume writes the keys it read over newer ones;
  so `RetriesBounded`, `NeverEarly`, `EndTimeMatchesState`, `FiredPausesRemembered`
  and `CancellationSticks` are stated for SQLite.
* A request that a rule answered with a state of its own (Failed became
  AwaitingRetry) is not recognised when it is sent again.
* A run of an old client has no lease once it runs; if it ends while it awaits a
  retry its slot is never given back.
* `delete_flow_run` gives a slot back and leaves the lease, so the repossessor gives
  it back again.
* A run in `AwaitingConcurrencySlot` whose terminal-state rule fizzled keeps
  `retry_type = in_process`, which hides it from polling workers.

* Resuming a blocking pause increments the run count, though the comment at
  `global_policy.py:334` excludes it: the flag the transform tests is set by the after
  hook of the same transition (`core_policy.py:1516`).
* `cancel_subflow_run` tests for terminal states in one session and sets the state in
  another under `MinimalFlowPolicy` (`cancellation_cleanup.py:146`): a subflow that
  finished in between is `CANCELLING` again, against `core_policy.py:1640`.
* A rerun that has to wait for a slot gets its old pause keys back from the cleanup
  hook (`core_policy.py:1723`), so its keyed pauses are skipped in the new attempt,
  against the comment at `core_policy.py:1645`.

Cleanup messages:

* A message whose acknowledgements are lost becomes a dead letter although its
  handler succeeded.  A reservation that is released before it was sent counts as a
  delivery attempt.

Events:

* An event may be evaluated twice: after an evaluation that raised late, its message is
  retried from the start.  `EventBeingProcessed` is retried at once and can use up
  the retries of a duplicate.
* If an event of a sweep raises, because its evaluation fails or because it is
  being processed for another copy, the sweep has already removed all lost followers
  (`ordering/memory.py:183`) and those after it are never evaluated (`dropped`).
  The comment at `triggers.py:1395` calls them safe in the database, which is true of
  the other ordering only.

Transactions:

* A transaction that finds itself committed when it begins keeps its lock if it is
  rolled back or left in mode `OFF`; others wait for that key for ever.
* A rollback hook that raises leaves the transaction staged, so a parent commits it
  later.  A transaction that stages after it was rolled back by a child is committed
  without its lock.
* A parent commits although the commit of a child failed.
* Nested transactions of one key, or of two keys in different orders, wait for each other.
* `locking/memory.py`: a waiter that gets a lock object which was deleted meanwhile
  holds it beside the holder of the new one; only filesystem locks are modelled.

Leases:

* A stop between the increment and the creation of the lease, or between revocation and
  commit in the repossessor, loses a slot for good; a stop between the decrement and the
  revocation gives it back twice if leases are persistent.  `SlotsReturn`,
  `SlotsCoverLeases` and the others say so by `stopped` and `Interrupted`.
* A renewal during a repossession succeeds although the lease is revoked right after.

Background tasks:

* A run is acknowledged before the worker has a token for it, so it is lost when the
  worker stops then (`lost`), and while a saturated worker waits its connection holds
  a further run that others could start.
* A full queue blocks the transaction of the transition that enqueues.
* A message of a client that is not JSON, or "quit", loses the run the handler holds.

## 6. Not modelled

Everything marked `not_modelled` in `PROJECT.json`, with the reason.  In modelled
components: queries, paging, labels, run inputs and their validation, notifications,
emitted events and telemetry, docket internals, the content of states, task runs of
a cancelled flow, and what section 2 lists for each module.

Most of the repository is code without shared state of its own: generated schemas
and clients of the integrations, the CLI, settings, blocks, database queries and
the UI.  The map is therefore a small share of it, and would stay small with every
component of the inventory modelled.

## 7. Plan

1. `TaskRunOrchestration`: the task rules of `core_policy.py` (cache insertion and
   retrieval, retries, tag concurrency), several task runs with one cache key and
   one tag limit.
2. The ordering in the database (`server/events/ordering/db.py`) against the same
   properties as the one in memory.
