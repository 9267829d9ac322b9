# SAVOR: a TLA+ verification project

SAVOR runs game programs (TAS movie validation, seed probing, battle turns) on
many emulator worker processes. A durable SQLite store holds workflows, jobs and
results; a coordinator process claims groups of jobs ("worksets"), dispatches
them to workers, stages the workers' terminals, and a result processor turns a
staged terminal into the final state of a job. The code at risk is the path of
one job through those four parties while workers die, processes restart, users
cancel and retry, and messages are repeated or late. This project models that
path from the source, model-checks it on small instances with TLC, and proves
its main invariants for every instance with TLAPS.

## 1. The system's parts (inventory)

| Part | Source | State | Operations | Hard behaviour |
|---|---|---|---|---|
| Completion ledger | `SavorCore/Runner/Runtime/Worksets/WorkerCompletionLedger.*` | retained terminals, byte account, identity and sequence counters, tombstones | reserve, complete, begin/confirm/abort publication, acknowledge, number an event | out-of-order finalization, failed sends, counter exhaustion, byte bounds |
| Worker runtime | `SavorCore/Runner/Runtime/WorkerRuntime.cpp` | active and staged workset, items, credits, taint | submit, stage, activate, start item, cancel item/workset, acknowledge, drain | actor mailbox against emulator and stager threads |
| Outbound publisher | `SavorWorker/SavorWorker.cpp` | bounded queue, stop flag | publish, evict, write | full queue, throwing sink |
| Worker process proxy | `SavorWorkflow/Worker/ProcessWorker.*` | last sequence, pending requests, health | read frame, match response, time out, kill | gaps and repetitions, late responses |
| Execution store | `SavorDb/Execution/Workflow/SqliteExecutionDb.cpp` | job, workset, dispatch, cancellation, blob and availability rows | claim, activate, drain, release, start, stage, claim result, finalize, cancel, retry, recover | repeated and late commands, restarts, batches with a void rollback |
| Availability signal | `SavorDb/Execution/QueuedExecutionDb.cpp` | cached row, subscribers | refresh, publish, watch, subscribe | publication and callbacks out of order |
| Result processor | `SavorDb/Execution/ProgramDB/ProgramResultProcessor.cpp` | last availability, claimed batch, finalization queue | wait, claim, process, finalize, stop | lost wakeups, crash with claimed results, repeated finalization |
| Job execution coordinator | `SavorWorkflow/Execution/JobExecutionCoordinator.cpp` | dispatches in memory, effects, cancellations, leases | schedule, submit, persist, acknowledge, cancel, release, retire | asynchronous effects completing in any order, worker loss |
| Worker coordinator | `SavorWorkflow/Execution/WorkerCoordinator.cpp`, `CoordinatorRuntime.cpp` | slots, contracts, quarantine | start, restart, retire workers | startup timeouts |
| Workflow orchestration | `SavorDb/Execution/Workflow/Workflow*.cpp`, `SqliteWorkflowOrchestration.cpp` | workflow, step, activation, output and binding rows | publish, settle, route, complete, cancel, resume, retry | settlement in many transactions, lost notifications, commands of the user in between |
| Outbox | `SavorDb/Common/Events/OutboxRelay.cpp`, `Retention/` | outbox rows, cursors | relay, claim, retain | crash between delivery and mark |
| Database lanes | `SavorDb/Common/QueuedDb.cpp` | bounded queue, threads | submit, run, stop | shutdown with queued work |
| Session services | `SavorCore/Runner/Runtime/Services/**` | resource leases, input streams, movies, savestates | acquire, release, restore | nested ownership, failure half-way |
| Stop points | `SavorCore/Runner/Runtime/StopPoints/**` | logical and physical breakpoints | add, remove, route a hit | sharing of physical breakpoints |

How they interact: the coordinator calls the store through `QueuedExecutionDb`
(one write lane, so transactions are serial) and workers through
`ProcessWorker` (commands and responses on one pipe, events on another). The
worker numbers every event; the proxy hands terminals to the coordinator, which
stages them in the store and then acknowledges them to the worker, which only
then frees its credit. Whenever a transaction may have made work available, the
store updates one row that the coordinator and the result processor watch
through callbacks. Result finalization writes `JobCompleted`, which the outbox
carries to subscribers, and may request cancellations of other jobs; a callback of
the processor notifies the workflow coordinator, whose periodic scan finds what no
notification announced.

`PROJECT.json` lists every part with its status, and under `hazards` what is
hard to test in it, at the line where it bites.

### What makes each part correct

- Ledger and stream: terminals reach the coordinator once each and in order; the
  worker forgets none before; bounds hold; a retry never makes the reader fail.
- Store: a job is never held by two dispatches nor by none; every end is
  announced exactly once and is final; a queued job of a step that runs can be
  claimed; the availability row hides no work; the attempt budget and the
  uniqueness of cancellation requests hold.
- Availability: whoever sleeps on the signal is woken when there is work.
- Result processor: a committed cancellation is known to the coordinator, or held,
  before any job can be admitted; a result is finalized once and announced; a
  claimed result is never lost without a trace; stopping ends.
- Job execution coordinator: one dispatch at a time has custody of a job, and a
  job is not given back, cancelled or ended while a live worker executes it; a
  terminal is acknowledged only when it is durable; a dispatch it forgets is
  closed in the store; a committed cancellation is on its way to the item; what
  was handed out settles; a shutdown reaches its recovery.
- Workflow orchestration: work is published only when its inputs exist, a workflow
  is complete only when every step ran or was skipped, an ended one offers no jobs,
  and a running one never stands still without showing why.

## 2. Modules

| Module | Models | Extended or instantiated by |
|---|---|---|
| `WorkerCompletionLedger` | the ledger class, one action per method | `WorkerEventStream`, `MCLedger` |
| `TerminalDelivery` | abstract: what ledger, queue and reader promise together | `WorkerEventStream` |
| `WorkerEventStream` | runtime actor + outbound queue + reader, over the ledger | run directly |
| `WorksetReporting` | abstract: what the coordinator may rely on about one workset of a worker | `WorkerWorksets` |
| `WorkerWorksets` | the workset lifecycle of the worker's actor, with stager, program runtime and finalizer threads | run directly |
| `ExecutionDb` | the store's transactions on jobs, worksets, dispatches, results, cancellations | `MCExecutionDb`, `ExecutionDbProofs` |
| `WorkAvailability` | availability row, cache, watcher, callbacks, processor loop | run directly |
| `ResultProcessor` | both threads of the processor, the coordinator's rendezvous, holds and index, start, stop and crash of `CoordinatorRuntime` | `MCResultProcessor` |
| `JobCustody` | abstract: who has custody of a job between publication and result | `DispatchCoordinator` |
| `DispatchCoordinator` | the coordinator's actor with its I/O threads, and the store and the worker as it sees them | run directly |
| `WorkflowSettlement` | one workflow: the workflow coordinator's loop, its transactions, the graph routing, the user's commands, crashes | `MCWorkflow` |
| `WorkerEventStreamProofs` | the theorems about `WorkerEventStream` and the `WorkerCompletionLedger` it extends | |
| `ExecutionDbProofs`, `ResultProcessorProofs`, `WorkerWorksetsProofs`, `DispatchCoordinatorProofs`, `WorkflowSettlementProofs` | the theorems about the module they are named after | |
| `DispatchCancellationProofs` | the theorems about the commands of `DispatchCoordinator` to its workers, over `DispatchCoordinatorProofs` | |
| `LeastElement` | the least element of a set of naturals, which the proofs use for induction | `WorkerEventStreamProofs`, `ResultProcessorProofs`, `WorkerWorksetsProofs`, `DispatchCoordinatorProofs` |

### WorkerCompletionLedger

`entries` is the deque `entries_`, as a function from the terminal identity: the
identity and order counters start at one and move together, the deque is
appended in that order, so the order of identities is the deque's order. A
method that returns an error changes nothing and is a disabled action.
`RequireActorThread` serializes the calls, so there is no concurrency inside.
Counters are taken modulo `CounterModulus` (2^64 in the code); zero means
exhausted, as in the code. Confirm and Abandon of a plain sequence have the same
effect and are one action.

### WorkerEventStream and TerminalDelivery

An actor turn is split where another party can observe it: `RetainTerminal` /
`FinalizeTerminal`, and `BeginPublication`, then `SinkAccepts` or `SinkThrows`,
then `ConfirmSent`. `PublishRaw` is the bounded queue with its eviction of
passive records and its permanent stop when an authoritative record does not
fit. The pipe behind the queue is a FIFO and is one with it. `ReadFrame` is
`accept_workset_outbound_sequence` with the terminal callback.
`AcknowledgeCommand` is restricted to terminals the coordinator was handed: it
has no other way to learn an identity. The byte limit of the queue is left out:
it acts as the record limit does.

`TerminalDelivery` says: issue, deliver in order, forget only what was
delivered. The refinement mapping counts issued identities, the accepted
terminals, and takes "acknowledged" as issued and no longer retained.

### ExecutionDb

Each action is one transaction; a transaction whose compare-and-set finds
nothing changes nothing and is a disabled action. Commands carry a dispatch id
and its token; an unapplied command may be applied arbitrarily late, and that is
covered because every action is enabled on the state alone, whoever issued it and
whenever. Each action ends, as the code does, with the refresh of the
availability row, where the code does. `CloseDispatches` is the common part of
`ReleaseWorksetDispatch` and the restart recovery: both split a dispatch's items
into requeued (one replacement workset per dispatch) and interrupted.
`RejectResultFinalization` is the conflict path inside a batch, where
`Rollback` is void and the cancellation requests inserted before the conflict
are committed; with `inserted = {}` it is the path outside a batch.

Abstractions: a token is the id of its dispatch (both are unique); priorities
and claim order are dropped, so any claimable workset may be claimed and a batch
is several claims; MATERIALIZED stands for RUNNING too, and ENDED for COMPLETED,
SKIPPED and CANCELED; leases, outputs, staging files and event rows other than `JobCompleted` carry no
control here; `SUPERSEDED` and the two `SUCCEEDED_` variants behave as CANCELED
and SUCCEEDED. Cancellation requests are keyed by the finalizing job, as their
request keys are. The delivery-failed outcome only writes diagnostics.

The claim query asks for the step of the workset as well
(`SqliteExecutionDb.cpp:3216`), while the flag of the availability row does not
(`:290`): `Offerable` is what they have in common, `Claimable` adds that the step is
`Live`. The transactions of the workflow coordinator and of the user that move a
step (`MarkStepMaterialized`, `ParkStep` for `FailWorkflowInstance` and
`InterruptWorkflowInstance`, `RetryFailedStep`, `CompleteWorkflowStep` also for a
cancelled step, `SkipStep`) look at no job here and refresh nothing: when they come
is the subject of `WorkflowSettlement`, and any order is allowed. The manual retry
reopens a step that failed or was interrupted.

`CancelWorkflowInstance` writes job and request rows too: it cancels queued jobs
whose `job_set_id` is the id of the workflow, without `JobCompleted` and without a
refresh, and asks for the cancellation of the claimed ones
(`SqliteWorkflowOrchestration.cpp:1501`). These writes are left out, so that
`CompletedOnce`, `AvailabilityCovers` and `OneActiveRequest` do not speak of them.
`ResolveWithoutWorker` is narrower than the code, which would take a job without a
dispatch; its only caller names one.

### WorkAvailability

`RefreshExecutionWorkAvailability` is run by the calling thread after the write
lane has completed its transaction: read the row, publish under
`availability_mutex_` unless the generation is the cached one, call the
subscribers after unlocking. These are three steps per thread (`phase`). The
processor's `Start` (subscribe, initial callback, read, overwrite) and `Loop`
(wait without a timeout, claim, process, decide whether to go on) are the other
actions; `observed` and `claimed` are its local variables.

### ResultProcessor

`loop` and `finalizer` are the program counters of `Loop` and
`FinalizationLoop`, split wherever the other thread, the coordinator's actor or
`Stop` can act in between. A condition variable is modelled by its places: the
predicate is evaluated (`EvaluateWait`, `EvaluateAwait`, `EvaluateBarrier`,
`EvaluateRendezvous`), then the thread is blocked, and it leaves only by a
notification the code really sends. Where the notifier takes the same mutex the
evaluation and the blocking are one step; `Stop` does not take `wait_mutex_`, so
`blocking` and `asleep` are two. A thread in a callback goes through
`rendezvous`: `EnqueueActor`, the wait, and the actor's step, which is the body
of `RegisterCancellationCommitPending` or `RegisterCommittedCancellations`.
`runtime` follows `CoordinatorRuntime::Start` and `Stop`: the coordinator's actor
stops first, then the processor. `Crash` may come at any point; `Restart` keeps
the store only.

Abstractions:

- The store is a processing state per job and the job that requested its active
  cancellation. `Finalize` is one finalization of the batch with its three
  outcomes (applied, rejected by a conflict after some of its requests were
  entered, retry with or without attempts left). Requests are not resolved here,
  so conflicts are more frequent than in the program.
- What a program decides is arbitrary: final or retry, with any cancellations of
  other jobs (a retry requests none). The bytes of the result, its outputs and
  its staging files are data.
- `result_finalization_delay` may be zero, so a queued batch may be taken at any
  time; the force flag only shortens the delay and is therefore left out.
- The availability flag is taken as exact here; its own races are the subject of
  `WorkAvailability`.
- A failing store or blob read during `Start` fails the start and is covered by a
  crash in `starting`.
- A hold is kept under the job whose finalization asked for it: the hold id is
  unique for it. The receipts of an applied finalization name the requested
  jobs, so the mismatch branch of `RegisterCommittedCancellations` is not reached.

### WorkerWorksets and WorksetReporting

Every handler of the worker's actor thread is one action; `turn` names the call a
handler still has to make before the actor returns to its mailbox (start the next
item, activate the workset, advance or finish the shutdown), so that a completion
of another thread can only come between turns, as in `ActorMain`. A package is in
one of four places: `pending_workset_staging`, `active_workset`,
`staged_workset`, `draining_worksets`. A workset that leaves the last, or needs no
draining, is forgotten (`ended`): its summary is published (`summarised`), or lost
if no outbound number can be issued, which nobody notices
(`WorkerRuntime.cpp:3695`, `Forget`). A failed activation of the derived state ends
an item that was never announced and whose workset is not Running
(`StartFailsCleanly`, with `announced` FALSE). An invocation is in "limbo" (accepted by
the runtime object and never given to ProgramRuntime), "executing", or
"finalizing": once `TakeFinishedExecution` has returned it, ProgramRuntime knows
no active invocation and rejects a cancellation, which is what makes
`execution_already_finished` unreachable with the real port. An output transaction
is a finalizer job per output; the finalizer thread completes or fails it at any
time.

`WorksetReporting` is the promise the coordinator is written against: each item of
an admitted workset is suppressed at the admission, or reported at most once, as
executed or as unstarted, or abandoned, which only a tainted or stopping session
may do; a summary is sent only when each item is accounted for. It does not promise
that a summary is sent, and acknowledgements are not part of it. The mapping reads
the reports from what was retained for publication, not from the packages.

Abstractions: the byte limit of the credits is the ledger's concern; the
savestate service accepts every abandon; the session is clean and idle between
invocations, since execution control is not modelled; a workset is promoted from
an acknowledgement only in states that are not reachable, so `Acknowledge` has no
such disjunct. Sink, finalizer and outside faults may all happen in the run.
`abandoned` remembers the items that left with their workset cancelled and without
a terminal; the contract allows that only of an unsound (tainted) session.

### DispatchCoordinator and JobCustody

Every event of the coordinator's actor is one action: scheduling and claim,
reconstruction, admission, the completions of submission, residence probe,
activation, draining and release, the worker's evidence, its loss and its
replacement, faults and containment, cancellations, the pause, the stages of the
shutdown. Between them act the threads that carry out its effects: coordination
I/O, the worker's mailbox, the persistence threads and the cancellation
mutations. A `DispatchRecord` keeps one pending effect with its stage (queued,
done with an outcome, waiting for a retry), as the code does, so that completions
come in any order. Only the completion of a claim is kept behind the applied
commands that the single I/O thread finished before it (`claim.before`): both go
through the one queue of the actor. `ReleaseDispatch`, `ContinueContainment`,
`MarkDispatchDraining`, `ReadyToRetire` are functions on records, because the code
calls them from several handlers.

The store and the worker appear as the coordinator sees them: a state per job and
dispatch with the guards of the transactions of `ExecutionDb`, and a process that
accepts one workset, starts and ends items, announces completion and summary, and
may be lost at any point. This worker always sends its summary: one that ran out
of outbound numbers would not, and its dispatch would be settled only when the
process goes. `JobCustody` says what the three promise together:
custody is taken by one dispatch, given to a worker, and returned, or the job
ended, only when no live worker executes it. The mapping takes `executing` from
the worker's process, not from what the coordinator believes.

Left out: the heartbeats of leases and their loss (they end in `ReleaseDispatch`,
which is modelled from its other callers), byte and item credits (one slot, one
workset in the worker), progress events, the staging of result blobs (part of the
store call), retries of results, and diagnostics of cancellation delivery. Left out as
well are the faults for answers that the modelled store and worker never give: a
contract refused by the worker after its local validation, a wrong sidecar receipt,
evidence of a workset that was refused (`HandleSubmissionCompletion`), durable
authority lost at the activation (`HandleActivationIoCompletion`), and committed
cancellations that differ from their hold (`RegisterCommittedCancellations`).

### WorkflowSettlement

`instance`, `step`, `unit`, `mapped` (steps with a job set), `recorded` (outputs),
`bound` (input bindings), `blocked` and `activation` are the rows of one workflow;
each action that changes them is one transaction of
`SqliteWorkflowOrchestration`. `coord` is the place of the coordinator thread
between two of them, `batch` the snapshots a scan has read and not yet advanced,
`route` the local state of `RouteTerminalStep`: the queue of sources, and the graph
as it was read for the current one. A user command or a crash can come between
any two steps. A snapshot keeps what was true when it was read. `cut` is history:
skipped steps whose own targets were never looked at.

The jobs of a step are seen through the counts of the settlement query: open, or
the class those counts give (`SUPERSEDED` is "settled, none succeeded"). What a
program does in `Continue` and in its transition is any of its dispositions. A
notification may be taken at any time after the settlement, or never. Clearing a
reason and the following `CompleteWorkflowStep` or `FailWorkflowInstance` are one
step: the reason is already NULL unless an earlier routing of the same step set it.

Every node has one unit with one step. With that, the branches
`GUARDED_TARGET_ACTIVE_WITHOUT_OUTPUT`, decision drift and the early return for an
unsettled unit are unreachable. Left out: dynamic steps, optional inputs,
pass-through outputs, workflows that are no graph, strict smoke mode, the attempt
limit of `RetryFailedStep` (bounded by `MaxCommands`), `WorkflowRecoveryService` and
`PauseWorkflowInstance`, which only tests call.

## 3. Runs

| Run | Question | States | Result |
|---|---|---|---|
| `ledger` | Do the ledger's bounds, order, reservation and identities hold when methods come in any order and the counters run out? | 9,211 | holds |
| `stream` | Do ledger, queue and reader together implement `TerminalDelivery`, does only a lost plain event fail the protocol, and is every retained terminal acknowledged in the end? | 61,083 | holds under fairness |
| `execution_db` | Do the store's invariants survive every order of transactions, with finalizations that cancel each other and a step that is parked, ended and reopened? | 708,245 | holds |
| `availability` | Does the cache converge, though rows are skipped by their generation and published out of order? | 409,580 | holds under fairness |
| `processor` | Are cancellations covered, finalizations final and announced, and results never lost silently, through any interleaving of the two threads, the actor, a failing transaction, and a stop or crash with restart? | 3,260,795 | holds |
| `processor_live` | Is every result finalized, and does `Stop` end? | 44,970 | holds under fairness, except for the two hangs of section 4 |
| `worksets` | Is a place kept for every terminal, is a workset in one place, does the worker implement `WorksetReporting`, and is every accepted item reported, through every order of commands, faults and completions? | 475,394 | holds under fairness |
| `dispatch` | Do coordinator, store and worker keep custody of a job, and is what was acknowledged durable, what was forgotten closed, what was cancelled on its way, with failing calls, a lost worker, faults and shutdown? | 2,110,174 | holds |
| `dispatch_live` | Is work handed to a worker settled, and does a shutdown recover, although the worker may die? | 337,809 | holds under fairness |
| `workflow` | Is routing sound, is an ended workflow quiet, and does a running one never stand still silently, with commands, stale snapshots, lost notifications and crashes between any two transactions? | 392,873 | holds under fairness, with the named exceptions |
| `stranded` | Is every pending result eventually claimed? | | violated: a finding |
| `evidence_order` | Is an item's start persisted before its terminal? | | violated: a finding |

Bounds, and why they are enough:

- `ledger`: three items with room for three terminals and four bytes (sizes 1
  and 2) reach a full table, a full byte account, growth and shrinkage; modulus 5
  exhausts both counters within a run.
- `stream`: a queue of two is full at once, so eviction, drop and stop all occur;
  a throw gives a retry of a terminal, or a lost event followed by a terminal.
- `execution_db`: a conflict that leaves earlier requests needs three jobs: one
  finalizing, one already being cancelled, one not. A budget of two, two
  dispatches, two worksets and one manual retry give claim, release, reclaim,
  finish, retry and reopen, with the other jobs at any stage. `DecidedStates`
  keeps one of the outcomes a program may name: the store treats them alike, and
  FAILED and INTERRUPTED are reached by other actions. Jobs are symmetric. They
  are of one step: a workset never mixes steps, and the other one would be one more
  reason for the flag to be up.
- `availability`, `stranded`: one writer beside the watcher and the processor
  already publishes out of order. Two results, one ready change; `GenerationLimit`
  exceeds the changes that can happen, so a wrap to 1 is not reached: in the code
  it is 2^63 - 1.
- `processor`: three results, claimed and finalized two at a time, give a full and
  a partial batch, a batch with an applied and a rejected item, a conflict that
  leaves earlier requests, and a finalization queued while another is reported.
  One restart follows a stop or a crash anywhere; one fault hits any transaction.
  Results are symmetric.
- `processor_live`: two results, no symmetry (liveness); a second one is enough
  for a wait behind another's finalization.
- `worksets`: two worksets of two items with two outputs and
  one retained terminal fewer than items: one workset runs while the next is
  staged, an item is cancelled before, during and after its neighbour's
  execution, one output fails while the other is outstanding, and the credits run
  out.
- `dispatch`: one job through two dispatch attempts and two worker processes, so
  that evidence, commands and completions of the first attempt meet the second;
  an evidence limit of one overflows at once.
- `dispatch_live`: two jobs in one workset or in two, one of them cancelled at any
  time, so that a workset is partly or wholly suppressed; one attempt each way. The
  worker may die at any time. The store answers: with a store that may always fail,
  the recovery at the shutdown may always fail too.
- `evidence_order`: one job, one process, no faults: nothing but the order.

- `workflow`: two roots settle in one scan and meet in a join with a guarded and an
  unguarded input, so that the routing of one finds the other active, failed,
  absent or missing; the step behind the join is skipped with it. One command of
  the user and one fault (a crash, a failing or rejecting program, a missing
  adapter) come at any point, in either order. Runs with two of each on a chain
  of three steps gave the same result.

Deadlock checking is off except in the runs of the availability signal: the
behaviours end when a counter is exhausted, the publisher has stopped, every job
has ended or the runtime is down, and the bounds end them too.

Fairness.

- `stream`: the actor serves its mailbox and retries unpublished terminals on
  every turn, and the publisher thread and the reader thread block only on an
  empty queue (weak fairness of their steps); an acknowledgement or a publication
  may be disabled and enabled again by other turns, and the mailbox is FIFO,
  hence strong fairness; the sink throws at most `MaxThrows` times.
- `availability`: every running thread is scheduled, and the watcher's `wait_for`
  times out again and again. Nothing is assumed of the writers.
- `processor_live`: both threads, the actor and the thread that stops the runtime
  are scheduled (weak fairness); nobody has to produce results, stop or restart.
  A pending result is claimed if claims go on (strong fairness): the store orders
  claims by the time the execution finished, so jobs that are retried queue up
  behind it.
- `worksets`: the stager, ProgramRuntime and the finalizer finish what
  they were given, the actor serves its mailbox, and the coordinator acknowledges
  what it receives (weak fairness). Nothing is assumed of submissions,
  cancellations, shutdowns or faults.
- `dispatch_live`: every queue of the coordinator is served, the worker goes on
  with its items, and a worker told to retire, or stopped by the shutdown, exits
  (weak fairness). The store answers. Nobody has to cancel, to clear a pause or to
  stop the coordinator.

- `workflow`: the coordinator goes on with a call it has begun and its periodic
  scan comes again and again (weak fairness); a ready step is polled in the same
  loop, also when a settlement is repeated for ever (strong fairness); jobs of a
  MATERIALIZED step can be claimed and settle. Nothing is assumed of the user, of
  notifications or of the registry of programs.

Each property has a mutant in `PROJECT.json`: a definition marked "Defect" that
changes the modelled code as a plausible bug would, and that makes the property
fail in its run.

## 4. Findings

1. `stranded`. A subscriber can be left with an older snapshot than the cache.
   The processor claims the last result (row: no results) and is about to call
   its own callback; a worker terminal is staged and the writer publishes the
   newer generation and runs its callback; then the processor's callback runs
   and overwrites `availability_` with "no results". The watcher compares
   generations with the cache, which has the newest, and publishes nothing: the
   processor waits without a timeout until an unrelated change of the flags. The
   planning documents keep the periodic scan for exactly this
   (`planning/ExecutionRuntime/11-decisions-risks-and-deferred-work.md:121`, `:339`).
   The coordinator's ready signal uses the same subscription.
2. `evidence_order`. `HandleSubmissionCompletion` resets `mailbox->submitting`
   before the dispatch is activated. The start of an item that came during the
   submission is in the buffer that the activation empties; its terminal, coming
   between the answer and the activation, is queued at once, persisted first and
   rejected, and the fault pauses admission and retires a healthy worker. The
   evidence map says that the start is appended before the later ordered terminal
   (`planning/ExecutionRuntime/12-source-evidence-map.md:87`).

Behaviours the models show that contradict no statement of the repository, and
where the properties name them as exceptions:

- Shutdown. `RunOnActorAndWait` (`JobExecutionCoordinator.cpp:5443`) waits for
  "completed or stopping", but only the actor notifies that variable; and
  `ProgramResultProcessor::Stop` notifies `wait_cv_` (line 333) without its mutex.
  A loop thread about to block misses either and the join never returns.
  `StopEnds` leaves out exactly these two: the stops that find the loop thread
  between its predicate and its wait, and those during which a thread is blocked in
  the rendezvous. From every other place, asleep included, a stop ends, so these are
  the only two ways for it to hang.
- Worker, on its way into a taint: a summary sent without the terminals of items
  marked cancelled (`WorkerRuntime.cpp:4588`, `:3613`), which `WorksetReporting`
  calls abandoned; an item released while the
  finalizer still holds an abandoned job (`:4219`); a cancellation between the take
  of a finished execution and its terminal, which taints the worker (`:2688`); a
  start given up for want of an outbound number, which leaves `active_invocation`
  set with nothing running (`:2533`), the exception of
  `AcceptedReported`; a summary lost for the same reason (`:3695`).
- Store: the flag of the availability row ignores the step, so it stays up while a
  step that ended or failed has queued jobs, which the coordinator asks for again
  and again and cannot claim. A flag as strict as the query would be worse: a step
  that starts again would not raise it. `AvailabilityCovers` says both. The hold of
  a rejected finalization stays until the next start (`HoldsUndecided` allows it:
  the job is undecided).
- Coordinator: a release asked for while the worker owns the dispatch (evidence
  overflow `JobExecutionCoordinator.cpp:4217`, a lost lease `:7100`) waits for an
  exit that nobody requests; a worker lost while the draining or activation retry
  waits blocks the release for good (`:6144`, `:3725`); activation retries stop
  during a pause or the quiescence, so that the shutdown waits for them; a fault
  after the release leaves its containment on a closed record, and
  `ClearInvariantPause` is refused (`:1620`). `dispatch_live` has the bounds under
  which none of them arises; `dispatch` shows that custody survives all of them.
- A dispatch already DRAINING whose last item its sidecar cancels is not closed
  (`SqliteExecutionDb.cpp:6445`): the exception of `ForgottenIsClosed`. A job that
  is in two records is cancelled through the first one the hash map meets
  (`JobExecutionCoordinator.cpp:1749`): the exception of `CancellationOnItsWay`.
- Workflows. `CompleteWorkflowStep`, `SkipStep` and the others are separate
  transactions, and a settlement that is repeated does not make a step that is
  already SKIPPED a source again (`WorkflowGraphRoutingService.cpp:567`): after a
  crash between the skip of a step and the routing of its targets, those stay
  WAITING and the workflow RUNNING. A routing blocked by a missing output marks its
  activation APPLIED all the same (`WorkflowSettlementAdvancementService.cpp:717`),
  so that no scan repeats it. `RetryFailedStep` keeps `job_set_id`, and
  `ListReadySteps` lists only steps without one: the step is READY and never
  published. `FailWorkflowInstance` acts on a snapshot; if the user has requeued
  the failed jobs meanwhile, the step is FAILED again and the requeued jobs cannot
  be claimed. These are the exceptions in `NeedsAttention`. A guarded provider
  that FAILED counts as absent, so a target is SKIPPED though a retry may still
  deliver its input. After a cancellation, queued jobs of a MATERIALIZED step are
  still claimed (`SqliteExecutionDb.cpp:3220` asks for the step only, and
  `SqliteWorkflowOrchestration.cpp:1506` compares `job_set_id` with the id of the
  workflow), and CANCELLING ends only with a second cancellation.
- Membership. Release, recovery and retries move a job to a replacement workset,
  although the schema speaks of a single assignment.

## 5. Proofs

`WorkerEventStreamProofs`, the ledger (for every set of items, limits, byte sizes
and counter width): `TypeCorrect`, `TerminalOrder`, `RetryExclusive`,
`IdentityUnique`, `AccountExact`. The three properties about numbers are proved from
`LedgerInv`, which adds to them what makes them inductive: every identity in use (retained or a tombstone)
and every assigned or open sequence was issued by its counter, which means that it
lies below it or that the counter is exhausted (`NumbersIssued`); and a pending
terminal has no sequence while a published one has (`NumberedFromPublishing`).
`IncrementIssues` is the fact about modular increments
both counters rest on. `AccountExact` is `BytesAccounted`: the account is the sum of
the sizes of what is retained. The sum is a recursive definition over subsets that
takes a chosen element away; `SumExists` shows that the recursion defines something,
`SumUnique` that it defines one thing, `SumWithout` that any element may be taken
away instead of the chosen one, and `SumSame` that only the sizes matter, each by
looking at a least set for which it would fail (`LeastSubset`). With these each
method is a line of arithmetic; that reserving adds a terminal, and does not
overwrite one, needs `LedgerInv`.

`ExecutionDbProofs` (for every finite set of jobs and every bound):
`TypeCorrect`, `ItemsOwned`, `WorksetHandedOutOnce`, `RecoveryAgrees`,
`ResultsCoherent`, `EachEndCompletedOnce`, `BudgetKept`, `CancellationUnique`
and the action property `EndsStayFinal`. The inductive invariant `IInv` conjoins
the type, `UnfinishedOwned`, `OneOpenDispatch`, `OneActiveRequest` and `RowsOK`,
which says of each job row that state, processing, blob, attempts and completion
count fit together; a claimed row must have budget left and a running row a
started attempt, or starting and releasing would not preserve the rest. One
lemma per transaction (`ClaimStep`, `StageStep`, `CloseStep`, ...) shows that it
keeps `IInv`; `OwnedKept`, `OpenKept`, `RowsKept`, `LastItemCloses` are the facts
they share. `RecoveryAgrees` says that the recovery's authority check
("contradictory job authority") never fails. `QueuedStaysClaimable` and
`AvailabilityHidesNothing` count, and rest on a second invariant over `IInv`:
`StoreInv` adds that the workset of a queued job can be offered (it holds queued
jobs only, as many as it was published with, whatever the step is), that a workset
has jobs of one step, that no row names a workset that does not exist
(`WorksetsOK`), and that each flag of the availability row is true iff some job is
queued or some result is pending (`FlagsOK`). With the step running, offerable is
claimable; with the step elsewhere, the queued job is the reason why the flag is
up. The query of the row is about worksets, the changes are about jobs;
`OfferableHasQueued` and `ReadyIsQueued` show that under `WorksetsOK` the two
agree. The moves of a step change nothing that `StoreInv` speaks of.

`WorkerEventStreamProofs`, the stream (for every ledger bound, queue limit and counter
width): `SpecStreamTypeOK`, `SpecNoSpuriousProtocolFailure` and the refinement
`StreamImplementsDelivery` of `TerminalDelivery`. The stream numbers a plain event
by a reservation and its confirmation in one turn, so it is no client of the
ledger's own next-state relation; `StreamLedgerStep` carries `LedgerInv` over.
`StreamInv` adds what the actor holds in its hands (`InHand`), that what is queued
or was read had been sent (`QueueSent`, `ReaderSeen`), and the two facts that matter:
the numbers in the queue, and the terminals in it, are exactly those sent and not
yet read, ascending and without a gap (`NumbersFlow`, `TerminalsFlow`, over
`Gapless`). The lemmas `GaplessTail`, `GaplessAppend` and `GaplessDrop` say what
reading, sending and evicting a passive record do to such a queue. In the
refinement a handler turn is a step of the abstract delivery or a stutter
(`DeliveryStep`).

`ResultProcessorProofs` (for every set of jobs, batch size and any number of
faults, restarts and crashes): `SpecNoSilentLoss`, `SpecHoldsUndecided`,
`SpecCancellationsCovered`, `SpecFinalizationsAnnounced` and the action property
`SpecFinalizedOnce`. The two threads share a pipeline: the batch that the
finalization thread took, and the queue behind it. `ProcessorInv` says where a
job can be for each place of the two threads. It needs two facts that none of the
properties shows: a campaign claims only when the pipeline of the one before is
empty (`CampaignOver`, the purpose of the barrier), and the finalization that the
loop waits for is the last of the pipeline (`Awaited`, `Noticed`), so no job is in
two places (`OnePlace`). A committed batch is a fold over its items. That a
transaction exists, and what it leaves, is shown for a batch of any length by
looking at the first item at which it would fail (`LeastNat`), because induction
theorems are out of the provers' reach (`TransactionExists`, `TransactionAfter`).

`WorkerWorksetsProofs` (for every set of worksets, number of items, outputs and
limits): `SpecTerminalPlaceReserved`, `SpecUnstartedNeverRan`,
`SpecWorksetInOnePlace` and the refinement `WorksetsImplementReporting` of
`WorksetReporting`. `WorksetsInv` has the places of the worksets (`Places`), the
counts of the draining ones (`Counted`), the agreement of reports with the
packages' own sets (`Reported`), and what makes the others inductive: once an item
is cancelled without a terminal no item of its package is left to be started
(`Progress`), the invocation is that of the next item (`Invoked`), a started item
is executed or being executed (`Begun`), and the places taken or still needed by
terminals never exceed the limit (`Reserved`). Some thirty handlers disturb all of this at
once; the proof names what they have in common, a settlement (`Settles`): some open
items get their terminal, and each resident package stays with these terminals or
leaves with every item settled. The invariant and the contract's step follow for
settlements (`SettlementKeeps`), and a short lemma per handler shows that it is
one.

`DispatchCoordinatorProofs` (for every number of jobs, dispatches and worker
processes, and every capacity and evidence limit): `SpecCustodyInv`,
`SpecAckedIsDurable`, `SpecForgottenIsClosed` and the refinement
`CoordinatorKeepsCustody` of `JobCustody`.
The coordinator believes; the worker executes; the store decides. `CustodyInv` ties
the three. What a worker executes belongs to a dispatch the coordinator knows,
counts as the worker's and holds unfinished (`ExecutedKnown`); a pending effect is
one the owner of the dispatch may have (`EffectOwned` in `RecordsOK`), so a release
is in flight only when no worker can have the dispatch; a dispatch that has not
left the coordinator has no trace anywhere else (`Fresh`, `Untouched`, `UnseenOK`);
what a process reported ended it does not execute any more, also while the report
is on the wire or queued behind a store call (`ReportsOK`, `PersistOK`); what is
staged or acknowledged is finished in the store (`AcksOK`); what a sidecar cancels
is not executed (`SidecarsOK`). Most handlers leave nearly all of this alone, and
the proof says so once: `RecordKeeps`, `JobKeeps`, `WorkerKeeps`, `QueuesKeep` list
what a harmless step keeps, `KeepCustody` derives the invariant from them, and
`Quiet` is the change of a record that no worker or store can notice, under which
the pieces of the handlers (`ReleaseQuiet`, `ContainmentQuiet`, `DrainingQuiet`)
compose. There is a lemma per action; the ones with content are the end of a
submission, the acceptance of a workset, the loss of a worker, the persistence of
evidence and the release. The refinement then needs only the invariant
(`CustodyStep`).

`SpecForgottenIsClosed` says that what the coordinator dropped from its records,
by `MaybeRetire`, a release or a sidecar that cancelled the whole workset, needs no
restart to be closed. Its inductive invariant `ClosingInv` stands on `CustodyInv`:
an open attempt holds jobs and a closed one none (`AttemptsOK`); a record names all
that its attempt holds and is never ahead of the store, so it is drained or closed
only when the attempt is (`RecordMarked`); what the coordinator and the store call
resolved or persisted has ended, and an ended job never changes again
(`RequestsOK`, `EndedStays`); nothing happens to a claim before its completion is
handled (`ClaimHolds`). One fact is easy to miss: a workset of which everything is
suppressed was never submitted, hence its attempt is never `DRAINING`, and its
sidecars close it instead of a release. A handler that only changes records is
shown to change them calmly (`Calm`); one that forgets a dispatch must find it
settled (`RetiredIsSettled`, `CancelledIsSettled`); the store's transactions keep
the invariant for the attempt they move and leave the others alone.

`DispatchCancellationProofs` (for the same constants): `SpecCancellationOnItsWay`
follows a cancellation from its commit to the worker. The heart of `CancelInv`, over `ClosingInv`, is `ToldOK`: a registered cancellation of an
unfinished job waits for the activation of the job's dispatch, or is in the mailbox
of the worker that has it. Nothing drops it on the way: an active request is held
back or in the index, which forgets only what the store resolved
(`RequestsIndexed`), and the mailbox belongs to the process that is up
(`MailboxLive`). What makes this inductive is that the handlers find the job under
the right dispatch although the store moves it before they hear of it. A dispatch
that lost its process is the coordinator's for good (`LostForGood`) and owns its jobs
until its release is applied (`JobsBound`). Between that and the completion the jobs
may be claimed again, hence be in two records; the completion of the claim comes
after that of the release (`ClaimBehind`), because the actor takes store completions
in the order of the commits. A step that changes records mildly (`Mild`) keeps all
this (`StepStays`); a lemma per action (`...Tells`) shows that it is mild, or treats
the record it changes otherwise: the claim, the end of a submission, the
registration, the fault and the loss of a worker.

The same module proves `SpecCommandsAttended`: a submission or residence command that
is pending is in the mailbox of the process its dispatch is bound to, and this
process is up, or the message of its loss, which ends the command, is still to be
handled. It is the safety half of `ShutdownRecovers`: a command that a lost mailbox
took along would hold the shutdown for ever. Its invariant `AttendInv` needs of
`CustodyInv` little more than the types, and `LaneAttended`: a lane with a process is
attended as well. No run lists it, but TLC found `LaneAttended` and
`CommandsAttended` to hold on the instance of `dispatch`, and `CommandsAttended` to
fail there when `HandleWorkerUnavailable` leaves the effect of a lost dispatch
pending.

`WorkflowSettlementProofs` (for every graph of steps, and any jobs): `SpecFlowSound`
and the action property `SpecEndedStaysQuiet`. `FlowInv` carries along what the
place of the coordinator between two transactions says about the step it works on,
whose state the user may change meanwhile (`PublishedStep`, `SettledWork`), that a
snapshot with a good outcome is never stale, and that outputs are recorded whole,
by work that succeeded (`OutputsWhole`). There is a lemma per transaction.

All inductive invariants were model-checked on the instances of section 3 before
they were proved.

Assumptions: only the named `ASSUME`s on the constants. TLC evaluates them in
every run.

Only model-checked:

- every liveness property: `TerminalsAcknowledged`, `CacheConverges`,
  `ResultsFinalized`, `StopEnds`, `AcceptedReported`, `HandedOutSettles`,
  `ShutdownRecovers`, `NeverSilentlyStuck` (fairness and ENABLED are out of the
  prover's reach). `CacheConverges` is the only property of `WorkAvailability`.

Every invariant and every action property that a passing run checks has a theorem.

## 6. Plan

1. `OutboxRelay`, `DbLanes` (queue, limits, stop), `BlobCleanup`.
2. `SessionResources`, `InputArbitration`, `StopPoints`.
3. Dynamic steps and the expansion of workflows, over `WorkflowSettlement`.

## 7. Not modelled

The program runtime and its verifier, the game programs, capture formats,
migrations, the desktop application and the read models are sequential data
transformations or I/O without protocol of their own; `PROJECT.json` gives the
reason for each. Emulator behaviour is external to all modules.
