--------------------------- MODULE WorkAvailability ---------------------------
(***************************************************************************)
(* How the result processor learns that there is work: the availability    *)
(* row the execution store keeps, the cached copy and the callbacks of     *)
(* QueuedExecutionDb, and the wait loop of ProgramResultProcessor.         *)
(*                                                                         *)
(* Every thread that runs a transaction refreshes the cache itself when    *)
(* the transaction is done: it reads the row, stores it under              *)
(* availability_mutex_ unless the cache has that generation already, and   *)
(* calls the subscribers after it has released the mutex. So does the      *)
(* watcher thread, periodically. Each of the three is one step.            *)
(*                                                                         *)
(* Left out: what is done with a claimed result (ExecutionDb has it), the  *)
(* other subscriber, the shutdown.                                         *)
(***************************************************************************)
EXTENDS Integers, FiniteSets

CONSTANTS
    Writers,          \* threads that stage results and change the ready flag
    Watcher,          \* the thread of AvailabilityWatcherLoop
    Processor,        \* the thread of ProgramResultProcessor
    ClaimBatch,       \* config: result_claim_batch_size
    GenerationLimit,  \* the last generation, 2^63 - 1
    MaxResults,       \* bound: results ever staged
    MaxReadyChanges   \* bound: changes of the ready flag

Threads == Writers \cup {Watcher, Processor}

ASSUME AvailabilityAssumption ==
    /\ Watcher # Processor /\ {Watcher, Processor} \cap Writers = {}
    /\ {ClaimBatch, GenerationLimit} \subseteq Nat \ {0}
    /\ {MaxResults, MaxReadyChanges} \subseteq Nat

VARIABLES
    pending,       \* jobs in EXECUTION_FINISHED / PENDING
    row,           \* the row of exec_work_availability
    last,          \* last_execution_work_availability_
    phase,         \* where each thread is in RefreshExecutionWorkAvailability
    snapshot,      \* the row each thread has read
    subscribed,    \* the processor's callback is registered
    availability,  \* availability_ of the processor
    loop,          \* where the processor is in Start and Loop
    observed,      \* observed_generation
    claimed,       \* size of the batch it claimed last
    staged,        \* results staged so far
    readyChanges   \* changes of the ready flag so far

refreshVars == <<last, phase, snapshot>>
processorVars == <<subscribed, availability, loop, observed, claimed>>
vars == <<pending, row, refreshVars, processorVars, staged, readyChanges>>

Snapshot == [generation : 1 .. GenerationLimit, ready : BOOLEAN, results : BOOLEAN]

AvailabilityTypeOK ==
    /\ pending \in 0 .. MaxResults
    /\ {row, last, availability} \subseteq Snapshot
    /\ phase \in [Threads -> {"idle", "read", "publish", "callback"}]
    /\ snapshot \in [Threads -> Snapshot]
    /\ subscribed \in BOOLEAN
    /\ loop \in {"subscribe", "read", "write", "wait", "claim", "process"}
    /\ observed \in 1 .. GenerationLimit
    /\ claimed \in 0 .. ClaimBatch
    /\ staged \in 0 .. MaxResults
    /\ readyChanges \in 0 .. MaxReadyChanges

Init ==
    /\ pending \in 0 .. IF MaxResults = 0 THEN 0 ELSE 1
    /\ row = [generation |-> 1, ready |-> FALSE, results |-> pending > 0]
    /\ last = row
    /\ phase = [t \in Threads |-> "idle"]
    /\ snapshot = [t \in Threads |-> row]
    /\ subscribed = FALSE
    /\ availability = [generation |-> 1, ready |-> FALSE, results |-> FALSE]
    /\ loop = "subscribe"
    /\ observed = 1
    /\ claimed = 0
    /\ staged = pending
    /\ readyChanges = 0

-----------------------------------------------------------------------------
(* Transactions *)

(* Defect: only results count as a change. *)
RowAfterResultsOnly(ready, results) ==
    [generation |-> IF results = row.results THEN row.generation ELSE row.generation + 1,
     ready |-> ready, results |-> results]

(* The last statement of a transaction: the generation moves only when one *)
(* of the two flags does.                                                  *)
RowAfter(ready, results) ==
    IF ready = row.ready /\ results = row.results THEN row
    ELSE [generation |-> IF row.generation = GenerationLimit THEN 1 ELSE row.generation + 1,
          ready |-> ready, results |-> results]

EnterRefresh(t) ==
    /\ phase[t] = "idle"
    /\ phase' = [phase EXCEPT ![t] = "read"]
    /\ UNCHANGED <<last, snapshot>>

(* PersistWorkerExecutionEventsBatch with one terminal. *)
StageResult(t) ==
    /\ staged < MaxResults
    /\ staged' = staged + 1
    /\ pending' = pending + 1
    /\ row' = RowAfter(row.ready, TRUE)
    /\ EnterRefresh(t)
    /\ UNCHANGED <<processorVars, readyChanges>>

(* A claim, a publication, a release, a retry: worksets become ready or    *)
(* none is left.                                                           *)
ChangeReady(t) ==
    /\ readyChanges < MaxReadyChanges
    /\ readyChanges' = readyChanges + 1
    /\ row' = RowAfter(~ row.ready, row.results)
    /\ EnterRefresh(t)
    /\ UNCHANGED <<pending, processorVars, staged>>

-----------------------------------------------------------------------------
(* RefreshExecutionWorkAvailability *)

(* The watcher's interval has passed. *)
Watch ==
    /\ EnterRefresh(Watcher)
    /\ UNCHANGED <<pending, row, processorVars, staged, readyChanges>>

GetExecutionWorkAvailability(t) ==
    /\ phase[t] = "read"
    /\ snapshot' = [snapshot EXCEPT ![t] = row]
    /\ phase' = [phase EXCEPT ![t] = "publish"]
    /\ UNCHANGED <<pending, row, last, processorVars, staged, readyChanges>>

(* Under availability_mutex_. *)
PublishExecutionWorkAvailability(t) ==
    /\ phase[t] = "publish"
    /\ \/ /\ last.generation = snapshot[t].generation
          /\ phase' = [phase EXCEPT ![t] = "idle"]
          /\ UNCHANGED last
       \/ /\ last.generation # snapshot[t].generation
          /\ last' = snapshot[t]
          /\ phase' = [phase EXCEPT ![t] = IF subscribed THEN "callback" ELSE "idle"]
    /\ UNCHANGED <<pending, row, snapshot, processorVars, staged, readyChanges>>

(* No longer under it: the callback overwrites availability_ and notifies. *)
Callback(t) ==
    /\ phase[t] = "callback"
    /\ availability' = snapshot[t]
    /\ phase' = [phase EXCEPT ![t] = "idle"]
    /\ UNCHANGED <<pending, row, last, snapshot, subscribed, loop, observed, claimed,
                   staged, readyChanges>>

-----------------------------------------------------------------------------
(* ProgramResultProcessor *)

(* Start: the subscription is entered under the mutex, and its initial     *)
(* callback made after it.                                                 *)
Subscribe ==
    /\ loop = "subscribe"
    /\ subscribed' = TRUE
    /\ snapshot' = [snapshot EXCEPT ![Processor] = last]
    /\ phase' = [phase EXCEPT ![Processor] = "callback"]
    /\ loop' = "read"
    /\ UNCHANGED <<pending, row, last, availability, observed, claimed, staged, readyChanges>>

(* Start, after the initial callback: the row is read once more ... *)
StartRead ==
    /\ loop = "read" /\ phase[Processor] = "idle"
    /\ snapshot' = [snapshot EXCEPT ![Processor] = row]
    /\ loop' = "write"
    /\ UNCHANGED <<pending, row, last, phase, subscribed, availability, observed, claimed,
                   staged, readyChanges>>

(* ... and replaces whatever the callbacks have brought since. *)
StartWrite ==
    /\ loop = "write"
    /\ availability' = snapshot[Processor]
    /\ loop' = "wait"
    /\ UNCHANGED <<pending, row, refreshVars, subscribed, observed, claimed, staged, readyChanges>>

(* Loop: wait_cv_ has no timeout. *)
Wake ==
    /\ loop = "wait"
    /\ availability.results
    /\ observed' = availability.generation
    /\ loop' = "claim"
    /\ UNCHANGED <<pending, row, refreshVars, subscribed, availability, claimed, staged,
                   readyChanges>>

(* ProcessDrainCampaign: ClaimExecutionFinishedJobsBatch and its refresh. *)
Claim ==
    /\ loop = "claim"
    /\ claimed' = IF pending < ClaimBatch THEN pending ELSE ClaimBatch
    /\ pending' = pending - claimed'
    /\ row' = RowAfter(row.ready, pending' > 0)
    /\ EnterRefresh(Processor)
    /\ loop' = "process"
    /\ UNCHANGED <<subscribed, availability, observed, staged, readyChanges>>

(* The batch is processed and finalized; after a full one Loop goes on     *)
(* unless it has seen, in the generation it knew, that there are no more.  *)
Process ==
    /\ loop = "process" /\ phase[Processor] = "idle"
    /\ LET goOn == /\ claimed = ClaimBatch
                   /\ availability.results \/ availability.generation # observed
       IN  /\ loop' = IF goOn THEN "claim" ELSE "wait"
           /\ observed' = IF goOn THEN availability.generation ELSE observed
    /\ UNCHANGED <<pending, row, refreshVars, subscribed, availability, claimed, staged,
                   readyChanges>>

-----------------------------------------------------------------------------

RefreshStep(t) ==
    \/ GetExecutionWorkAvailability(t)
    \/ PublishExecutionWorkAvailability(t)
    \/ Callback(t)

ProcessorStep == Subscribe \/ StartRead \/ StartWrite \/ Wake \/ Claim \/ Process

Next ==
    \/ \E t \in Writers : StageResult(t) \/ ChangeReady(t)
    \/ Watch
    \/ \E t \in Threads : RefreshStep(t)
    \/ ProcessorStep

(* Every running thread is scheduled, and the watcher wakes up again and   *)
(* again. New results and new worksets may stop coming.                    *)
Fairness ==
    /\ \A t \in Threads : WF_vars(RefreshStep(t))
    /\ WF_vars(Watch)
    /\ WF_vars(ProcessorStep)

FairSpec == Init /\ [][Next]_vars /\ Fairness

-----------------------------------------------------------------------------
(* Properties *)

(* Threads that publish out of order can put an old row into the cache;    *)
(* the watcher repairs it, and once the changes stop the cache is the row. *)
CacheConverges == <>[](last = row)

(* What the periodic scan is there for: no result stays unclaimed because  *)
(* a notification was missed or overtaken.                                 *)
ResultsProcessed == pending > 0 ~> pending = 0

=============================================================================
