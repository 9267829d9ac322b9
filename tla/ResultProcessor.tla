---------------------------- MODULE ResultProcessor ----------------------------
(***************************************************************************)
(* ProgramResultProcessor between the execution store and the job          *)
(* execution coordinator: its two threads (Loop and FinalizationLoop), the *)
(* queue between them, the holds it asks the coordinator for before a      *)
(* cancellation is committed, and start, stop and crash of the runtime     *)
(* that owns both (CoordinatorRuntime).                                    *)
(*                                                                         *)
(* The store is reduced to what the processor tells apart: the processing  *)
(* state of a job's result, and who has requested the cancellation of a    *)
(* job. ExecutionDb has the transactions in full.                          *)
(***************************************************************************)
EXTENDS Integers, Sequences, FiniteSets

CONSTANTS
    Jobs,
    NoJob,
    ClaimBatch,         \* config: result_claim_batch_size
    FinalizationBatch,  \* config: result_finalization_batch_size
    MaxFaults,          \* bound: failed transactions
    MaxRestarts         \* bound: starts after the first

ASSUME ProcessorAssumption ==
    /\ NoJob \notin Jobs
    /\ {ClaimBatch, FinalizationBatch} \subseteq Nat \ {0}
    /\ {MaxFaults, MaxRestarts} \subseteq Nat

Threads == {"loop", "finalizer"}

(* A PendingFinalization: its job, whether the job is to run again, and    *)
(* the jobs whose cancellation it requests.                                *)
Items == [job : Jobs, retry : BOOLEAN, targets : SUBSET Jobs]

VARIABLES
    (* the store *)
    row,         \* the result of each job: "none" until it is staged (again), its
                 \* result_processing_state, "EXHAUSTED" when no attempt was left to retry
    request,     \* who requested the active cancellation of each job
    (* the loop thread *)
    loop,        \* where it is
    claimed,     \* jobs of its batch (at Start: interrupted ones) still to be handled
    full,        \* the batch had result_claim_batch_size jobs
    current,     \* the finalization being enqueued or waited for, if any
    result,      \* completed and succeeded of the current one
    (* the finalization thread *)
    finalizer,   \* where it is
    queue,       \* finalization_queue_
    batch,       \* the finalizations it has taken and not yet reported
    applied,     \* the jobs of the batch whose finalization was applied
    (* what both tell others *)
    error,       \* last_error_ is set
    canaries,    \* processing_canaries_
    announced,   \* jobs whose finalization the workflow coordinator knows of
    (* the coordinator and the runtime *)
    holds,       \* pending_cancellation_holds_, by the job that finalizes
    indexed,     \* committed_cancellations_by_job_
    rendezvous,  \* where each thread is in RunOnActorAndWait
    runtime,     \* where CoordinatorRuntime is in Start and Stop
    faults, restarts

storeVars == <<row, request>>
loopVars == <<loop, claimed, full, current>>
finalizerVars == <<finalizer, batch, applied>>
coordinatorVars == <<holds, indexed>>
boundVars == <<faults, restarts>>
vars == <<storeVars, loopVars, result, finalizerVars, queue, error, canaries, announced,
          coordinatorVars, rendezvous, runtime, boundVars>>

ProcessorTypeOK ==
    /\ row \in [Jobs -> {"none", "PENDING", "PROCESSING", "PROCESSED", "EXHAUSTED"}]
    /\ request \in [Jobs -> Jobs \cup {NoJob}]
    /\ loop \in {"start", "wait", "blocking", "asleep", "claim", "process", "hold", "push",
                 "await", "awaiting", "barrier", "flushing", "done"}
    /\ claimed \subseteq Jobs
    /\ full \in BOOLEAN
    /\ current \subseteq Items /\ Cardinality(current) <= 1
    /\ result \in {"none", "ok", "failed"}
    /\ finalizer \in {"wait", "commit", "failed", "report", "deliver", "done"}
    /\ {queue, batch} \subseteq Seq(Items)
    /\ applied \subseteq Jobs
    /\ error \in BOOLEAN
    /\ canaries \in 0 .. Cardinality(Jobs)
    /\ announced \subseteq Jobs
    /\ holds \in [Jobs -> SUBSET Jobs]
    /\ indexed \subseteq Jobs
    /\ rendezvous \in [Threads -> {"idle", "enqueue", "queued", "blocked", "returned"}]
    /\ runtime \in {"starting", "up", "quiescing", "actorStop", "actorGone", "stop", "notified",
                    "down", "crashed"}
    /\ faults \in 0 .. MaxFaults
    /\ restarts \in 0 .. MaxRestarts

(* stop_ of the processor and stop_ of the coordinator. *)
Stopping == runtime \in {"stop", "notified", "down"}
ActorStopping == Stopping \/ runtime \in {"actorStop", "actorGone"}

InState(s) == {j \in Jobs : row[j] = s}

(* Steps that only move one party. *)
LoopTo(place) ==
    /\ loop' = place
    /\ UNCHANGED <<storeVars, claimed, full, current, result, finalizerVars, queue, error,
                   canaries, announced, coordinatorVars, rendezvous, runtime, boundVars>>

FinalizerTo(place) ==
    /\ finalizer' = place
    /\ UNCHANGED <<storeVars, loopVars, result, batch, applied, queue, error, canaries,
                   announced, coordinatorVars, rendezvous, runtime, boundVars>>

RendezvousTo(t, place) ==
    /\ rendezvous' = [rendezvous EXCEPT ![t] = place]
    /\ UNCHANGED <<storeVars, loopVars, result, finalizerVars, queue, error, canaries, announced,
                   runtime, boundVars>>

Init ==
    /\ row = [j \in Jobs |-> "none"]
    /\ request = [j \in Jobs |-> NoJob]
    /\ loop = "wait" /\ finalizer = "wait"
    /\ claimed = {} /\ full = FALSE /\ current = {} /\ result = "none"
    /\ queue = <<>> /\ batch = <<>> /\ applied = {}
    /\ error = FALSE /\ canaries = 0 /\ announced = {}
    /\ holds = [j \in Jobs |-> {}] /\ indexed = {}
    /\ rendezvous = [t \in Threads |-> "idle"]
    /\ runtime = "starting"
    /\ faults = 0 /\ restarts = 0

-----------------------------------------------------------------------------
(* The store *)

(* The job execution coordinator stages a worker terminal. *)
StageResult(j) ==
    /\ row[j] = "none"
    /\ runtime \in {"up", "quiescing"}
    /\ row' = [row EXCEPT ![j] = "PENDING"]
    /\ UNCHANGED <<request, loopVars, result, finalizerVars, queue, error, canaries, announced,
                   coordinatorVars, rendezvous, runtime, boundVars>>

(* Defect: a new request replaces an active one. *)
FinalizeReplacing(store, item, before, exhausted) ==
    [row |-> [store.row EXCEPT ![item.job] = IF item.retry THEN "none" ELSE "PROCESSED"],
     request |-> [t \in Jobs |-> IF t \in item.targets THEN item.job ELSE store.request[t]],
     applied |-> store.applied \cup {item.job}]

(* One finalization inside CommitResultFinalizationsBatch. A request that  *)
(* conflicts with an active one of another job rejects the finalization;   *)
(* requests entered before it (some of "before") stay. A retry fails the    *)
(* job if its attempts are exhausted.                                      *)
Finalize(store, item, before, exhausted) ==
    LET free == {t \in item.targets : store.request[t] \in {NoJob, item.job}}
        rejected == free # item.targets
        entered == IF rejected THEN free \cap before ELSE item.targets
        outcome == IF ~ item.retry THEN "PROCESSED"
                   ELSE IF item.job \in exhausted THEN "EXHAUSTED" ELSE "none"
    IN  [row |-> IF rejected THEN store.row ELSE [store.row EXCEPT ![item.job] = outcome],
         request |-> [t \in Jobs |-> IF t \in entered THEN item.job ELSE store.request[t]],
         applied |-> IF rejected THEN store.applied ELSE store.applied \cup {item.job}]

Fault ==
    /\ faults < MaxFaults
    /\ faults' = faults + 1
    /\ error' = TRUE
    /\ UNCHANGED restarts

-----------------------------------------------------------------------------
(* Loop: waiting *)

(* The predicate of wait_cv_, under wait_mutex_. *)
EvaluateWait ==
    /\ loop = "wait"
    /\ LoopTo(IF Stopping THEN "done"
              ELSE IF InState("PENDING") # {} THEN "claim" ELSE "blocking")

(* It was false: the thread blocks. *)
FallAsleep ==
    /\ loop = "blocking"
    /\ LoopTo("asleep")

(* The availability callback, which takes wait_mutex_; until Stop has      *)
(* ended the subscription.                                                 *)
Wake ==
    /\ loop = "asleep"
    /\ runtime # "notified"
    /\ InState("PENDING") # {}
    /\ LoopTo("wait")

-----------------------------------------------------------------------------
(* Loop: a drain campaign *)

(* processing_canaries_ counts the claimed jobs in. *)
CountedIn(S) == Cardinality(S)

(* ClaimExecutionFinishedJobsBatch; nothing claimed ends the campaign. *)
Claim ==
    /\ loop = "claim"
    /\ \E S \in SUBSET InState("PENDING") :
        /\ \/ Cardinality(S) = ClaimBatch
           \/ S = InState("PENDING") /\ Cardinality(S) < ClaimBatch
        /\ row' = [j \in Jobs |-> IF j \in S THEN "PROCESSING" ELSE row[j]]
        /\ canaries' = canaries + CountedIn(S)
        /\ claimed' = S
        /\ full' = (Cardinality(S) = ClaimBatch)
        /\ loop' = IF S = {} THEN "wait" ELSE "process"
    /\ UNCHANGED <<request, current, result, finalizerVars, queue, error, announced,
                   coordinatorVars, rendezvous, runtime, boundVars>>

ClaimFails ==
    /\ loop = "claim"
    /\ Fault
    /\ loop' = "wait"
    /\ UNCHANGED <<storeVars, claimed, full, current, result, finalizerVars, queue, canaries,
                   announced, coordinatorVars, rendezvous, runtime>>

(* Defect: one cancellation does not need a hold. *)
NeedsHoldForSeveral(item) == Cardinality(item.targets) > 1

(* cancellation_hold_id is assigned. *)
NeedsHold(item) == item.targets # {}

(* ProcessClaimed with a decision, and the beginning of                    *)
(* EnqueueFinalization: cancellations need a hold first.                   *)
Decide(j) ==
    /\ loop = "process"
    /\ j \in claimed
    /\ claimed' = claimed \ {j}
    /\ \E item \in Items :
        /\ item.job = j
        /\ j \notin item.targets
        /\ item.retry => item.targets = {}
        /\ current' = {item}
        /\ loop' = IF NeedsHold(item) THEN "hold" ELSE "push"
        /\ rendezvous' = [rendezvous EXCEPT !["loop"] =
                            IF NeedsHold(item) THEN "enqueue" ELSE "idle"]
    /\ UNCHANGED <<storeVars, full, result, finalizerVars, queue, error, canaries, announced,
                   coordinatorVars, runtime, boundVars>>

(* ProcessClaimed without one: RecordFailure commits FAILED by itself. *)
RecordFailure(j) ==
    /\ loop \in {"process", "start"}
    /\ j \in claimed
    /\ claimed' = claimed \ {j}
    /\ row' = [row EXCEPT ![j] = "PROCESSED"]
    /\ canaries' = canaries - 1
    /\ announced' = announced \cup {j}
    /\ UNCHANGED <<request, loop, full, current, result, finalizerVars, queue, error,
                   coordinatorVars, rendezvous, runtime, boundVars>>

(* RecordFailure is refused by the store: the job stays PROCESSING. *)
RecordFailureFails(j) ==
    /\ loop \in {"process", "start"}
    /\ j \in claimed
    /\ Fault
    /\ claimed' = claimed \ {j}
    /\ UNCHANGED <<storeVars, loop, full, current, result, finalizerVars, queue, canaries,
                   announced, coordinatorVars, rendezvous, runtime>>

(* EnqueueFinalization, once the coordinator has the hold. *)
HoldReturned ==
    /\ loop = "hold"
    /\ rendezvous["loop"] = "returned"
    /\ rendezvous' = [rendezvous EXCEPT !["loop"] = "idle"]
    /\ loop' = "push"
    /\ UNCHANGED <<storeVars, claimed, full, current, result, finalizerVars, queue, error,
                   canaries, announced, coordinatorVars, runtime, boundVars>>

(* The item enters the queue; one with cancellations is waited for.        *)
Push ==
    /\ loop = "push"
    /\ \E item \in current :
        /\ queue' = Append(queue, item)
        /\ loop' = IF item.targets = {} THEN "process" ELSE "await"
        /\ current' = IF item.targets = {} THEN {} ELSE current
    /\ result' = "none"
    /\ UNCHANGED <<storeVars, claimed, full, finalizerVars, error, canaries, announced,
                   coordinatorVars, rendezvous, runtime, boundVars>>

(* Defect: the campaign is given up without a word. *)
AwaitEndsSilently ==
    /\ current' = {}
    /\ loop' = IF result = "ok" THEN "process" ELSE "wait"
    /\ claimed' = IF result = "ok" THEN claimed ELSE {}
    /\ UNCHANGED <<storeVars, full, result, finalizerVars, queue, error, canaries, announced,
                   coordinatorVars, rendezvous, runtime, boundVars>>

(* WaitForFinalization: a finalization that was not applied, or a stop,    *)
(* ends the campaign with jobs of the batch unhandled.                     *)
AwaitEnds ==
    /\ current' = {}
    /\ IF result = "ok"
       THEN loop' = "process" /\ UNCHANGED <<claimed, error>>
       ELSE loop' = "wait" /\ claimed' = {} /\ error' = TRUE
    /\ UNCHANGED <<storeVars, full, result, finalizerVars, queue, canaries, announced,
                   coordinatorVars, rendezvous, runtime, boundVars>>

(* Its predicate is evaluated once before the thread blocks; Stop does not *)
(* notify this variable.                                                   *)
EvaluateAwait ==
    /\ loop = "await"
    /\ \/ (result # "none" \/ Stopping) /\ AwaitEnds
       \/ result = "none" /\ ~ Stopping /\ LoopTo("awaiting")

AwaitNotified ==
    /\ loop = "awaiting"
    /\ result # "none"
    /\ AwaitEnds

(* The whole batch is handled. *)
BatchHandled ==
    /\ loop = "process"
    /\ claimed = {}
    /\ LoopTo("barrier")

Drained == queue = <<>> /\ finalizer \in {"wait", "done"}

(* FlushFinalizationBarrier: only a full batch is followed by another one. *)
BarrierEnds ==
    \/ LoopTo("wait")
    \/ full /\ Drained /\ ~ Stopping /\ LoopTo("claim")

EvaluateBarrier ==
    /\ loop = "barrier"
    /\ \/ (Drained \/ Stopping) /\ BarrierEnds
       \/ ~ Drained /\ ~ Stopping /\ LoopTo("flushing")

BarrierNotified ==
    /\ loop = "flushing"
    /\ Drained
    /\ BarrierEnds

-----------------------------------------------------------------------------
(* FinalizationLoop *)

(* Defect: only a full batch is taken. *)
BatchFull == Len(queue) >= FinalizationBatch

(* A batch is taken when it is full, forced, or its delay has passed: the  *)
(* delay may be zero, so at any time.                                      *)
BatchDue == queue # <<>>

TakeBatch ==
    /\ finalizer = "wait"
    /\ BatchDue
    /\ LET count == IF Len(queue) < FinalizationBatch THEN Len(queue) ELSE FinalizationBatch
       IN  /\ batch' = SubSeq(queue, 1, count)
           /\ queue' = SubSeq(queue, count + 1, Len(queue))
    /\ applied' = {}
    /\ finalizer' = "commit"
    /\ UNCHANGED <<storeVars, loopVars, result, error, canaries, announced, coordinatorVars,
                   rendezvous, runtime, boundVars>>

(* The store after the batch, one finalization after the other. *)
Finalized(before, exhausted) ==
    LET after[i \in 0 .. Len(batch)] ==
          IF i = 0
          THEN [row |-> row, request |-> request, applied |-> {}]
          ELSE Finalize(after[i - 1], batch[i], {t \in Jobs : <<i, t>> \in before}, exhausted)
    IN  after[Len(batch)]

(* CommitResultFinalizationsBatch: one transaction. *)
CommitBatch ==
    /\ finalizer = "commit"
    /\ \E before \in SUBSET UNION {{i} \X batch[i].targets : i \in 1 .. Len(batch)},
         exhausted \in SUBSET {batch[i].job : i \in {k \in 1 .. Len(batch) : batch[k].retry}} :
        LET store == Finalized(before, exhausted)
        IN  /\ row' = store.row
            /\ request' = store.request
            /\ applied' = store.applied
    /\ finalizer' = "report"
    /\ UNCHANGED <<loopVars, result, batch, queue, error, canaries, announced, coordinatorVars,
                   rendezvous, runtime, boundVars>>

CommitFails ==
    /\ finalizer = "commit"
    /\ Fault
    /\ finalizer' = "failed"
    /\ UNCHANGED <<storeVars, loopVars, result, batch, applied, queue, canaries, announced,
                   coordinatorVars, rendezvous, runtime>>

(* The same batch again, until Stop: then all of it has failed. *)
RetryOrGiveUp ==
    /\ finalizer = "failed"
    /\ FinalizerTo(IF Stopping THEN "report" ELSE "commit")

(* An applied item with cancellations is first given to the coordinator.   *)
DeliverCancellations ==
    /\ finalizer = "report"
    /\ batch # <<>>
    /\ Head(batch).job \in applied /\ Head(batch).targets # {}
    /\ finalizer' = "deliver"
    /\ rendezvous' = [rendezvous EXCEPT !["finalizer"] = "enqueue"]
    /\ UNCHANGED <<storeVars, loopVars, result, batch, applied, queue, error, canaries,
                   announced, coordinatorVars, runtime, boundVars>>

(* processing_canaries_ counts the item down. *)
CountedOut(item) == item.job \in applied

(* Defect: a rejected finalization is announced too. *)
ToldAlways(item) == ~ item.retry
(* finalization_callback_ is called. *)
Told(item) == item.job \in applied /\ ~ item.retry

(* The rest of the report on one item: canary, callback, completion. *)
ReportItem ==
    LET item == Head(batch)
        ok == item.job \in applied
    IN  /\ batch # <<>>
        /\ \/ finalizer = "report" /\ (~ ok \/ item.targets = {})
           \/ finalizer = "deliver" /\ rendezvous["finalizer"] = "returned"
        /\ finalizer' = "report"
        /\ rendezvous' = [rendezvous EXCEPT !["finalizer"] = "idle"]
        /\ canaries' = IF CountedOut(item) THEN canaries - 1 ELSE canaries
        /\ announced' = IF Told(item) THEN announced \cup {item.job} ELSE announced
        /\ result' = IF item \in current THEN IF ok THEN "ok" ELSE "failed" ELSE result
        /\ batch' = Tail(batch)
        /\ UNCHANGED <<storeVars, loopVars, applied, queue, error, coordinatorVars, runtime,
                       boundVars>>

BatchReported ==
    /\ finalizer = "report"
    /\ batch = <<>>
    /\ FinalizerTo("wait")

FinalizerExits ==
    /\ finalizer = "wait"
    /\ Stopping /\ queue = <<>>
    /\ FinalizerTo("done")

-----------------------------------------------------------------------------
(* The coordinator: RunOnActorAndWait and the two callbacks *)

EnqueueActor(t) ==
    /\ rendezvous[t] = "enqueue"
    /\ RendezvousTo(t, IF ActorStopping THEN "returned" ELSE "queued")
    /\ UNCHANGED coordinatorVars

(* The predicate is evaluated once before the thread blocks; the           *)
(* coordinator's stop does not notify this variable.                       *)
EvaluateRendezvous(t) ==
    /\ rendezvous[t] = "queued"
    /\ RendezvousTo(t, IF ActorStopping THEN "returned" ELSE "blocked")
    /\ UNCHANGED coordinatorVars

ActorRuns(t) ==
    /\ runtime \in {"starting", "up", "quiescing", "actorStop"}
    /\ rendezvous[t] \in {"queued", "blocked"}
    /\ RendezvousTo(t, "returned")

(* Cancellations must not be admitted to a worker before they commit. *)
RegisterCancellationCommitPending ==
    /\ ActorRuns("loop")
    /\ \E item \in current : holds' = [holds EXCEPT ![item.job] = item.targets]
    /\ UNCHANGED indexed

(* Defect: the hold is not released. *)
RegisterKeepingHold ==
    /\ ActorRuns("finalizer")
    /\ indexed' = indexed \cup Head(batch).targets
    /\ UNCHANGED holds

(* They have committed: the hold becomes entries of the index. *)
RegisterCommittedCancellations ==
    /\ ActorRuns("finalizer")
    /\ indexed' = indexed \cup Head(batch).targets
    /\ holds' = [holds EXCEPT ![Head(batch).job] = {}]

-----------------------------------------------------------------------------
(* CoordinatorRuntime *)

ShutdownStep(from, to) ==
    /\ runtime = from
    /\ runtime' = to
    /\ UNCHANGED <<storeVars, claimed, full, current, result, finalizerVars, queue, error,
                   canaries, announced, coordinatorVars, rendezvous, boundVars>>

OpenCancellationAdmission ==
    /\ loop # "start"
    /\ ShutdownStep("starting", "up")
    /\ UNCHANGED loop

BeginShutdown == ShutdownStep("up", "quiescing") /\ UNCHANGED loop

(* FinishShutdownAfterWorkersStopped: stop_, and the actor's loop ends     *)
(* with whatever its queue still holds.                                    *)
StopActor == ShutdownStep("quiescing", "actorStop") /\ UNCHANGED loop
ActorExits == ShutdownStep("actorStop", "actorGone") /\ UNCHANGED loop

(* ProgramResultProcessor::Stop sets stop_, then notifies wait_cv_, both   *)
(* without wait_mutex_ ...                                                 *)
SetStop == ShutdownStep("actorGone", "stop") /\ UNCHANGED loop

(* Defect: nobody is notified of the stop. *)
StopUnannounced == ShutdownStep("stop", "notified") /\ UNCHANGED loop

NotifyStop ==
    /\ ShutdownStep("stop", "notified")
    /\ loop' = IF loop = "asleep" THEN "wait" ELSE loop

(* ... and joins both threads. *)
Joined ==
    /\ loop = "done" /\ finalizer = "done"
    /\ ShutdownStep("notified", "down")
    /\ UNCHANGED loop

Crash ==
    /\ restarts < MaxRestarts
    /\ ShutdownStep(runtime, "crashed")
    /\ runtime # "crashed"
    /\ UNCHANGED loop

(* A new runtime: the coordinator indexes the unresolved cancellations,    *)
(* the workflow coordinator reads the finalized jobs, and the processor    *)
(* lists the interrupted ones.                                             *)
Restart ==
    /\ runtime \in {"down", "crashed"}
    /\ restarts < MaxRestarts
    /\ restarts' = restarts + 1
    /\ runtime' = "starting"
    /\ loop' = "start" /\ claimed' = InState("PROCESSING") /\ full' = FALSE /\ current' = {}
    /\ result' = "none"
    /\ finalizer' = "wait" /\ queue' = <<>> /\ batch' = <<>> /\ applied' = {}
    /\ error' = FALSE
    /\ canaries' = Cardinality(InState("PROCESSING"))
    /\ announced' = InState("PROCESSED")
    /\ holds' = [j \in Jobs |-> {}]
    /\ indexed' = {t \in Jobs : request[t] # NoJob}
    /\ rendezvous' = [t \in Threads |-> "idle"]
    /\ UNCHANGED <<storeVars, faults>>

(* ReconcileInterruptedProcessing: a result whose blob is intact is        *)
(* processed again; any other is failed (RecordFailure).                   *)
ResetInterrupted(j) ==
    /\ loop = "start" /\ runtime = "starting"
    /\ j \in claimed
    /\ claimed' = claimed \ {j}
    /\ row' = [row EXCEPT ![j] = "PENDING"]
    /\ canaries' = canaries - 1
    /\ UNCHANGED <<request, loop, full, current, result, finalizerVars, queue, error, announced,
                   coordinatorVars, rendezvous, runtime, boundVars>>

StartThreads ==
    /\ loop = "start" /\ runtime = "starting"
    /\ claimed = {}
    /\ LoopTo("wait")

-----------------------------------------------------------------------------

LoopStep ==
    /\ runtime \notin {"down", "crashed"}
    /\ \/ EvaluateWait \/ FallAsleep \/ Wake \/ Claim \/ ClaimFails
       \/ \E j \in Jobs : Decide(j) \/ RecordFailure(j) \/ RecordFailureFails(j)
                          \/ ResetInterrupted(j)
       \/ HoldReturned \/ Push \/ EvaluateAwait \/ AwaitNotified
       \/ BatchHandled \/ EvaluateBarrier \/ BarrierNotified \/ StartThreads

FinalizerStep ==
    /\ loop # "start" /\ runtime \notin {"down", "crashed"}
    /\ \/ TakeBatch \/ CommitBatch \/ CommitFails \/ RetryOrGiveUp
       \/ DeliverCancellations \/ ReportItem \/ BatchReported \/ FinalizerExits

RendezvousStep(t) ==
    /\ runtime \notin {"down", "crashed"}
    /\ EnqueueActor(t) \/ EvaluateRendezvous(t)

ActorStep == RegisterCancellationCommitPending \/ RegisterCommittedCancellations

RuntimeStep ==
    \/ OpenCancellationAdmission
    \/ StopActor \/ ActorExits \/ SetStop \/ NotifyStop \/ Joined

Next ==
    \/ \E j \in Jobs : StageResult(j)
    \/ LoopStep
    \/ FinalizerStep
    \/ \E t \in Threads : RendezvousStep(t)
    \/ ActorStep
    \/ RuntimeStep
    \/ BeginShutdown
    \/ Crash
    \/ Restart

Spec == Init /\ [][Next]_vars

(* Every thread is scheduled, and results are claimed in the order in      *)
(* which their executions finished: one that is pending is not passed over *)
(* for ever by jobs that are retried. Results need not come, and nobody    *)
(* has to stop or restart the runtime; a shutdown that has begun goes on.  *)
Fairness ==
    /\ WF_vars(LoopStep)
    /\ \A j \in Jobs : SF_vars(Claim /\ row[j] = "PENDING" /\ row'[j] = "PROCESSING")
    /\ WF_vars(FinalizerStep)
    /\ \A t \in Threads : WF_vars(RendezvousStep(t))
    /\ WF_vars(RegisterCancellationCommitPending)
    /\ WF_vars(RegisterCommittedCancellations)
    /\ WF_vars(RuntimeStep)

FairSpec == Spec /\ Fairness
-----------------------------------------------------------------------------
(* Properties *)

(* "Dispatch is intentionally impossible until cancellation recovery and   *)
(* both callback directions are live" (CoordinatorRuntime::Start), and     *)
(* later a hold covers a cancellation from before its commit until it is   *)
(* indexed: the coordinator never admits a job to a worker whose           *)
(* cancellation is committed and which it has not been told of.            *)
CancellationsCovered ==
    runtime = "up" =>
        \A t \in Jobs : request[t] # NoJob => t \in indexed \/ \E j \in Jobs : t \in holds[j]

(* A hold keeps other work from the workers: it is there only while its    *)
(* finalization is still undecided, rejected, or applied and just being    *)
(* reported.                                                               *)
HoldsUndecided ==
    \A j \in Jobs : holds[j] # {} =>
        \/ row[j] = "PROCESSING"
        \/ \E i \in 1 .. Len(batch) : batch[i].job = j
        \/ ActorStopping \/ runtime = "crashed"

(* Jobs whose result one of the threads has in hand. *)
InHand == claimed \cup {item.job : item \in current}
          \cup {queue[i].job : i \in 1 .. Len(queue)} \cup {batch[i].job : i \in 1 .. Len(batch)}

(* A claimed result that no thread has in hand any more stays PROCESSING   *)
(* until the next start. That must not happen silently: some error was     *)
(* recorded, or the processor was stopped or died.                         *)
NoSilentLoss ==
    \A j \in InState("PROCESSING") :
        j \in InHand \/ error \/ Stopping \/ runtime = "crashed"

(* The workflow coordinator learns of every job finalized in this run of   *)
(* the program, after the commit and never before it; of an exhausted      *)
(* retry it learns by its own scan only.                                   *)
FinalizationsAnnounced ==
    runtime # "crashed" =>
        /\ announced \subseteq InState("PROCESSED")
        /\ \A j \in InState("PROCESSED") \ announced :
              \E i \in 1 .. Len(batch) : batch[i].job = j

(* A finalized result stays finalized and a request stays with the job     *)
(* that entered it, through retried batches, rejections and restarts.      *)
FinalizedOnce ==
    [][\A j \in Jobs : /\ row[j] \in {"PROCESSED", "EXHAUSTED"} => row'[j] = row[j]
                       /\ request[j] # NoJob => request'[j] = request[j]]_vars

(* Every staged result is finalized, or sent back to be executed again,    *)
(* unless something failed or the processor is stopped.                    *)
ResultsFinalized ==
    \A j \in Jobs : row[j] = "PENDING" ~>
        \/ row[j] \in {"none", "PROCESSED", "EXHAUSTED"}
        \/ error \/ runtime \notin {"starting", "up"}

(* A stop ends, wherever it finds the threads - waiting for results,       *)
(* asleep, in the middle of a campaign, committing, retrying a failed      *)
(* commit - with two exceptions: the loop thread had evaluated the         *)
(* predicate of its availability wait before stop_ was set and had not     *)
(* blocked yet, so that it may sleep through the notification; or a thread *)
(* is blocked in a rendezvous with an actor that has left.                 *)
StopEnds ==
    runtime = "stop" /\ loop # "blocking" ~>
        \/ runtime \in {"down", "crashed"}
        \/ \E t \in Threads : rendezvous[t] = "blocked"

=============================================================================
