----------------------------- MODULE ExecutionDb -----------------------------
(***************************************************************************)
(* The durable execution store (SqliteExecutionDb.cpp): worksets of jobs,  *)
(* the dispatch attempts under which workers execute them, worker          *)
(* terminals waiting for result processing, and cancellation requests.     *)
(* Every action is one transaction. Its callers - the dispatch             *)
(* coordinator, the result processor, the workflow coordinator, a restart, *)
(* a manual retry - run concurrently and may repeat or delay a command, so *)
(* a command names the dispatch it was issued for; one that no longer      *)
(* applies changes nothing.                                                *)
(*                                                                         *)
(* Left out: priorities (any claimable workset may be claimed), leases,    *)
(* outputs, event rows other than JobCompleted, item ordinals (replaced    *)
(* worksets renumber their items from zero), the states of a step before   *)
(* its first worksets are published, and the cancellation of a workflow as *)
(* far as it writes jobs and requests (CancelWorkflowInstance cancels      *)
(* queued jobs whose job_set_id is the id of the workflow, without         *)
(* JobCompleted or a refresh, and requests the cancellation of the claimed *)
(* ones). The final states SUPERSEDED and SUCCEEDED_* behave as CANCELED   *)
(* and SUCCEEDED. NULL ids are 0.                                          *)
(***************************************************************************)
EXTENDS Integers, FiniteSets, Sequences

CONSTANTS
    Jobs,
    Steps,            \* workflow steps that published them
    StepOf,           \* the step of a job: exec_job.job_set_id, which never changes
    FirstWorksets,    \* worksets published at the start
    MaxAttempts,      \* max_attempts of a published job
    DecidedStates,    \* final states a program's decision may name
    MaxWorksets,      \* bound: worksets ever created
    MaxDispatches,    \* bound: dispatch attempts ever made
    MaxReopens,       \* bound: manual retries of one job
    MaxCancellations  \* bound: cancellation requests ever entered

ASSUME DbAssumption ==
    /\ IsFiniteSet(Jobs)
    /\ StepOf \in [Jobs -> Steps]
    /\ DecidedStates \subseteq {"SUCCEEDED", "FAILED", "CANCELED", "INTERRUPTED"}
    /\ {FirstWorksets, MaxAttempts} \subseteq Nat \ {0}
    /\ {MaxWorksets, MaxDispatches, MaxReopens, MaxCancellations} \subseteq Nat

VARIABLES
    job,         \* exec_job rows
    itemCount,   \* exec_workset.item_count, by workset id
    dispatches,  \* exec_workset_dispatch_attempt rows, by attempt id
    request,     \* request[j][c]: the request finalizing c made against j
    available,   \* exec_work_availability
    step,        \* exec_workflow_step.state
    completions, \* Execution.JobCompleted.v1 events written, per job
    reopens      \* manual retries so far, per job

vars == <<job, itemCount, dispatches, request, available, step, completions, reopens>>

Unfinished == {"CLAIMED", "RUNNING"}
Final == {"SUCCEEDED", "FAILED", "CANCELED", "INTERRUPTED"}
JobStates == {"QUEUED", "EXECUTION_FINISHED"} \cup Unfinished \cup Final
OpenStates == {"CLAIMED", "ACTIVE", "DRAINING"}
Executing == {"ACTIVE", "DRAINING"}
ActiveRequest == {"REQUESTED", "DELIVERED"}

(* MATERIALIZED stands for RUNNING as well, ENDED for COMPLETED, SKIPPED    *)
(* and CANCELED.                                                           *)
StepStates == {"READY", "MATERIALIZED", "FAILED", "INTERRUPTED", "ENDED"}

(* reserved is the attempt number a claim sets aside; attempts moves only  *)
(* when the worker reports that the item started.                          *)
Job == [state : JobStates, attempts : Nat, max : Nat, workset : Nat,
        dispatch : Nat, token : Nat, reserved : Nat,
        processing : {"NULL", "PENDING", "PROCESSING", "PROCESSED"},
        blob : {"NULL", "LIVE", "DELETE_PENDING"}]

TypeOK ==
    /\ job \in [Jobs -> Job]
    /\ itemCount \in Seq(Nat)
    /\ dispatches \in Seq([workset : Nat, state : OpenStates \cup {"CLOSED"}])
    /\ request \in [Jobs -> [Jobs -> {"NONE", "RESOLVED"} \cup ActiveRequest]]
    /\ available \in [ready : BOOLEAN, results : BOOLEAN]
    /\ step \in [Steps -> StepStates]
    /\ completions \in [Jobs -> Nat]
    /\ reopens \in [Jobs -> Nat]

-----------------------------------------------------------------------------
(* Queries *)

JobsOf(w) == {j \in Jobs : job[j].workset = w}

(* Items of a dispatch whose worker terminal is not staged yet. *)
Held(d) == {j \in Jobs : job[j].dispatch = d /\ job[j].state \in Unfinished}

OpenDispatches == {d \in DOMAIN dispatches : dispatches[d].state \in OpenStates}

HasOpenDispatch(w) == \E d \in OpenDispatches : dispatches[d].workset = w

(* The worksets of a step are offered while it runs. *)
Live(s) == step[s] = "MATERIALIZED"

(* What the candidate query of ClaimPublishedWorksetBatch asks of a        *)
(* workset, its items and its dispatches.                                  *)
Offerable(w) ==
    /\ itemCount[w] > 0
    /\ Cardinality(JobsOf(w)) = itemCount[w]
    /\ \A j \in JobsOf(w) : job[j].state = "QUEUED" /\ job[j].attempts < job[j].max
    /\ ~ HasOpenDispatch(w)

(* The whole query: it joins the step as well. A workset has items of one  *)
(* step.                                                                   *)
Claimable(w) == Offerable(w) /\ \A j \in JobsOf(w) : Live(StepOf[j])

IsCancelling(j) == \E c \in Jobs : request[j][c] \in ActiveRequest

(* Defect: the flag looks at the step, which moves without a refresh. *)
ReadyWorksetOfLiveStep ==
    \E w \in DOMAIN itemCount : Claimable(w)

(* kReadyWorksetExistsSql: weaker than Claimable, it looks only at the     *)
(* QUEUED jobs of a workset and not at its step.                           *)
ReadyWorksetExists ==
    \E w \in DOMAIN itemCount :
        /\ \E j \in JobsOf(w) : job[j].state = "QUEUED" /\ job[j].attempts < job[j].max
        /\ \A j \in JobsOf(w) : job[j].state = "QUEUED" => job[j].attempts < job[j].max
        /\ ~ HasOpenDispatch(w)

PendingResultExists ==
    \E j \in Jobs : /\ job[j].state = "EXECUTION_FINISHED"
                    /\ job[j].processing = "PENDING"
                    /\ job[j].blob = "LIVE"

(* RefreshExecutionWorkAvailability, the last statement of a transaction. *)
Refresh == available' = [ready |-> ReadyWorksetExists', results |-> PendingResultExists']

(* The worksets of a step are published before it is MATERIALIZED. *)
Init ==
    \E f \in [Jobs -> 1 .. FirstWorksets] :
        /\ \A i, j \in Jobs : f[i] = f[j] => StepOf[i] = StepOf[j]
        /\ job = [j \in Jobs |->
                    [state |-> "QUEUED", attempts |-> 0, max |-> MaxAttempts, workset |-> f[j],
                     dispatch |-> 0, token |-> 0, reserved |-> 0,
                     processing |-> "NULL", blob |-> "NULL"]]
        /\ itemCount = [w \in 1 .. FirstWorksets |-> Cardinality({j \in Jobs : f[j] = w})]
        /\ dispatches = <<>>
        /\ request = [j \in Jobs |-> [c \in Jobs |-> "NONE"]]
        /\ available = [ready |-> Jobs # {}, results |-> FALSE]
        /\ step = [s \in Steps |-> "READY"]
        /\ completions = [j \in Jobs |-> 0]
        /\ reopens = [j \in Jobs |-> 0]

-----------------------------------------------------------------------------
(* The dispatch coordinator's transactions *)

(* Defect: the candidate is not looked at again when it is claimed. *)
ClaimStaleCandidate(w) ==
    /\ JobsOf(w) # {}
    /\ Len(dispatches) < MaxDispatches
    /\ dispatches' = Append(dispatches, [workset |-> w, state |-> "CLAIMED"])
    /\ UNCHANGED <<job, itemCount, request, available, step, completions, reopens>>

(* One workset of a batch claim; a batch is several of these at once. *)
ClaimPublishedWorkset(w) ==
    /\ Claimable(w)
    /\ Len(dispatches) < MaxDispatches
    /\ LET d == Len(dispatches) + 1 IN
       /\ dispatches' = Append(dispatches, [workset |-> w, state |-> "CLAIMED"])
       /\ job' = [j \in Jobs |->
                    IF j \notin JobsOf(w) THEN job[j]
                    ELSE [job[j] EXCEPT !.state = "CLAIMED", !.dispatch = d, !.token = d,
                                        !.reserved = job[j].attempts + 1]]
    /\ UNCHANGED <<itemCount, request, step, completions, reopens>>
    /\ Refresh

SetDispatch(d, s) == dispatches' = [dispatches EXCEPT ![d].state = s]

MarkWorksetActive(d) ==
    /\ dispatches[d].state = "CLAIMED"
    /\ SetDispatch(d, "ACTIVE")
    /\ UNCHANGED <<job, itemCount, request, available, step, completions, reopens>>

(* Defect: a dispatch closes while its worker still holds items. *)
MarkWorksetDrainingClosing(d) ==
    /\ dispatches[d].state = "ACTIVE"
    /\ SetDispatch(d, "CLOSED")
    /\ UNCHANGED <<job, itemCount, request, available, step, completions, reopens>>

(* Defect: a state outside the table's CHECK. *)
MarkWorksetDrainingUnknown(d) ==
    /\ dispatches[d].state = "ACTIVE"
    /\ SetDispatch(d, "RELEASED")
    /\ UNCHANGED <<job, itemCount, request, available, step, completions, reopens>>

MarkWorksetDraining(d) ==
    /\ dispatches[d].state = "ACTIVE"
    /\ SetDispatch(d, IF Held(d) = {} THEN "CLOSED" ELSE "DRAINING")
    /\ UNCHANGED <<job, itemCount, request, available, step, completions, reopens>>

(* Defect: a requeued item stays in the workset it was claimed from. *)
RequeuedInPlace(r, w) ==
    [r EXCEPT !.state = "QUEUED", !.dispatch = 0, !.token = 0, !.reserved = 0]

Requeued(r, w) ==
    [r EXCEPT !.state = "QUEUED", !.workset = w, !.dispatch = 0, !.token = 0, !.reserved = 0]

Interrupted(r) ==
    [r EXCEPT !.state = "INTERRUPTED", !.dispatch = 0, !.token = 0, !.reserved = 0,
              !.processing = "PROCESSED"]

(* Closing dispatches D: items not started move, per dispatch, to a new    *)
(* workset made for them (CloneReplacementWorkset); started ones are       *)
(* interrupted for good.                                                   *)
CloseDispatches(D) ==
    LET unstarted(d) == {j \in Held(d) : job[j].state = "CLAIMED"}
        cloned == {d \in D : unstarted(d) # {}}
        replacement(d) == Len(itemCount) + Cardinality({e \in cloned : e <= d})
        interrupted == {j \in Jobs : job[j].dispatch \in D /\ job[j].state = "RUNNING"}
    IN  /\ Len(itemCount) + Cardinality(cloned) <= MaxWorksets
        /\ itemCount' = itemCount \o
             [k \in 1 .. Cardinality(cloned) |->
                Cardinality({j \in Jobs : \E d \in cloned :
                    j \in unstarted(d) /\ replacement(d) = Len(itemCount) + k})]
        /\ job' = [j \in Jobs |->
             IF j \in interrupted THEN Interrupted(job[j])
             ELSE IF job[j].dispatch \in D /\ job[j].state = "CLAIMED"
             THEN Requeued(job[j], replacement(job[j].dispatch))
             ELSE job[j]]
        /\ dispatches' = [d \in DOMAIN dispatches |->
             IF d \in D THEN [dispatches[d] EXCEPT !.state = "CLOSED"] ELSE dispatches[d]]
        /\ completions' = [j \in Jobs |->
             IF j \in interrupted THEN completions[j] + 1 ELSE completions[j]]
        /\ UNCHANGED <<request, step, reopens>>
        /\ Refresh

ReleaseWorksetDispatch(d) ==
    /\ dispatches[d].state \in OpenStates
    /\ CloseDispatches({d})

(* The authority check of the recovery: every unfinished job of an open    *)
(* dispatch still carries its token and its reserved attempt.              *)
AuthorityAgrees(d) == \A j \in Held(d) : job[j].token = d /\ job[j].reserved # 0

(* At coordinator start: no managed worker survived. *)
RecoverInterruptedWorksetDispatches ==
    /\ OpenDispatches # {}
    /\ \A d \in OpenDispatches : AuthorityAgrees(d)
    /\ CloseDispatches(OpenDispatches)

(* Defect: a repeated start report counts another attempt. *)
MarkWorksetJobStartedAgain(j, d) ==
    /\ job[j].state \in Unfinished
    /\ job[j].token = d
    /\ job' = [job EXCEPT ![j].state = "RUNNING", ![j].attempts = @ + 1]
    /\ UNCHANGED <<itemCount, dispatches, request, available, step, completions, reopens>>

MarkWorksetJobStarted(j, d) ==
    /\ job[j].state = "CLAIMED"
    /\ job[j].dispatch = d
    /\ job[j].token = d
    /\ job[j].attempts = job[j].reserved - 1
    /\ dispatches[d].state \in Executing
    /\ job' = [job EXCEPT ![j].state = "RUNNING", ![j].attempts = job[j].reserved]
    /\ UNCHANGED <<itemCount, dispatches, request, available, step, completions, reopens>>

ResolveRequests(j) ==
    request' = [request EXCEPT ![j] =
                  [c \in Jobs |-> IF @[c] \in ActiveRequest THEN "RESOLVED" ELSE @[c]]]

(* Defect: a terminal is staged whatever became of the job. *)
StageWorkerTerminalLate(j, d) ==
    /\ job[j].dispatch = d
    /\ job[j].token = d
    /\ job' = [job EXCEPT ![j].state = "EXECUTION_FINISHED", ![j].processing = "PENDING",
                          ![j].blob = "LIVE", ![j].token = 0]
    /\ ResolveRequests(j)
    /\ UNCHANGED <<itemCount, dispatches, step, completions, reopens>>
    /\ Refresh

StageWorkerTerminal(j, d) ==
    /\ \/ job[j].state = "RUNNING" /\ job[j].attempts = job[j].reserved
       \/ job[j].state = "CLAIMED" /\ job[j].attempts + 1 = job[j].reserved  \* unstarted
    /\ job[j].dispatch = d
    /\ job[j].token = d
    /\ dispatches[d].state \in Executing
    /\ job' = [job EXCEPT ![j].state = "EXECUTION_FINISHED", ![j].processing = "PENDING",
                          ![j].blob = "LIVE", ![j].token = 0]
    /\ ResolveRequests(j)
    /\ SetDispatch(d, IF dispatches[d].state = "DRAINING" /\ Held(d) = {j}
                      THEN "CLOSED" ELSE dispatches[d].state)
    /\ UNCHANGED <<itemCount, step, completions, reopens>>
    /\ Refresh

-----------------------------------------------------------------------------
(* The result processor's transactions *)

Processing(j) == job[j].state = "EXECUTION_FINISHED" /\ job[j].processing = "PROCESSING"

ClaimExecutionFinishedJob(j) ==
    /\ job[j].state = "EXECUTION_FINISHED"
    /\ job[j].processing = "PENDING"
    /\ job[j].blob = "LIVE"
    /\ {job[j].workset, job[j].dispatch, job[j].reserved} \cap {0} = {}
    /\ job' = [job EXCEPT ![j].processing = "PROCESSING"]
    /\ UNCHANGED <<itemCount, dispatches, request, step, completions, reopens>>
    /\ Refresh

(* At processor start, for a claim the previous process did not finish. *)
ResetInterruptedResultProcessing(j) ==
    /\ Processing(j)
    /\ job' = [job EXCEPT ![j].processing = "PENDING"]
    /\ UNCHANGED <<itemCount, dispatches, request, step, completions, reopens>>
    /\ Refresh

(* Defect: the blob of a processed result is not released. *)
ProcessedKeepingBlob(r, s) == [r EXCEPT !.state = s, !.processing = "PROCESSED"]

Processed(r, s) ==
    [r EXCEPT !.state = s, !.processing = "PROCESSED", !.blob = "DELETE_PENDING"]

(* Defect: a delivered request no longer counts as active. *)
ConflictingUndelivered(j, t) ==
    request[t][j] = "NONE" /\ \E c \in Jobs : request[t][c] = "REQUESTED"

(* InsertCancellationRequest for targets T, by the finalization of j: the  *)
(* same request again, resolved or not, is already applied; a new one      *)
(* conflicts with an active one.                                           *)
Conflicting(j, t) == request[t][j] = "NONE" /\ IsCancelling(t)

InsertRequests(j, T) ==
    /\ request' = [t \in Jobs |->
         [request[t] EXCEPT ![j] = IF t \in T /\ @ = "NONE" THEN "REQUESTED" ELSE @]]
    /\ Cardinality({p \in Jobs \X Jobs : request'[p[1]][p[2]] # "NONE"}) <= MaxCancellations

CommitResultFinalization(j, s, T) ==
    /\ Processing(j)
    /\ \A t \in T : ~ Conflicting(j, t)
    /\ job' = [job EXCEPT ![j] = Processed(@, s)]
    /\ InsertRequests(j, T)
    /\ completions' = [completions EXCEPT ![j] = @ + 1]
    /\ UNCHANGED <<itemCount, dispatches, step, reopens>>
    /\ Refresh

(* A conflicting request rejects the finalization, but inside a batch the  *)
(* rollback is void: the requests before it in the list are committed.     *)
RejectResultFinalization(j, T, inserted) ==
    /\ Processing(j)
    /\ \E t \in T : Conflicting(j, t)
    /\ inserted \subseteq {t \in T : ~ Conflicting(j, t)}
    /\ InsertRequests(j, inserted)
    /\ UNCHANGED <<job, itemCount, dispatches, available, step, completions, reopens>>

RetryResultFinalization(j) ==
    /\ Processing(j)
    /\ \/ /\ job[j].attempts >= job[j].max
          /\ job' = [job EXCEPT ![j] = Processed(@, "FAILED")]
          /\ completions' = [completions EXCEPT ![j] = @ + 1]
          /\ UNCHANGED itemCount
       \/ /\ job[j].attempts < job[j].max
          /\ Len(itemCount) < MaxWorksets
          /\ itemCount' = Append(itemCount, 1)
          /\ job' = [job EXCEPT ![j] = Requeued(Processed(@, "QUEUED"), Len(itemCount) + 1)]
          /\ UNCHANGED completions
    /\ UNCHANGED <<dispatches, request, step, reopens>>
    /\ Refresh

-----------------------------------------------------------------------------
(* Cancellation outcomes and manual retry *)

(* Defect: a cancellation ends a job the worker has already ended. *)
ResolveWithoutWorkerUnchecked(j, c, d, s) ==
    /\ request[j][c] \in ActiveRequest
    /\ job[j].state \in {"CLAIMED"} \cup Final
    /\ request' = [request EXCEPT ![j][c] = "RESOLVED"]
    /\ job' = [job EXCEPT ![j].state = s]
    /\ completions' = [completions EXCEPT ![j] = @ + 1]
    /\ UNCHANGED <<itemCount, dispatches, step, reopens>>
    /\ Refresh

(* ResolveWithoutWorker and InitialSidecarApplied: the coordinator kept    *)
(* the item from the worker. The code would also take a QUEUED or          *)
(* PENDING_WORKSET job, which has no dispatch; the command always names    *)
(* one. Only a dispatch that is still CLAIMED closes with its last item.   *)
ResolveWithoutWorker(j, c, d, s) ==
    /\ request[j][c] \in ActiveRequest
    /\ job[j].dispatch = d
    /\ job[j].state = "CLAIMED"
    /\ request' = [request EXCEPT ![j][c] = "RESOLVED"]
    /\ job' = [job EXCEPT ![j].state = s]
    /\ completions' = [completions EXCEPT ![j] = @ + 1]
    /\ SetDispatch(d, IF dispatches[d].state = "CLAIMED" /\ Held(d) = {j}
                      THEN "CLOSED" ELSE dispatches[d].state)
    /\ UNCHANGED <<itemCount, step, reopens>>
    /\ Refresh

WorkerDeliveryAccepted(j, c, d) ==
    /\ request[j][c] = "REQUESTED"
    /\ job[j].dispatch = d
    /\ request' = [request EXCEPT ![j][c] = "DELIVERED"]
    /\ UNCHANGED <<job, itemCount, dispatches, available, step, completions, reopens>>

(* Issued for a job the coordinator last saw ended or staged; whatever     *)
(* became of the job since, the store resolves the request.                *)
WorkerTerminalResolved(j, c) ==
    /\ request[j][c] \in ActiveRequest
    /\ request' = [request EXCEPT ![j][c] = "RESOLVED"]
    /\ UNCHANGED <<job, itemCount, dispatches, available, step, completions, reopens>>

(* The manual retry of jobs J of one step as one new workset; it reopens a *)
(* step that failed or was interrupted, and no other.                      *)
ApplyWorksetJobReorganization(s, J) ==
    /\ J # {}
    /\ \A j \in J : StepOf[j] = s
    /\ \A j \in J : /\ job[j].state \in {"FAILED", "INTERRUPTED"}
                    /\ job[j].processing = "PROCESSED"
                    /\ reopens[j] < MaxReopens
    /\ Len(itemCount) < MaxWorksets
    /\ itemCount' = Append(itemCount, Cardinality(J))
    /\ job' = [j \in Jobs |->
         IF j \notin J THEN job[j]
         ELSE [Requeued(job[j], Len(itemCount) + 1) EXCEPT
                 !.max = job[j].attempts + 1, !.processing = "NULL", !.blob = "NULL"]]
    /\ reopens' = [j \in Jobs |-> IF j \in J THEN reopens[j] + 1 ELSE reopens[j]]
    /\ step' = [step EXCEPT ![s] = IF @ \in {"FAILED", "INTERRUPTED"} THEN "MATERIALIZED" ELSE @]
    /\ UNCHANGED <<dispatches, request, completions>>
    /\ Refresh

-----------------------------------------------------------------------------
(* The workflow coordinator's and the user's transactions on a step: none  *)
(* looks at its jobs, and none refreshes the availability row.             *)

MoveStep(s, new) ==
    /\ step' = [step EXCEPT ![s] = new]
    /\ UNCHANGED <<job, itemCount, dispatches, request, available, completions, reopens>>

(* Also repeated for a step that is RUNNING, where it changes nothing. *)
MarkStepMaterialized(s) == step[s] = "READY" /\ MoveStep(s, "MATERIALIZED")

(* FailWorkflowInstance or InterruptWorkflowInstance, for a step. *)
ParkStep(s, outcome) == step[s] \in {"READY", "MATERIALIZED"} /\ MoveStep(s, outcome)

RetryFailedStep(s) == step[s] = "FAILED" /\ MoveStep(s, "READY")

(* CompleteWorkflowStep, or CancelWorkflowInstance. *)
CompleteWorkflowStep(s) == step[s] \in {"READY", "MATERIALIZED"} /\ MoveStep(s, "ENDED")

SkipStep(s) == step[s] \in {"READY", "FAILED"} /\ MoveStep(s, "ENDED")

Next ==
    \/ \E w \in DOMAIN itemCount : ClaimPublishedWorkset(w)
    \/ \E d \in DOMAIN dispatches :
         \/ MarkWorksetActive(d)
         \/ MarkWorksetDraining(d)
         \/ ReleaseWorksetDispatch(d)
         \/ \E j \in Jobs : MarkWorksetJobStarted(j, d)
         \/ \E j \in Jobs : StageWorkerTerminal(j, d)
         \/ \E j, c \in Jobs, s \in {"CANCELED", "FAILED"} : ResolveWithoutWorker(j, c, d, s)
         \/ \E j, c \in Jobs : WorkerDeliveryAccepted(j, c, d)
    \/ RecoverInterruptedWorksetDispatches
    \/ \E j \in Jobs :
         \/ ClaimExecutionFinishedJob(j)
         \/ ResetInterruptedResultProcessing(j)
         \/ RetryResultFinalization(j)
         \/ \E s \in DecidedStates, T \in SUBSET (Jobs \ {j}) : CommitResultFinalization(j, s, T)
         \/ \E T \in SUBSET (Jobs \ {j}) : \E inserted \in SUBSET T :
              RejectResultFinalization(j, T, inserted)
         \/ \E c \in Jobs : WorkerTerminalResolved(j, c)
    \/ \E s \in Steps :
         \/ \E J \in SUBSET Jobs : ApplyWorksetJobReorganization(s, J)
         \/ MarkStepMaterialized(s)
         \/ \E outcome \in {"FAILED", "INTERRUPTED"} : ParkStep(s, outcome)
         \/ RetryFailedStep(s)
         \/ CompleteWorkflowStep(s)
         \/ SkipStep(s)

Spec == Init /\ [][Next]_vars

-----------------------------------------------------------------------------
(* Properties *)

(* An item a worker may hold belongs to an open dispatch of its own        *)
(* workset and carries that dispatch's token and the attempt it reserved,  *)
(* whatever was released, cancelled, retried or recovered meanwhile: no    *)
(* job is orphaned, and the recovery never meets "contradictory job        *)
(* authority". A running item's dispatch was handed to a worker.           *)
UnfinishedOwned ==
    \A j \in Jobs : job[j].state \in Unfinished =>
        LET d == job[j].dispatch IN
        /\ d \in OpenDispatches
        /\ dispatches[d].workset = job[j].workset
        /\ job[j].token = d
        /\ job[j].state = "CLAIMED" => job[j].reserved = job[j].attempts + 1
        /\ job[j].state = "RUNNING" => /\ job[j].reserved = job[j].attempts
                                       /\ dispatches[d].state \in Executing

(* A workset is never handed out twice at a time. *)
OneOpenDispatch ==
    \A d, e \in OpenDispatches : dispatches[d].workset = dispatches[e].workset => d = e

(* A queued job of a live step can be claimed: its whole workset passes    *)
(* the claim query, although releases, recoveries, retries and manual      *)
(* retries move jobs between worksets one by one, also while the step is   *)
(* parked, ended or opened again.                                          *)
QueuedClaimable ==
    \A j \in Jobs :
        job[j].state = "QUEUED" /\ Live(StepOf[j]) => Claimable(job[j].workset)

(* The availability row, on which the coordinator and the result processor *)
(* sleep, never hides work: its flag is up whenever a workset can be       *)
(* claimed, also when it became claimable by a step that moved without a   *)
(* refresh. The flag may be up for nothing, but only while a step that is  *)
(* not live has queued jobs. The flag of the results is exact.             *)
AvailabilityCovers ==
    /\ (\E w \in DOMAIN itemCount : Claimable(w)) => available.ready
    /\ available.ready =>
         \/ \E w \in DOMAIN itemCount : Claimable(w)
         \/ \E j \in Jobs : job[j].state = "QUEUED" /\ ~ Live(StepOf[j])
    /\ available.results <=> PendingResultExists

(* A job has a result to process exactly while its blob is live. *)
ResultCoherent ==
    \A j \in Jobs : /\ job[j].state = "EXECUTION_FINISHED" <=> job[j].blob = "LIVE"
                    /\ job[j].processing \in {"PENDING", "PROCESSING"} <=> job[j].blob = "LIVE"

(* A job never has two active cancellation requests, although finalizers   *)
(* of different jobs ask for the same one, repeat themselves after a crash *)
(* and are cut off half-way by a conflict: a second one would make the     *)
(* summary compare-and-set of the first fail for ever.                     *)
OneActiveRequest ==
    \A j, c, e \in Jobs :
        request[j][c] \in ActiveRequest /\ request[j][e] \in ActiveRequest => c = e

(* Each time a job ends, JobCompleted is written once: workflow settlement *)
(* counts these events.                                                    *)
CompletedOnce ==
    \A j \in Jobs :
        completions[j] = reopens[j] + (IF job[j].state \in Final THEN 1 ELSE 0)

(* The attempt budget holds for every claim, and attempts never outgrow it. *)
AttemptsBounded ==
    \A j \in Jobs : job[j].attempts <= job[j].max /\ job[j].max <= MaxAttempts + reopens[j]

(* Only a manual retry takes a job out of a final state, and nothing ever  *)
(* returns an ended dispatch to work.                                      *)
EndsAreFinal ==
    [][/\ \A j \in Jobs : job[j].state \in Final =>
            job'[j].state = job[j].state \/ reopens'[j] > reopens[j]
       /\ \A d \in DOMAIN dispatches : dispatches[d].state = "CLOSED" =>
            dispatches'[d].state = "CLOSED"]_vars

=============================================================================
