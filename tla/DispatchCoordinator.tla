------------------------- MODULE DispatchCoordinator -------------------------
(***************************************************************************)
(* The life of a workset dispatch in JobExecutionCoordinator: claimed from  *)
(* the store, reconstructed, submitted to a worker, activated, fed with the *)
(* worker's evidence, drained and retired, or faulted, contained and        *)
(* released; with cancellations, worker loss, an invariant pause and the    *)
(* shutdown recovery.                                                       *)
(*                                                                          *)
(* Every event the actor handles is one action.  Between them act the       *)
(* coordination I/O thread, the mailbox thread of the worker, the           *)
(* persistence threads and the cancellation mutation thread.  The store and *)
(* the worker are seen as the coordinator sees them: ExecutionDb and        *)
(* WorksetReporting have their details.                                     *)
(*                                                                          *)
(* Left out are the faults for what the store or the worker would have to   *)
(* answer wrongly: a worker that refuses a contract validated here, that    *)
(* acknowledges another cancellation sidecar or sends evidence of a workset *)
(* it refused (HandleSubmissionCompletion), a store that refuses the        *)
(* activation of a claimed dispatch (HandleActivationIoCompletion), and     *)
(* committed cancellations that differ from their hold, which pause the     *)
(* admission (RegisterCommittedCancellations).                              *)
(***************************************************************************)
EXTENDS Naturals, Sequences, FiniteSets, Functions

CONSTANTS
    ItemCount,        \* jobs 1 .. ItemCount
    Cancellable,      \* the jobs somebody may cancel
    MaxDispatches,    \* bound: dispatch attempts
    MaxGenerations,   \* bound: processes started in the worker's slot
    PreparedCapacity, \* prepared_worksets_per_ready_worker
    EvidenceLimit,    \* max_pending_evidence_per_dispatch
    DbMayFail,        \* a store call may end in BackendError
    WorkerMayDie,     \* the worker's process may be lost
    ReplyMayTimeOut,  \* a submission may end without an answer
    MayShutDown       \* CoordinatorRuntime::Stop may be called

ASSUME DispatchAssumption ==
    /\ {ItemCount, MaxDispatches, MaxGenerations, PreparedCapacity, EvidenceLimit} \subseteq Nat \ {0}
    /\ Cancellable \subseteq 1 .. ItemCount
    /\ {DbMayFail, WorkerMayDie, ReplyMayTimeOut, MayShutDown} \subseteq BOOLEAN

VARIABLES
    job,        \* exec_job: state and dispatch_attempt_id
    attempt,    \* exec_workset_dispatch_attempt.state
    request,    \* exec_job_cancellation_request of a job
    dispatches, \* dispatches_: dispatch id -> DispatchRecord
    claim,      \* claim_effect_ and what the claim returned
    prepared,   \* prepared_dispatches_
    lane,       \* the worker's mailbox and its ActorWorkerRecord
    controls,   \* WorkerControlCommands in the mailbox or completed
    stream,     \* persistence_streams_ and buffered_worker_evidence_
    faults,     \* FaultDispatch events the actor has not applied
    mutations,  \* cancellation mutations, queued or committed
    index,      \* committed_cancellations_by_job_
    held,       \* pending_cancellation_holds_: job -> its state at the commit
    paused,     \* invariant_paused_
    stage,      \* shutdown_stage_
    worker,     \* the process in the slot
    wire        \* its events on the way to the actor

vars == <<job, attempt, request, dispatches, claim, prepared, lane, controls, stream,
          faults, mutations, index, held, paused, stage, worker, wire>>
storeVars  == <<job, attempt, request>>
cancelVars == <<index, held>>
workerVars == <<worker, wire>>

Items == 1 .. ItemCount
Ids == 1 .. MaxDispatches
Generations == 1 .. MaxGenerations
Kinds == {"Reconstruction", "Submission", "Residence", "Activation", "MarkDraining", "Release"}
Outcomes == {"applied", "rejected", "failed"}

(* pending_effect: its kind, and whether its command is queued, what came   *)
(* of it, or that it waits for its retry_at.                                *)
NoEffect == [kind |-> "none", at |-> "none"]
Effect == {NoEffect} \cup
    [kind : Kinds, at : {"queued", "retry", "written", "unwritten", "unknown"} \cup Outcomes]
Begin(kind) == [kind |-> kind, at |-> "queued"]
Retry(kind) == [kind |-> kind, at |-> "retry"]
Waits(e, kind) == e = NoEffect \/ e = Retry(kind)

(* containment: "release", "retire" (retire_worker) or "await" (also        *)
(* awaiting_worker_exit); keep is keep_draining, kept what the release      *)
(* command in flight took with it.                                          *)
DispatchRecord ==
    [items : SUBSET Items, own : {"Coordinator", "MayOwn", "Worker", "Closed"},
     life : {"Claimed", "Prepared", "Active", "Draining", "Faulted"}, effect : Effect,
     gen : {0} \cup Generations, contain : {"none", "release", "retire", "await"},
     keep : BOOLEAN, kept : BOOLEAN, released : BOOLEAN, observed : BOOLEAN,
     drained : BOOLEAN, summary : BOOLEAN, staged : SUBSET Items, acked : SUBSET Items,
     suppressed : SUBSET Items, persisted : SUBSET Items, pending : SUBSET Items]

NewDispatch(S) ==
    [items |-> S, own |-> "Coordinator", life |-> "Claimed", effect |-> NoEffect,
     gen |-> 0, contain |-> "none", keep |-> FALSE, kept |-> FALSE, released |-> FALSE,
     observed |-> FALSE, drained |-> FALSE, summary |-> FALSE, staged |-> {}, acked |-> {},
     suppressed |-> {}, persisted |-> {}, pending |-> {}]

NoLane == [gen |-> 0, submitting |-> 0, active |-> 0, state |-> "none"]
ReadyLane(g) == [gen |-> g, submitting |-> 0, active |-> 0, state |-> "Ready"]
NoItem == [i \in Items |-> "none"]
NoClaim == [at |-> "none", items |-> {}, before |-> {}]
EmptyStream == [events |-> <<>>, buffered |-> <<>>, io |-> "none"]

Registered == DOMAIN dispatches
Holds(d) == {j \in Items : job[j] \in [state : {"CLAIMED", "RUNNING"}, dispatch : {d}]}
Quiescing == stage # "Running"
IsDispatchAdmissionPaused == Quiescing \/ paused

Init ==
    /\ job = [j \in Items |-> [state |-> "QUEUED", dispatch |-> 0]]
    /\ attempt = [d \in Ids |-> "none"]
    /\ request = [j \in Items |-> "NONE"]
    /\ dispatches = <<>>
    /\ claim = NoClaim
    /\ prepared = {}
    /\ lane = ReadyLane(1)
    /\ controls = {}
    /\ stream = [d \in Ids |-> EmptyStream]
    /\ faults = {}
    /\ mutations = {}
    /\ index = {}
    /\ held = <<>>
    /\ paused = FALSE
    /\ stage = "Running"
    /\ worker = [gen |-> 1, up |-> TRUE, retire |-> FALSE, dispatch |-> 0, items |-> NoItem,
                 done |-> FALSE]
    /\ wire = <<>>

-----------------------------------------------------------------------------
(* Pieces of the handlers: each takes a DispatchRecord and returns it changed *)

(* ReleaseDispatch: what a worker may own waits for the worker's exit; what  *)
(* the coordinator owns is released unless another effect is pending.        *)
ReleaseDispatch(r, keep) ==
    LET c == IF r.contain = "none" THEN [r EXCEPT !.contain = "release", !.keep = keep] ELSE r
    IN CASE r.own = "Closed" -> r
         [] r.own \in {"MayOwn", "Worker"} -> [c EXCEPT !.contain = "await"]
         [] r.own = "Coordinator" /\ ~Waits(r.effect, "Release") -> c
         [] OTHER -> [c EXCEPT !.effect = Begin("Release"), !.kept = c.keep /\ r.released]

(* ContinueContainment, apart from the call of RequestWorkerRetirement *)
ContinueContainment(r) ==
    CASE r.contain \in {"none", "await"} \/ r.own = "Closed" \/ ~Waits(r.effect, "Release") -> r
      [] r.contain = "retire" -> [r EXCEPT !.contain = "await"]
      [] OTHER -> ReleaseDispatch(r, r.keep)

(* RequestWorkerRetirement *)
Retire(w, g) == IF w.up /\ w.gen = g THEN [w EXCEPT !.retire = TRUE] ELSE w
RetiresWorker(r) == r.contain = "retire" /\ ContinueContainment(r).contain = "await"

(* MarkDispatchDraining *)
MarkDispatchDraining(r) ==
    IF r.own = "Worker" /\ r.life = "Draining" /\ ~r.drained /\ Waits(r.effect, "MarkDraining")
    THEN [r EXCEPT !.effect = Begin("MarkDraining")] ELSE r

(* Defect: the retirement does not wait for the durable DRAINING mark. *)
ReadyToRetireUndrained(r) ==
    LET executable == r.items \ r.suppressed IN
    /\ r.summary
    /\ r.acked = executable
    /\ r.persisted = r.suppressed
    /\ \/ r.own = "Closed" /\ r.released
       \/ r.own = "Worker" /\ r.life = "Draining" /\ r.staged = executable

(* DispatchReadyToRetire with the facts of MaybeRetire *)
ReadyToRetire(r) ==
    LET executable == r.items \ r.suppressed IN
    /\ r.summary
    /\ r.acked = executable
    /\ r.persisted = r.suppressed
    /\ \/ r.own = "Closed" /\ r.released
       \/ r.own = "Worker" /\ r.life = "Draining" /\ r.drained /\ r.staged = executable

(* ClearWorkerIdentity, and the same lines of HandleReleaseIoCompletion *)
ClearWorkerIdentity(r, d) ==
    IF lane.gen # r.gen \/ r.gen = 0 THEN lane
    ELSE [lane EXCEPT !.submitting = IF @ = d THEN 0 ELSE @, !.active = IF @ = d THEN 0 ELSE @,
                      !.state = "Ready"]

Update(d, r) == dispatches' = [dispatches EXCEPT ![d] = r]
RemoveDispatch(d) == dispatches' = Restrict(dispatches, Registered \ {d})

(* MaybeRetire at the end of a handler that leaves the record as r *)
MaybeRetire(d, r) ==
    IF ReadyToRetire(r)
    THEN RemoveDispatch(d) /\ lane' = ClearWorkerIdentity(r, d)
    ELSE Update(d, r) /\ UNCHANGED lane

(* EnqueuePersistence: an event beyond the limit is dropped and releases the *)
(* dispatch.                                                                 *)
Overflows(s, events) == Len(s.events) + Len(events) > EvidenceLimit

Enqueue(s, events) ==
    [s EXCEPT !.events = SubSeq(@ \o events, 1, IF Overflows(s, events) THEN EvidenceLimit
                                                 ELSE Len(@ \o events))]

(* Defect: what waited for the activation is forgotten instead of queued. *)
FlushNothing(s) == [s EXCEPT !.buffered = <<>>]

FlushBufferedEvidence(s) == [Enqueue(s, s.buffered) EXCEPT !.buffered = <<>>]

-----------------------------------------------------------------------------
(* Claim, reconstruction and admission *)

Unsubmitted == {d \in Registered : dispatches[d].own \in {"Coordinator", "MayOwn"}}

(* The claim at the end of ScheduleActor.  A claim that would return nothing *)
(* only sets a backoff timer and is left out.                                *)
ScheduleClaim ==
    /\ ~IsDispatchAdmissionPaused
    /\ lane.state = "Ready"
    /\ claim.at = "none"
    /\ Cardinality(Unsubmitted) < PreparedCapacity
    /\ \E j \in Items : job[j].state = "QUEUED"
    /\ \E d \in Ids : attempt[d] = "none"
    /\ claim' = [NoClaim EXCEPT !.at = "queued"]
    /\ UNCHANGED <<job, attempt, request, dispatches, prepared, lane, controls, stream,
                   faults, mutations, index, held, paused, stage, worker, wire>>

NextId == CHOOSE d \in Ids : attempt[d] = "none" /\ \A e \in 1 .. d - 1 : attempt[e] # "none"

(* The commands that the I/O thread has applied and whose completions are in *)
(* the actor's queue: the completion of a claim is handled after those that  *)
(* were there before it.                                                     *)
Completed ==
    {c \in Registered \X Kinds : dispatches[c[1]].effect = [kind |-> c[2], at |-> "applied"]}

(* ClaimPublishedWorksetBatch: a published workset is some of the queued jobs *)
ClaimIo ==
    /\ claim.at = "queued"
    /\ \E S \in SUBSET {j \in Items : job[j].state = "QUEUED"} :
         /\ S # {}
         /\ claim' = [at |-> "done", items |-> S, before |-> Completed]
         /\ job' = [j \in Items |-> IF j \in S THEN [state |-> "CLAIMED", dispatch |-> NextId]
                                   ELSE job[j]]
         /\ attempt' = [attempt EXCEPT ![NextId] = "CLAIMED"]
    /\ UNCHANGED <<request, dispatches, prepared, lane, controls, stream, faults, mutations,
                   index, held, paused, stage, worker, wire>>

ClaimFails ==
    /\ claim.at = "queued"
    /\ DbMayFail \/ \A j \in Items : job[j].state # "QUEUED"
    /\ claim' = NoClaim
    /\ UNCHANGED <<job, attempt, request, dispatches, prepared, lane, controls, stream,
                   faults, mutations, index, held, paused, stage, worker, wire>>

HandleClaimIoCompletion ==
    /\ claim.at = "done"
    /\ claim.before \cap Completed = {}
    /\ LET d == job[CHOOSE j \in claim.items : TRUE].dispatch
           r == NewDispatch(claim.items)
       IN dispatches' = [e \in Registered \cup {d} |->
                           IF e # d THEN dispatches[e]
                           ELSE IF IsDispatchAdmissionPaused THEN ReleaseDispatch(r, FALSE)
                           ELSE [r EXCEPT !.effect = Begin("Reconstruction")]]
    /\ claim' = NoClaim
    /\ UNCHANGED <<job, attempt, request, prepared, lane, controls, stream, faults, mutations,
                   index, held, paused, stage, worker, wire>>

Reconstruct(d) ==
    /\ dispatches[d].effect = Begin("Reconstruction")
    /\ Update(d, [dispatches[d] EXCEPT !.effect = NoEffect, !.life = "Prepared"])
    /\ prepared' = prepared \cup {d}
    /\ UNCHANGED <<job, attempt, request, claim, lane, controls, stream, faults, mutations,
                   index, held, paused, stage, worker, wire>>

ReconstructionFails(d) ==
    /\ dispatches[d].effect = Begin("Reconstruction")
    /\ DbMayFail
    /\ Update(d, [dispatches[d] EXCEPT !.effect = NoEffect])
    /\ faults' = faults \cup {d}
    /\ UNCHANGED <<job, attempt, request, claim, prepared, lane, controls, stream, mutations,
                   index, held, paused, stage, worker, wire>>

Mutation(kind, j, d) == [kind |-> kind, job |-> j, dispatch |-> d, at |-> "queued"]

(* A sidecar frozen at the admission names the committed cancellations; a    *)
(* workset in which every item is cancelled is never submitted.              *)
AdmitPreparedDispatch(d) ==
    LET r == dispatches[d]
        frozen == r.items \cap index
        bound == [r EXCEPT !.gen = lane.gen, !.suppressed = frozen]
    IN
    /\ ~IsDispatchAdmissionPaused
    /\ d \in prepared
    /\ r.own = "Coordinator" /\ r.life = "Prepared" /\ r.effect = NoEffect
    /\ lane.state = "Ready" /\ lane.submitting = 0 /\ lane.active = 0
    /\ r.items \cap DOMAIN held = {}
    /\ prepared' = prepared \ {d}
    /\ \/ /\ frozen = r.items
          /\ Update(d, bound)
          /\ mutations' = mutations \cup {Mutation("sidecar", j, d) : j \in frozen}
          /\ UNCHANGED lane
       \/ /\ frozen # r.items
          /\ Update(d, [bound EXCEPT !.effect = Begin("Submission")])
          /\ lane' = [lane EXCEPT !.submitting = d, !.state = "Submitting"]
          /\ UNCHANGED mutations
    /\ UNCHANGED <<job, attempt, request, claim, controls, stream, faults, index, held,
                   paused, stage, worker, wire>>

-----------------------------------------------------------------------------
(* Submission, residence and activation *)

(* The mailbox thread in SubmitWorksetToWorker: the worker may start working *)
(* before the answer is handled; without an answer it may own the workset.   *)
AcceptWorkset(d) ==
    [worker EXCEPT !.dispatch = d, !.done = FALSE,
        !.items = [j \in Items |-> IF j \notin dispatches[d].items THEN "none"
                                   ELSE IF j \in dispatches[d].suppressed THEN "suppressed"
                                   ELSE "waiting"]]

(* A command is in the mailbox of the process it is for, and lost with it. *)
HasMailbox(d) == lane.gen = dispatches[d].gen

SubmitWorksetToWorker(d) ==
    LET takes == worker.up /\ ~worker.retire /\ worker.gen = dispatches[d].gen /\ worker.dispatch = 0
        ends(at) == Update(d, [dispatches[d] EXCEPT !.effect.at = at])
    IN
    /\ dispatches[d].effect = Begin("Submission")
    /\ HasMailbox(d)
    /\ \/ takes /\ worker' = AcceptWorkset(d) /\ ends("written")
       \/ ~takes /\ ends("unwritten") /\ UNCHANGED worker
       \/ /\ ReplyMayTimeOut /\ worker.gen = dispatches[d].gen /\ ends("unknown")
          /\ \/ takes /\ worker' = AcceptWorkset(d)
             \/ UNCHANGED worker
    /\ UNCHANGED <<job, attempt, request, claim, prepared, lane, controls, stream, faults,
                   mutations, index, held, paused, stage, wire>>

(* Defect: a submission without an answer counts as not delivered. *)
ClassifyByAnswer(at) == IF at = "written" THEN "MayOwn" ELSE "Coordinator"

ClassifySubmissionOwnership(at) == IF at = "unwritten" THEN "Coordinator" ELSE "MayOwn"

HandleSubmissionCompletion(d) ==
    LET r == dispatches[d]
        owner == ClassifySubmissionOwnership(r.effect.at)
    IN
    /\ r.effect.kind = "Submission" /\ r.effect.at # "queued"
    /\ \/ /\ owner = "MayOwn"
          /\ Update(d, [r EXCEPT !.own = "MayOwn", !.life = "Prepared",
                                 !.effect = Begin(IF @.at = "written" THEN "Activation"
                                                  ELSE "Residence")])
          /\ UNCHANGED prepared
       \/ /\ owner = "Coordinator"
          /\ Update(d, [r EXCEPT !.life = "Prepared", !.effect = NoEffect, !.gen = 0,
                                 !.suppressed = {}])
          /\ prepared' = prepared \cup {d}
    /\ lane' = IF lane.gen # r.gen THEN lane
               ELSE [lane EXCEPT !.submitting = 0,
                                 !.state = IF owner = "Coordinator" THEN "Ready" ELSE @]
    /\ UNCHANGED <<job, attempt, request, claim, controls, stream, faults, mutations, index,
                   held, paused, stage, worker, wire>>

(* ConfirmWorksetResidence on the mailbox thread *)
ConfirmResidence(d) ==
    LET r == dispatches[d]
        resident == worker.up /\ ~worker.retire /\ worker.gen = r.gen /\ worker.dispatch = d
                    /\ ~worker.done
    IN
    /\ r.effect = Begin("Residence")
    /\ HasMailbox(d)
    /\ Update(d, [r EXCEPT !.effect.at = IF resident THEN "applied" ELSE "rejected"])
    /\ worker' = IF resident THEN worker ELSE Retire(worker, r.gen)
    /\ UNCHANGED <<job, attempt, request, claim, prepared, lane, controls, stream, faults,
                   mutations, index, held, paused, stage, wire>>

HandleResidenceCompletion(d) ==
    LET r == dispatches[d] IN
    /\ r.effect.kind = "Residence" /\ r.effect.at # "queued"
    /\ \/ /\ r.effect.at = "applied"
          /\ Update(d, [r EXCEPT !.effect = IF r.life = "Faulted" THEN NoEffect
                                            ELSE Begin("Activation")])
          /\ UNCHANGED faults
       \/ /\ r.effect.at = "rejected"
          /\ Update(d, [r EXCEPT !.effect = NoEffect])
          /\ faults' = faults \cup {d}
    /\ UNCHANGED <<job, attempt, request, claim, prepared, lane, controls, stream, mutations,
                   index, held, paused, stage, worker, wire>>

(* The store's dispatch transitions, run by CoordinationIoLoop *)
MarkWorksetActive(d) ==
    /\ attempt' = [attempt EXCEPT ![d] = IF @ = "CLAIMED" THEN "ACTIVE" ELSE @]
    /\ UNCHANGED <<job, request>>

MarkWorksetDraining(d) ==
    /\ attempt' = [attempt EXCEPT ![d] = IF @ # "ACTIVE" THEN @
                                         ELSE IF Holds(d) = {} THEN "CLOSED" ELSE "DRAINING"]
    /\ UNCHANGED <<job, request>>

ReturnJobs(D) ==
    [j \in Items |-> IF j \notin UNION {Holds(d) : d \in D} THEN job[j]
                     ELSE IF job[j].state = "RUNNING" THEN [job[j] EXCEPT !.state = "INTERRUPTED"]
                     ELSE [state |-> "QUEUED", dispatch |-> 0]]

ReleaseWorksetDispatch(d) ==
    /\ job' = ReturnJobs({d})
    /\ attempt' = [attempt EXCEPT ![d] = "CLOSED"]
    /\ UNCHANGED request

CoordinationIo(d) ==
    LET e == dispatches[d].effect IN
    /\ \/ e = Begin("Activation") /\ MarkWorksetActive(d)
       \/ e = Begin("MarkDraining") /\ MarkWorksetDraining(d)
       \/ e = Begin("Release") /\ ReleaseWorksetDispatch(d)
    /\ Update(d, [dispatches[d] EXCEPT !.effect.at =
                    IF e.kind = "MarkDraining" /\ attempt[d] = "CLAIMED" THEN "rejected"
                    ELSE "applied"])
    /\ UNCHANGED <<claim, prepared, lane, controls, stream, faults, mutations, index, held,
                   paused, stage, worker, wire>>

CoordinationIoFails(d) ==
    /\ DbMayFail
    /\ dispatches[d].effect \in {Begin("Activation"), Begin("MarkDraining"), Begin("Release")}
    /\ Update(d, [dispatches[d] EXCEPT !.effect.at = "failed"])
    /\ UNCHANGED <<job, attempt, request, claim, prepared, lane, controls, stream, faults,
                   mutations, index, held, paused, stage, worker, wire>>

Control(kind, d, j) == [kind |-> kind, dispatch |-> d, job |-> j, at |-> "queued"]
(* EnqueueWorkerControl: without a mailbox the command is abandoned. *)
EnqueueControls(g, C) == controls' = IF lane.gen = g THEN controls \cup C ELSE controls

(* From now on the worker owns the dispatch: its buffered evidence, the       *)
(* outcome of the sidecar and the cancellations that came meanwhile follow.  *)
Activated(d) ==
    LET r == dispatches[d]
        draining == r.observed
        active == [r EXCEPT !.own = "Worker", !.effect = NoEffect, !.pending = {},
                            !.life = IF draining THEN "Draining" ELSE "Active"]
        overflow == Overflows(stream[d], stream[d].buffered)
        flushed == IF overflow THEN ReleaseDispatch(active, FALSE) ELSE active
        after == IF draining THEN MarkDispatchDraining(flushed) ELSE flushed
    IN
    /\ Update(d, ContinueContainment(after))
    /\ stream' = [stream EXCEPT ![d] = FlushBufferedEvidence(@)]
    /\ lane' = IF lane.gen # r.gen THEN lane
               ELSE [lane EXCEPT !.submitting = 0, !.active = IF draining THEN @ ELSE d,
                                 !.state = IF draining THEN "Draining" ELSE "Active"]
    /\ mutations' = mutations \cup {Mutation("sidecar", j, d) : j \in r.suppressed}
    /\ EnqueueControls(r.gen, {Control("cancel", d, j) : j \in r.pending})
    /\ UNCHANGED worker

HandleActivationIoCompletion(d) ==
    LET r == dispatches[d]
        idle == [r EXCEPT !.effect = NoEffect]
    IN
    /\ r.effect.kind = "Activation" /\ r.effect.at \in Outcomes
    /\ \/ /\ r.life = "Faulted"
          /\ Update(d, ContinueContainment(idle))
          /\ worker' = IF RetiresWorker(idle) THEN Retire(worker, r.gen) ELSE worker
          /\ UNCHANGED <<stream, lane, mutations, controls>>
       \/ /\ r.life # "Faulted" /\ r.effect.at = "failed"
          /\ Update(d, [r EXCEPT !.effect = Retry("Activation")])
          /\ UNCHANGED <<stream, lane, mutations, controls, worker>>
       \/ /\ r.life # "Faulted" /\ r.effect.at = "applied"
          /\ Activated(d)
    /\ UNCHANGED <<job, attempt, request, claim, prepared, faults, index, held, paused, stage,
                   wire>>

(* The activation retries at the head of ScheduleActor *)
RetryActivation(d) ==
    /\ ~IsDispatchAdmissionPaused
    /\ dispatches[d].own = "MayOwn" /\ dispatches[d].life # "Faulted"
    /\ dispatches[d].effect = Retry("Activation")
    /\ lane.gen = dispatches[d].gen
    /\ Update(d, [dispatches[d] EXCEPT !.effect = Begin("Activation")])
    /\ UNCHANGED <<job, attempt, request, claim, prepared, lane, controls, stream, faults,
                   mutations, index, held, paused, stage, worker, wire>>

-----------------------------------------------------------------------------
(* Draining, release and containment *)

ProcessPendingDrainingTransitions(d) ==
    LET r == dispatches[d] IN
    /\ MarkDispatchDraining(r) # r
    /\ Update(d, MarkDispatchDraining(r))
    /\ UNCHANGED <<job, attempt, request, claim, prepared, lane, controls, stream, faults,
                   mutations, index, held, paused, stage, worker, wire>>

HandleDrainingIoCompletion(d) ==
    LET r == dispatches[d]
        idle == [r EXCEPT !.effect = NoEffect]
    IN
    /\ r.effect.kind = "MarkDraining" /\ r.effect.at \in Outcomes
    /\ \/ /\ r.effect.at = "failed"
          /\ Update(d, [r EXCEPT !.effect = Retry("MarkDraining")])
          /\ UNCHANGED <<faults, lane>>
       \/ /\ r.effect.at = "applied"
          /\ MaybeRetire(d, [idle EXCEPT !.drained =
                               @ \/ (r.own = "Worker" /\ r.life = "Draining")])
          /\ UNCHANGED faults
       \/ /\ r.effect.at = "rejected"
          /\ Update(d, idle)
          /\ faults' = IF r.own = "Closed" THEN faults ELSE faults \cup {d}
          /\ UNCHANGED lane
    /\ UNCHANGED <<job, attempt, request, claim, prepared, controls, stream, mutations, index,
                   held, paused, stage, worker, wire>>

HandleReleaseIoCompletion(d) ==
    LET r == dispatches[d] IN
    /\ r.effect.kind = "Release" /\ r.effect.at \in Outcomes
    /\ \/ /\ r.effect.at # "applied"
          /\ Update(d, [r EXCEPT !.effect = Retry("Release")])
          /\ UNCHANGED <<lane, prepared>>
       \/ /\ r.effect.at = "applied"
          /\ lane' = ClearWorkerIdentity(r, d)
          /\ prepared' = prepared \ {d}
          /\ IF r.kept
             THEN Update(d, [r EXCEPT !.own = "Closed", !.effect = NoEffect, !.released = TRUE,
                                      !.contain = "none"])
             ELSE RemoveDispatch(d)
    /\ UNCHANGED <<job, attempt, request, claim, controls, stream, faults, mutations, index,
                   held, paused, stage, worker, wire>>

ProcessContainment(d) ==
    LET r == dispatches[d] IN
    /\ ContinueContainment(r) # r
    /\ Update(d, ContinueContainment(r))
    /\ worker' = IF RetiresWorker(r) THEN Retire(worker, r.gen) ELSE worker
    /\ UNCHANGED <<job, attempt, request, claim, prepared, lane, controls, stream, faults,
                   mutations, index, held, paused, stage, wire>>

(* The actor applies a fault: admission pauses until an operator clears it,  *)
(* and the dispatch is contained, if it is still known.                      *)
ApplyFaultDispatch(d) ==
    /\ d \in faults
    /\ faults' = faults \ {d}
    /\ paused' = TRUE
    /\ IF d \notin Registered THEN UNCHANGED <<dispatches, worker>>
       ELSE LET retire == dispatches[d].own \in {"MayOwn", "Worker"}
                r == [dispatches[d] EXCEPT !.life = "Faulted", !.keep = retire,
                        !.contain = IF retire THEN "retire" ELSE "release"]
            IN /\ Update(d, ContinueContainment(r))
               /\ worker' = IF RetiresWorker(r) THEN Retire(worker, r.gen) ELSE worker
    /\ UNCHANGED <<job, attempt, request, claim, prepared, lane, controls, stream, mutations,
                   index, held, stage, wire>>

(* An operator may resume admission once no faulted dispatch is unresolved. *)
ClearInvariantPause ==
    /\ paused
    /\ \A d \in Registered : dispatches[d].life = "Faulted" =>
         /\ dispatches[d].own = "Closed"
         /\ dispatches[d].contain = "none"
         /\ dispatches[d].effect = NoEffect
    /\ paused' = FALSE
    /\ UNCHANGED <<job, attempt, request, dispatches, claim, prepared, lane, controls, stream,
                   faults, mutations, index, held, stage, worker, wire>>

-----------------------------------------------------------------------------
(* The worker's process, as WorkerWorksets details it *)

Event(type, j, unstarted) ==
    [type |-> type, gen |-> worker.gen, dispatch |-> worker.dispatch, job |-> j,
     unstarted |-> unstarted]
Send(e) == wire' = Append(wire, e)
coordinatorVars == <<job, attempt, request, dispatches, claim, prepared, lane, controls, stream,
                     faults, mutations, index, held, paused, stage>>

StartItem(j) ==
    /\ worker.items[j] = "waiting"
    /\ \A i \in Items : worker.items[i] # "running" /\ (i < j => worker.items[i] # "waiting")
    /\ worker' = [worker EXCEPT !.items[j] = "running"]
    /\ Send(Event("Started", j, FALSE))
    /\ UNCHANGED coordinatorVars

EndItem(j) ==
    /\ worker.items[j] = "running"
    /\ worker' = [worker EXCEPT !.items[j] = "ended"]
    /\ Send(Event("Terminal", j, FALSE))
    /\ UNCHANGED coordinatorVars

CompleteWorkset ==
    /\ worker.dispatch # 0 /\ ~worker.done
    /\ \A j \in Items : worker.items[j] \notin {"waiting", "running"}
    /\ worker' = [worker EXCEPT !.done = TRUE]
    /\ Send(Event("Completed", 0, FALSE))
    /\ UNCHANGED coordinatorVars

(* Assumed: the worker can still number the summary. When its counter is     *)
(* exhausted it forgets the workset without one (WorkerWorksets, ended), and *)
(* the dispatch is settled only when the process goes.                       *)
SummariseWorkset ==
    /\ worker.done
    /\ \A j \in Items : worker.items[j] # "ended"
    /\ worker' = [worker EXCEPT !.dispatch = 0, !.items = NoItem, !.done = FALSE]
    /\ Send(Event("Summary", 0, FALSE))
    /\ UNCHANGED coordinatorVars

WorkerDies ==
    /\ worker.up
    /\ WorkerMayDie \/ worker.retire \/ Quiescing
    /\ worker' = [worker EXCEPT !.up = FALSE, !.dispatch = 0, !.items = NoItem, !.done = FALSE]
    /\ Send(Event("Unavailable", 0, FALSE))
    /\ UNCHANGED coordinatorVars

(* The slot's next process, and HandleWorkerReady *)
HandleWorkerReady ==
    /\ ~worker.up /\ wire = <<>> /\ ~Quiescing
    /\ worker.gen < MaxGenerations
    /\ worker' = [worker EXCEPT !.gen = @ + 1, !.up = TRUE, !.retire = FALSE]
    /\ lane' = ReadyLane(worker.gen + 1)
    /\ UNCHANGED <<job, attempt, request, dispatches, claim, prepared, controls, stream, faults,
                   mutations, index, held, paused, stage, wire>>

-----------------------------------------------------------------------------
(* The worker's events reach the actor in order *)

Arrives(types) == wire # <<>> /\ Head(wire).type \in types /\ wire' = Tail(wire)

(* Evidence that overtakes the answer to the submission waits in a buffer;   *)
(* the mailbox forgets what it was submitting when the answer is handled.    *)
IsBuffered(e) ==
    LET d == lane.submitting IN
    /\ lane.gen = e.gen
    /\ d \in Registered
    /\ \/ dispatches[d].own = "Coordinator" /\ dispatches[d].effect.kind = "Submission"
       \/ dispatches[d].own = "MayOwn"

RoutePersistenceEvent ==
    LET e == Head(wire) IN
    /\ Arrives({"Started", "Terminal", "Summary"})
    /\ \/ /\ IsBuffered(e)
          /\ stream' = [stream EXCEPT ![lane.submitting].buffered = Append(@, e)]
          /\ UNCHANGED dispatches
       \/ /\ ~IsBuffered(e)
          /\ stream' = [stream EXCEPT ![e.dispatch] = Enqueue(@, <<e>>)]
          /\ IF Overflows(stream[e.dispatch], <<e>>) /\ e.dispatch \in Registered
             THEN Update(e.dispatch, ReleaseDispatch(dispatches[e.dispatch], FALSE))
             ELSE UNCHANGED dispatches
    /\ UNCHANGED <<job, attempt, request, claim, prepared, lane, controls, faults, mutations,
                   index, held, paused, stage, worker>>

HandleWorksetState ==
    LET e == Head(wire)
        d == e.dispatch
        r == dispatches[d]
    IN
    /\ Arrives({"Completed"})
    /\ lane' = IF lane.gen = e.gen THEN [lane EXCEPT !.state = "Draining", !.active = 0] ELSE lane
    /\ \/ /\ d \in Registered /\ r.gen = e.gen
          /\ Update(d, [r EXCEPT !.observed = TRUE,
                                 !.life = IF r.own = "Worker" /\ @ = "Active" THEN "Draining" ELSE @])
          /\ UNCHANGED faults
       \/ /\ d \in Registered /\ r.gen # e.gen
          /\ faults' = IF r.own = "Closed" THEN faults ELSE faults \cup {d}
          /\ UNCHANGED dispatches
       \/ d \notin Registered /\ UNCHANGED <<dispatches, faults>>
    /\ UNCHANGED <<job, attempt, request, claim, prepared, controls, stream, mutations, index,
                   held, paused, stage, worker>>

(* Defect: the command that was lost with the mailbox stays the dispatch's   *)
(* pending effect.                                                           *)
LostKeepingEffect(r) ==
    LET owned == r.own # "Coordinator"
        lost == [r EXCEPT !.released = @ \/ owned, !.own = "Coordinator", !.life = "Faulted",
                          !.keep = IF r.contain = "none" THEN owned ELSE @,
                          !.contain = "release"]
    IN IF Quiescing THEN lost ELSE ReleaseDispatch(lost, owned)

(* What HandleWorkerUnavailable makes of a dispatch of the lost process *)
Lost(r) ==
    LET owned == r.own # "Coordinator"
        lost == [r EXCEPT !.effect = IF @.kind \in {"Submission", "Residence"} THEN NoEffect ELSE @,
                          !.released = @ \/ owned, !.own = "Coordinator", !.life = "Faulted",
                          !.keep = IF r.contain = "none" THEN owned ELSE @,
                          !.contain = "release"]
    IN IF Quiescing THEN lost ELSE ReleaseDispatch(lost, owned)

HandleWorkerUnavailable ==
    LET g == Head(wire).gen IN
    /\ Arrives({"Unavailable"})
    /\ lane' = IF lane.gen = g THEN NoLane ELSE lane
    /\ controls' = IF lane.gen = g THEN {c \in controls : c.at # "queued"} ELSE controls
    /\ dispatches' = [d \in Registered |->
                        IF dispatches[d].gen = g THEN Lost(dispatches[d]) ELSE dispatches[d]]
    /\ UNCHANGED <<job, attempt, request, claim, prepared, stream, faults, mutations, index,
                   held, paused, stage, worker>>

-----------------------------------------------------------------------------
(* Persistence: for the first event of a dispatch's stream the actor checks  *)
(* the route and asks for the store call; when its result comes, the handler *)
(* runs again from the start.                                                *)

EvidenceOf(d) == Head(stream[d].events)
HasEvidence(d, types) == stream[d].events # <<>> /\ EvidenceOf(d).type \in types
Consume(d) == stream' = [stream EXCEPT ![d].events = Tail(@), ![d].io = "none"]

RoutedToOwner(d) ==
    d \in Registered /\ dispatches[d].own = "Worker" /\ dispatches[d].gen = EvidenceOf(d).gen
IsStaged(d) == EvidenceOf(d).type = "Terminal" /\ EvidenceOf(d).job \in dispatches[d].staged
Acknowledge(d, j) == EnqueueControls(dispatches[d].gen, {Control("ack", d, j)})

(* The early returns of HandleItemStarted and HandleTerminal *)
DiscardEvidence(d) ==
    /\ HasEvidence(d, {"Started", "Terminal"})
    /\ stream[d].io # "wait"
    /\ \/ d \notin Registered /\ UNCHANGED <<faults, controls>>
       \/ /\ d \in Registered /\ dispatches[d].own # "MayOwn" /\ ~RoutedToOwner(d)
          /\ faults' = IF dispatches[d].own = "Closed" /\ dispatches[d].released THEN faults
                       ELSE faults \cup {d}
          /\ UNCHANGED controls
       \/ /\ RoutedToOwner(d) /\ IsStaged(d)
          /\ Acknowledge(d, EvidenceOf(d).job)
          /\ UNCHANGED faults
    /\ Consume(d)
    /\ UNCHANGED <<job, attempt, request, dispatches, claim, prepared, lane, mutations, index,
                   held, paused, stage, worker, wire>>

(* Defect: a terminal is acknowledged when it is read, before it is stored. *)
BeginPersistenceAcknowledging(d) ==
    /\ HasEvidence(d, {"Started", "Terminal"})
    /\ stream[d].io = "none"
    /\ RoutedToOwner(d) /\ ~IsStaged(d)
    /\ stream' = [stream EXCEPT ![d].io = "wait"]
    /\ IF EvidenceOf(d).type = "Terminal" THEN Acknowledge(d, EvidenceOf(d).job)
       ELSE UNCHANGED controls
    /\ UNCHANGED <<job, attempt, request, dispatches, claim, prepared, lane, faults, mutations,
                   index, held, paused, stage, worker, wire>>

BeginPersistence(d) ==
    /\ HasEvidence(d, {"Started", "Terminal"})
    /\ stream[d].io = "none"
    /\ RoutedToOwner(d) /\ ~IsStaged(d)
    /\ stream' = [stream EXCEPT ![d].io = "wait"]
    /\ UNCHANGED <<job, attempt, request, dispatches, claim, prepared, lane, controls, faults,
                   mutations, index, held, paused, stage, worker, wire>>

Executing(d) == attempt[d] \in {"ACTIVE", "DRAINING"}

(* MarkWorksetJobStarted and StageWorkerTerminal: the state they require and *)
(* what they write.                                                          *)
MarkWorksetJobStarted(d, e) ==
    [allowed |-> Executing(d) /\ job[e.job] = [state |-> "CLAIMED", dispatch |-> d],
     state |-> "RUNNING", closes |-> FALSE, request |-> request]

StageWorkerTerminal(d, e) ==
    [allowed |-> /\ Executing(d)
                 /\ job[e.job] = [state |-> IF e.unstarted THEN "CLAIMED" ELSE "RUNNING",
                                  dispatch |-> d],
     state |-> "FINISHED", closes |-> attempt[d] = "DRAINING" /\ Holds(d) = {e.job},
     request |-> [request EXCEPT ![e.job] = IF @ = "ACTIVE" THEN "RESOLVED" ELSE @]]

(* One event of PersistWorkerExecutionEventsBatch; a repetition of what is   *)
(* already there is applied, anything else lost its authority.               *)
PersistWorkerEvent(d) ==
    LET e == EvidenceOf(d)
        write == IF e.type = "Started" THEN MarkWorksetJobStarted(d, e) ELSE StageWorkerTerminal(d, e)
        repeated == job[e.job] = [state |-> write.state, dispatch |-> d]
        ends(at) == stream' = [stream EXCEPT ![d].io = at]
    IN
    /\ stream[d].io = "wait"
    /\ \/ /\ write.allowed
          /\ job' = [job EXCEPT ![e.job].state = write.state]
          /\ attempt' = [attempt EXCEPT ![d] = IF write.closes THEN "CLOSED" ELSE @]
          /\ request' = write.request
          /\ ends("applied")
       \/ repeated /\ ends("applied") /\ UNCHANGED storeVars
       \/ ~write.allowed /\ ~repeated /\ ends("rejected") /\ UNCHANGED storeVars
       \/ DbMayFail /\ ends("failed") /\ UNCHANGED storeVars
    /\ UNCHANGED <<dispatches, claim, prepared, lane, controls, faults, mutations, index, held,
                   paused, stage, worker, wire>>

(* HandleItemStarted and HandleTerminal with the result of the store call *)
HandlePersisted(d) ==
    LET e == EvidenceOf(d)
        staged == [dispatches[d] EXCEPT !.staged = @ \cup {e.job}]
    IN
    /\ stream[d].io \in Outcomes
    /\ RoutedToOwner(d) /\ ~IsStaged(d)
    /\ \/ /\ stream[d].io = "failed"
          /\ stream' = [stream EXCEPT ![d].io = "none"]
          /\ UNCHANGED <<dispatches, lane, controls, faults, mutations>>
       \/ /\ stream[d].io = "rejected"
          /\ Consume(d)
          /\ faults' = faults \cup {d}
          /\ UNCHANGED <<dispatches, lane, controls, mutations>>
       \/ /\ stream[d].io = "applied"
          /\ Consume(d)
          /\ IF e.type = "Started" THEN UNCHANGED <<dispatches, lane, controls, mutations>>
             ELSE /\ mutations' = mutations \cup
                       {Mutation("resolved", j, d) : j \in {e.job} \cap index}
                  /\ Acknowledge(d, e.job)
                  /\ MaybeRetire(d, staged)
          /\ UNCHANGED faults
    /\ UNCHANGED <<job, attempt, request, claim, prepared, index, held, paused, stage, worker,
                   wire>>

HandleWorksetSummary(d) ==
    /\ HasEvidence(d, {"Summary"})
    /\ \/ d \notin Registered /\ UNCHANGED <<dispatches, lane, faults>>
       \/ /\ d \in Registered /\ dispatches[d].own # "MayOwn"
          /\ dispatches[d].gen # EvidenceOf(d).gen
          /\ faults' = IF dispatches[d].own = "Closed" /\ dispatches[d].released THEN faults
                       ELSE faults \cup {d}
          /\ UNCHANGED <<dispatches, lane>>
       \/ /\ d \in Registered /\ dispatches[d].own # "MayOwn"
          /\ dispatches[d].gen = EvidenceOf(d).gen
          /\ MaybeRetire(d, [dispatches[d] EXCEPT !.summary = TRUE])
          /\ UNCHANGED faults
    /\ Consume(d)
    /\ UNCHANGED <<job, attempt, request, claim, prepared, controls, mutations, index, held,
                   paused, stage, worker, wire>>

-----------------------------------------------------------------------------
(* Commands to the worker *)

(* The mailbox thread acknowledges a terminal; a lost worker does not answer *)
(* and the command is repeated.                                              *)
ExecuteAcknowledge(c) ==
    /\ c.kind = "ack" /\ c.at = "queued"
    /\ worker.up
    /\ worker' = IF worker.dispatch = c.dispatch THEN [worker EXCEPT !.items[c.job] = "acked"]
                 ELSE worker
    /\ controls' = (controls \ {c}) \cup {[c EXCEPT !.at = "done"]}
    /\ UNCHANGED <<job, attempt, request, dispatches, claim, prepared, lane, stream, faults,
                   mutations, index, held, paused, stage, wire>>

HandleWorkerControlCompletion(c) ==
    /\ c.at = "done"
    /\ controls' = controls \ {c}
    /\ IF c.dispatch \in Registered
       THEN MaybeRetire(c.dispatch, [dispatches[c.dispatch] EXCEPT !.acked = @ \cup {c.job}])
       ELSE UNCHANGED <<dispatches, lane>>
    /\ UNCHANGED <<job, attempt, request, claim, prepared, stream, faults, mutations, index,
                   held, paused, stage, worker, wire>>

(* A cancelled item that waits ends without having started; a running one    *)
(* ends the sooner, a finished one does not notice.  That the command was    *)
(* delivered or not is only recorded.                                        *)
CancelWorksetItem(c) ==
    /\ c.kind = "cancel"
    /\ controls' = controls \ {c}
    /\ IF worker.dispatch = c.dispatch /\ worker.items[c.job] = "waiting"
       THEN /\ worker' = [worker EXCEPT !.items[c.job] = "ended"]
            /\ Send(Event("Terminal", c.job, TRUE))
       ELSE UNCHANGED workerVars
    /\ UNCHANGED <<job, attempt, request, dispatches, claim, prepared, lane, stream, faults,
                   mutations, index, held, paused, stage>>

-----------------------------------------------------------------------------
(* Cancellation *)

(* The result processor commits a request; the job has been on hold since    *)
(* before.  The receipt carries the job's state at the commit.               *)
CommitCancellation(j) ==
    /\ j \in Cancellable /\ request[j] = "NONE"
    /\ stage = "Running"
    /\ request' = [request EXCEPT ![j] = "ACTIVE"]
    /\ held' = [i \in DOMAIN held \cup {j} |-> IF i = j THEN job[j].state ELSE held[i]]
    /\ UNCHANGED <<job, attempt, dispatches, claim, prepared, lane, controls, stream, faults,
                   mutations, index, paused, stage, worker, wire>>

Containing(j) == {d \in Registered : j \in dispatches[d].items}

(* Defect: a cancellation that meets the submission is not kept for the      *)
(* activation.                                                               *)
TellDispatchAfterSubmission(d, j) ==
    LET r == dispatches[d] IN
    /\ dispatches' = IF r.own = "MayOwn" THEN [dispatches EXCEPT ![d].pending = @ \cup {j}]
                     ELSE dispatches
    /\ mutations' = IF j \in r.staged THEN mutations \cup {Mutation("resolved", j, d)} ELSE mutations
    /\ IF j \notin r.staged /\ r.own = "Worker" /\ r.life \in {"Active", "Draining"}
       THEN EnqueueControls(r.gen, {Control("cancel", d, j)})
       ELSE UNCHANGED controls

(* The first dispatch that contains the job is told, whichever the iteration *)
(* of the hash map meets first.                                              *)
TellDispatch(d, j) ==
    LET r == dispatches[d] IN
    /\ dispatches' = IF r.own = "MayOwn" \/ (r.own = "Coordinator" /\ r.effect.kind = "Submission")
                     THEN [dispatches EXCEPT ![d].pending = @ \cup {j}] ELSE dispatches
    /\ mutations' = IF j \in r.staged THEN mutations \cup {Mutation("resolved", j, d)} ELSE mutations
    /\ IF j \notin r.staged /\ r.own = "Worker" /\ r.life \in {"Active", "Draining"}
       THEN EnqueueControls(r.gen, {Control("cancel", d, j)})
       ELSE UNCHANGED controls

RegisterCommittedCancellations(j) ==
    /\ j \in DOMAIN held
    /\ index' = index \cup {j}
    /\ held' = Restrict(held, DOMAIN held \ {j})
    /\ \/ \E d \in Containing(j) : TellDispatch(d, j)
       \/ /\ Containing(j) = {}
          /\ mutations' = IF held[j] \in {"FINISHED", "CANCELED"}
                          THEN mutations \cup {Mutation("resolved", j, 0)} ELSE mutations
          /\ UNCHANGED <<dispatches, controls>>
    /\ UNCHANGED <<job, attempt, request, claim, prepared, lane, stream, faults, paused, stage,
                   worker, wire>>

(* ApplyJobCancellationOutcomeInTransaction: only the dispatch that holds    *)
(* the job may end it, and only before it started.  A dispatch that was      *)
(* never activated closes with its last item.                                *)
MutateJobCancellation(m) ==
    LET j == m.job
        mine == m.dispatch = 0 \/ job[j].dispatch = m.dispatch
        ends(at) == mutations' = (mutations \ {m}) \cup {[m EXCEPT !.at = at]}
        resolves == request' = [request EXCEPT ![j] = "RESOLVED"]
    IN
    /\ m.at = "queued"
    /\ \/ request[j] = "RESOLVED" /\ ends("applied") /\ UNCHANGED storeVars
       \/ /\ request[j] # "RESOLVED" /\ mine /\ m.kind = "resolved"
          /\ ends("applied") /\ resolves /\ UNCHANGED <<job, attempt>>
       \/ /\ request[j] # "RESOLVED" /\ mine /\ m.kind = "sidecar" /\ job[j].state = "CLAIMED"
          /\ ends("applied") /\ resolves
          /\ job' = [job EXCEPT ![j].state = "CANCELED"]
          /\ attempt' = [attempt EXCEPT ![m.dispatch] =
                           IF @ = "CLAIMED" /\ Holds(m.dispatch) = {j} THEN "CLOSED" ELSE @]
       \/ /\ request[j] # "RESOLVED"
          /\ ~mine \/ (m.kind = "sidecar" /\ job[j].state # "CLAIMED")
          /\ ends("rejected") /\ UNCHANGED storeVars
    /\ UNCHANGED <<dispatches, claim, prepared, lane, controls, stream, faults, index, held,
                   paused, stage, worker, wire>>

ApplyCancellationMutationReceipts(m) ==
    LET d == m.dispatch
        r == [dispatches[d] EXCEPT !.persisted = @ \cup {m.job}]
    IN
    /\ m.at \in Outcomes
    /\ mutations' = mutations \ {m}
    /\ \/ /\ m.at = "rejected"
          /\ faults' = IF m.kind = "sidecar" THEN faults \cup {d} ELSE faults
          /\ paused' = (paused \/ m.kind # "sidecar")
          /\ UNCHANGED <<dispatches, lane, index>>
       \/ /\ m.at = "applied"
          /\ index' = index \ {m.job}
          /\ IF m.kind # "sidecar" \/ d \notin Registered THEN UNCHANGED <<dispatches, lane>>
             ELSE IF r.suppressed = r.items /\ r.persisted = r.suppressed
             THEN RemoveDispatch(d) /\ lane' = ClearWorkerIdentity(r, d)
             ELSE MaybeRetire(d, r)
          /\ UNCHANGED <<faults, paused>>
    /\ UNCHANGED <<job, attempt, request, claim, prepared, controls, stream, held, stage, worker,
                   wire>>

-----------------------------------------------------------------------------
(* Shutdown: quiesce, stop the workers, let every effect end, recover *)

BeginShutdown ==
    /\ MayShutDown /\ stage = "Running"
    /\ stage' = "Quiescing"
    /\ dispatches' = [d \in Registered |->
                        IF dispatches[d].effect = Begin("Reconstruction")
                        THEN [dispatches[d] EXCEPT !.effect = NoEffect, !.life = "Faulted"]
                        ELSE dispatches[d]]
    /\ UNCHANGED <<job, attempt, request, claim, prepared, lane, controls, stream, faults,
                   mutations, index, held, paused, worker, wire>>

FinishShutdownAfterWorkersStopped ==
    /\ stage = "Quiescing"
    /\ ~worker.up /\ wire = <<>>
    /\ stage' = "WorkersStopped"
    /\ UNCHANGED <<job, attempt, request, dispatches, claim, prepared, lane, controls, stream,
                   faults, mutations, index, held, paused, worker, wire>>

ProcessShutdown ==
    /\ stage = "WorkersStopped"
    /\ claim.at = "none"
    /\ \A d \in Registered : dispatches[d].effect = NoEffect
    /\ \A d \in Ids : stream[d].events = <<>>
    /\ \A m \in mutations : m.at # "queued"
    /\ stage' = "Recovering"
    /\ UNCHANGED <<job, attempt, request, dispatches, claim, prepared, lane, controls, stream,
                   faults, mutations, index, held, paused, worker, wire>>

(* RecoverInterruptedWorksetDispatches and its completion *)
ShutdownRecovery ==
    LET open == {d \in Ids : attempt[d] \in {"CLAIMED", "ACTIVE", "DRAINING"}} IN
    /\ stage = "Recovering"
    /\ \/ /\ job' = ReturnJobs(open)
          /\ attempt' = [d \in Ids |-> IF d \in open THEN "CLOSED" ELSE attempt[d]]
       \/ DbMayFail /\ UNCHANGED <<job, attempt>>
    /\ stage' = "Recovered"
    /\ dispatches' = <<>>
    /\ prepared' = {}
    /\ UNCHANGED <<request, claim, lane, controls, stream, faults, mutations, index, held,
                   paused, worker, wire>>

-----------------------------------------------------------------------------

DispatchStep(d) ==
    \/ Reconstruct(d) \/ ReconstructionFails(d) \/ AdmitPreparedDispatch(d)
    \/ SubmitWorksetToWorker(d) \/ HandleSubmissionCompletion(d)
    \/ ConfirmResidence(d) \/ HandleResidenceCompletion(d)
    \/ CoordinationIo(d) \/ CoordinationIoFails(d)
    \/ HandleActivationIoCompletion(d) \/ RetryActivation(d)
    \/ ProcessPendingDrainingTransitions(d) \/ HandleDrainingIoCompletion(d)
    \/ HandleReleaseIoCompletion(d) \/ ProcessContainment(d)

EvidenceStep(d) ==
    \/ DiscardEvidence(d) \/ BeginPersistence(d) \/ PersistWorkerEvent(d) \/ HandlePersisted(d)
    \/ HandleWorksetSummary(d)

ClaimStep == ScheduleClaim \/ ClaimIo \/ ClaimFails \/ HandleClaimIoCompletion
WorkerEventStep == RoutePersistenceEvent \/ HandleWorksetState \/ HandleWorkerUnavailable
ControlStep ==
    \E c \in controls :
        ExecuteAcknowledge(c) \/ HandleWorkerControlCompletion(c) \/ CancelWorksetItem(c)
CancellationStep ==
    \/ \E j \in Items : RegisterCommittedCancellations(j)
    \/ \E m \in mutations : MutateJobCancellation(m) \/ ApplyCancellationMutationReceipts(m)
ShutdownStep == FinishShutdownAfterWorkersStopped \/ ProcessShutdown \/ ShutdownRecovery

WorkerStep ==
    \/ \E j \in Items : StartItem(j) \/ EndItem(j)
    \/ CompleteWorkset \/ SummariseWorkset

Next ==
    \/ ClaimStep
    \/ \E d \in Registered : DispatchStep(d)
    \/ \E d \in Ids : EvidenceStep(d) \/ ApplyFaultDispatch(d)
    \/ WorkerEventStep
    \/ ControlStep
    \/ CancellationStep
    \/ ShutdownStep
    \/ WorkerStep
    \/ WorkerDies
    \/ HandleWorkerReady
    \/ \E j \in Items : CommitCancellation(j)
    \/ ClearInvariantPause
    \/ BeginShutdown

Spec == Init /\ [][Next]_vars

(* Every queue of the coordinator is served and the worker goes on; a worker *)
(* that is told to retire, or that the shutdown stops, exits.  Nobody has to *)
(* cancel, to clear a pause or to stop the coordinator, and no worker has to *)
(* fail.                                                                     *)
LiveSpec ==
    /\ Spec
    /\ WF_vars(ClaimStep)
    /\ \A d \in Ids : /\ WF_vars(d \in Registered /\ DispatchStep(d))
                      /\ WF_vars(EvidenceStep(d))
                      /\ WF_vars(ApplyFaultDispatch(d))
    /\ WF_vars(WorkerEventStep)
    /\ WF_vars(ControlStep)
    /\ WF_vars(CancellationStep)
    /\ WF_vars(ShutdownStep)
    /\ WF_vars(WorkerStep)
    /\ WF_vars(WorkerDies /\ (worker.retire \/ Quiescing))
    /\ WF_vars(HandleWorkerReady)

-----------------------------------------------------------------------------
(* Properties *)

DispatchTypeOK ==
    /\ job \in [Items -> [state : {"QUEUED", "CLAIMED", "RUNNING", "FINISHED", "CANCELED", "INTERRUPTED"},
                          dispatch : {0} \cup Ids]]
    /\ attempt \in [Ids -> {"none", "CLAIMED", "ACTIVE", "DRAINING", "CLOSED"}]
    /\ request \in [Items -> {"NONE", "ACTIVE", "RESOLVED"}]
    /\ Registered \subseteq Ids /\ \A d \in Registered : dispatches[d] \in DispatchRecord
    /\ claim \in [at : {"none", "queued", "done"}, items : SUBSET Items, before : SUBSET (Ids \X Kinds)]
    /\ prepared \subseteq Registered
    /\ lane \in [gen : {0} \cup Generations, submitting : {0} \cup Ids, active : {0} \cup Ids,
                  state : {"none", "Ready", "Submitting", "Active", "Draining"}]
    /\ controls \subseteq [kind : {"ack", "cancel"}, dispatch : Ids, job : Items,
                           at : {"queued", "done"}]
    /\ \A d \in Ids : Len(stream[d].events) <= EvidenceLimit
    /\ faults \subseteq Ids
    /\ mutations \subseteq [kind : {"sidecar", "resolved"}, job : Items, dispatch : {0} \cup Ids,
                            at : {"queued"} \cup Outcomes]
    /\ index \subseteq Items /\ DOMAIN held \subseteq Items

(* Coordinator, store and worker together keep custody of every job: none    *)
(* is handed back, cancelled or finished under a live worker, through        *)
(* submissions without an answer, faults, containment, loss of the worker    *)
(* and shutdown.                                                             *)
Executed(j) == worker.items[j] \in {"waiting", "running"}
Custody == INSTANCE JobCustody WITH
    Jobs <- Items, Dispatches <- Ids,
    executing <- [j \in Items |-> IF Executed(j) THEN worker.dispatch ELSE 0]
CustodyKept == Custody!Spec

(* A terminal the worker has been allowed to forget is durable, and the      *)
(* acknowledgement belongs to the dispatch that staged it.                   *)
AckedIsDurable ==
    \A j \in Items :
        worker.items[j] = "acked" => job[j] = [state |-> "FINISHED", dispatch |-> worker.dispatch]

(* A dispatch the coordinator has forgotten holds no job and is closed in    *)
(* the store, so that nothing waits for the next restart.  One exception: a  *)
(* draining dispatch whose last item its sidecar cancelled stays open.       *)
CancelledBySidecar(d) == \E j \in Items : job[j] = [state |-> "CANCELED", dispatch |-> d]
ForgottenIsClosed ==
    \A d \in Ids \ Registered :
        \/ attempt[d] \in {"none", "CLOSED"} /\ Holds(d) = {}
        \/ attempt[d] = "DRAINING" /\ Holds(d) = {} /\ CancelledBySidecar(d)
        \/ claim.at = "done" /\ Holds(d) = claim.items
        \/ stage = "Recovered" /\ DbMayFail

(* The cancellation of an item that waits in a live worker is on its way to  *)
(* it, whether it was committed before, during or after the submission,      *)
(* unless the dispatch is faulted or the job is also in another dispatch.    *)
CancellationOnItsWay ==
    \A j \in Items : request[j] = "ACTIVE" /\ worker.items[j] = "waiting" =>
        LET d == worker.dispatch IN
        \/ j \in DOMAIN held
        \/ Control("cancel", d, j) \in controls
        \/ j \in dispatches[d].pending
        \/ dispatches[d].life = "Faulted"
        \/ Containing(j) # {d}

(* The ordered start of an item is accepted before its terminal: the store   *)
(* never rejects the evidence of a healthy worker.                           *)
StartBeforeTerminal == \A d \in Ids : stream[d].io # "rejected"

(* Jobs handed to a worker are finished, cancelled or given back. *)
HandedOutSettles ==
    \A d \in Ids :
        d \in Registered /\ dispatches[d].own \in {"MayOwn", "Worker"} ~> Holds(d) = {}

(* A shutdown that has begun reaches the recovery. *)
ShutdownRecovers == stage = "Quiescing" ~> stage = "Recovered"

=============================================================================
