-------------------------- MODULE ExecutionDbProofs --------------------------
(***************************************************************************)
(* The safety properties of the durable execution store, for any set of    *)
(* jobs, any budget and any bounds: most are parts of one inductive        *)
(* invariant, IInv; QueuedClaimable and AvailabilityCovers, which count the *)
(* jobs of a workset, follow from a second one over it, StoreInv.          *)
(***************************************************************************)
EXTENDS ExecutionDb, FiniteSetTheorems, SequenceTheorems, TLAPS

(* What the invariant says of one job row, its completions and reopenings. *)
(* The last two conjuncts strengthen it: a claimed item has budget left    *)
(* for the attempt it reserved, and a running one has spent one.           *)
RowOK(r, c, o) ==
    /\ r.state = "EXECUTION_FINISHED" <=> r.blob = "LIVE"
    /\ r.processing \in {"PENDING", "PROCESSING"} <=> r.blob = "LIVE"
    /\ c = o + (IF r.state \in Final THEN 1 ELSE 0)
    /\ r.attempts <= r.max /\ r.max <= MaxAttempts + o
    /\ r.state = "CLAIMED" => r.attempts < r.max
    /\ r.state = "RUNNING" => r.attempts # 0

RowsOK == \A j \in Jobs : RowOK(job[j], completions[j], reopens[j])

IInv == TypeOK /\ UnfinishedOwned /\ OneOpenDispatch /\ RowsOK /\ OneActiveRequest

USE DbAssumption

(* What a refresh writes is a row of two flags. *)
LEMMA RefreshTyped ==
    ASSUME Refresh
    PROVE  available' \in [ready : BOOLEAN, results : BOOLEAN]
  <1>1. ReadyWorksetExists' \in BOOLEAN
    BY DEF ReadyWorksetExists
  <1>2. PendingResultExists' \in BOOLEAN
    BY DEF PendingResultExists
  <1> QED BY <1>1, <1>2 DEF Refresh

(* The number of jobs with any property is a natural number. *)
LEMMA CountJobs ==
    ASSUME NEW J \in SUBSET Jobs
    PROVE  Cardinality(J) \in Nat
  BY FS_Subset, FS_CardinalityType

(* A function on an initial segment is a sequence. *)
LEMMA FunctionIsSeq ==
    ASSUME NEW n \in Nat, NEW S, NEW s \in [1 .. n -> S]
    PROVE  s \in Seq(S)
  <1>1. s \in UNION {[1 .. m -> S] : m \in Nat}
    BY Zenon
  <1> QED BY <1>1, SeqDef, Zenon

(* Initially nothing is claimed, finished or cancelled. *)
LEMMA InitStep ==
    ASSUME Init
    PROVE  IInv
  <1> PICK f \in [Jobs -> 1 .. FirstWorksets] :
        /\ job = [j \in Jobs |->
                    [state |-> "QUEUED", attempts |-> 0, max |-> MaxAttempts, workset |-> f[j],
                     dispatch |-> 0, token |-> 0, reserved |-> 0,
                     processing |-> "NULL", blob |-> "NULL"]]
        /\ itemCount = [w \in 1 .. FirstWorksets |-> Cardinality({j \in Jobs : f[j] = w})]
    BY DEF Init
  <1> USE DEF Init
  <1>1. job \in [Jobs -> Job]
    BY DEF Job, JobStates
  <1>2. itemCount \in Seq(Nat)
    <2>1. \A w \in 1 .. FirstWorksets : Cardinality({j \in Jobs : f[j] = w}) \in Nat
      BY CountJobs
    <2>2. itemCount \in [1 .. FirstWorksets -> Nat]
      BY <2>1
    <2>3. FirstWorksets \in Nat
      OBVIOUS
    <2> QED BY <2>2, <2>3, FunctionIsSeq
  <1>3. dispatches \in Seq([workset : Nat, state : OpenStates \cup {"CLOSED"}])
    OBVIOUS
  <1>4. available \in [ready : BOOLEAN, results : BOOLEAN]
    <2>1. (Jobs # {}) \in BOOLEAN
      OBVIOUS
    <2> QED BY <2>1
  <1>8. /\ request \in [Jobs -> [Jobs -> {"NONE", "RESOLVED"} \cup ActiveRequest]]
        /\ step \in [Steps -> StepStates]
        /\ completions \in [Jobs -> Nat]
        /\ reopens \in [Jobs -> Nat]
    BY DEF StepStates
  <1>5. TypeOK
    <2> HIDE DEF Init
    <2> QED BY <1>1, <1>2, <1>3, <1>4, <1>8 DEF TypeOK
  <1>6. UnfinishedOwned /\ RowsOK
    BY DEF UnfinishedOwned, RowsOK, RowOK, Unfinished, Final
  <1>7. OneOpenDispatch /\ OneActiveRequest
    BY DEF OneOpenDispatch, OpenDispatches, OneActiveRequest, ActiveRequest
  <1> QED BY <1>5, <1>6, <1>7 DEF IInv

(* A dispatch row by its number. *)
LEMMA DispatchRow ==
    ASSUME TypeOK, NEW d \in DOMAIN dispatches
    PROVE  dispatches[d] \in [workset : Nat, state : OpenStates \cup {"CLOSED"}]
  <1> DEFINE D == [workset : Nat, state : OpenStates \cup {"CLOSED"}]
  <1>1. dispatches \in Seq(D)
    BY DEF TypeOK
  <1> HIDE DEF D
  <1>2. dispatches[d] \in D
    BY <1>1, ElementOfSeq
  <1> QED BY <1>2 DEF D

(* Moving one dispatch to another state leaves the rest of the table alone. *)
LEMMA SetDispatchFacts ==
    ASSUME TypeOK, NEW d \in DOMAIN dispatches, NEW s \in OpenStates \cup {"CLOSED"},
           SetDispatch(d, s)
    PROVE  /\ dispatches' \in Seq([workset : Nat, state : OpenStates \cup {"CLOSED"}])
           /\ DOMAIN dispatches' = DOMAIN dispatches
           /\ \A e \in DOMAIN dispatches :
                /\ dispatches'[e].workset = dispatches[e].workset
                /\ dispatches'[e].state = IF e = d THEN s ELSE dispatches[e].state
  <1> DEFINE D == [workset : Nat, state : OpenStates \cup {"CLOSED"}]
  <1>1. dispatches \in Seq(D)
    BY DEF TypeOK
  <1> HIDE DEF D
  <1>2. dispatches[d] \in D
    BY <1>1, ElementOfSeq
  <1>3. dispatches' = [dispatches EXCEPT ![d] = [dispatches[d] EXCEPT !.state = s]]
    BY DEF SetDispatch
  <1>4. [dispatches[d] EXCEPT !.state = s] \in D
    BY <1>2 DEF D
  <1>5. dispatches' \in Seq(D)
    BY <1>1, <1>3, <1>4
  <1> QED BY <1>1, <1>2, <1>3, <1>5, ElementOfSeq DEF D

(* The job row a step writes is again a job row. *)
LEMMA JobRow ==
    ASSUME TypeOK, NEW j \in Jobs, NEW r \in Job, job' = [job EXCEPT ![j] = r]
    PROVE  /\ job' \in [Jobs -> Job]
           /\ job'[j] = r
           /\ \A i \in Jobs : i # j => job'[i] = job[i]
  BY DEF TypeOK

(* Ownership survives a step that hands out nothing new and closes no      *)
(* dispatch that still holds an item.                                      *)
LEMMA OwnedKept ==
    ASSUME UnfinishedOwned,
           \A i \in Jobs : job'[i].state \in Unfinished =>
             LET d == job[i].dispatch IN
             /\ job'[i] = job[i]
             /\ d \in OpenDispatches => d \in OpenDispatches'
             /\ dispatches'[d].workset = dispatches[d].workset
             /\ dispatches[d].state \in Executing => dispatches'[d].state \in Executing
    PROVE  UnfinishedOwned'
  BY DEF UnfinishedOwned

(* No second open dispatch of a workset without a new open dispatch. *)
LEMMA OpenKept ==
    ASSUME OneOpenDispatch, OpenDispatches' \subseteq OpenDispatches,
           \A d \in OpenDispatches : dispatches'[d].workset = dispatches[d].workset
    PROVE  OneOpenDispatch'
  BY DEF OneOpenDispatch

(* One row changes, and is as the invariant asks. *)
LEMMA RowsKept ==
    ASSUME TypeOK, RowsOK, NEW j \in Jobs, NEW r \in Job, job' = [job EXCEPT ![j] = r],
           RowOK(r, completions'[j], reopens'[j]),
           \A i \in Jobs : i # j => completions'[i] = completions[i] /\ reopens'[i] = reopens[i]
    PROVE  RowsOK'
  BY JobRow DEF RowsOK

(* Steps of the result processor and of cancellations leave a finished or  *)
(* claimed job j not unfinished; everyone else keeps what they own.        *)
LEMMA OthersOwned ==
    ASSUME TypeOK, UnfinishedOwned, NEW j \in Jobs, NEW r \in Job, job' = [job EXCEPT ![j] = r],
           r.state \notin Unfinished, UNCHANGED dispatches
    PROVE  UnfinishedOwned'
  <1>1. job'[j].state \notin Unfinished /\ \A i \in Jobs : i # j => job'[i] = job[i]
    BY JobRow
  <1> QED BY <1>1, OwnedKept DEF OpenDispatches

(* A dispatch that becomes active stays open. *)
LEMMA ActiveStep ==
    ASSUME IInv, NEW d \in DOMAIN dispatches, MarkWorksetActive(d)
    PROVE  IInv'
  <1> USE DEF IInv, MarkWorksetActive
  <1>1. /\ dispatches' \in Seq([workset : Nat, state : OpenStates \cup {"CLOSED"}])
        /\ DOMAIN dispatches' = DOMAIN dispatches
        /\ \A e \in DOMAIN dispatches :
                /\ dispatches'[e].workset = dispatches[e].workset
                /\ dispatches'[e].state = IF e = d THEN "ACTIVE" ELSE dispatches[e].state
    BY SetDispatchFacts DEF OpenStates
  <1>2. OpenDispatches' = OpenDispatches
    BY <1>1 DEF OpenDispatches, OpenStates
  <1>3. TypeOK'
    BY <1>1 DEF TypeOK
  <1>4. UnfinishedOwned'
    BY <1>1, <1>2, OwnedKept DEF UnfinishedOwned, OpenDispatches, Executing
  <1>5. OneOpenDispatch'
    BY <1>1, <1>2, OpenKept DEF OpenDispatches
  <1>6. RowsOK' /\ OneActiveRequest'
    BY DEF RowsOK, OneActiveRequest
  <1> QED BY <1>3, <1>4, <1>5, <1>6

(* A start report spends the attempt the claim reserved. *)
LEMMA StartedStep ==
    ASSUME IInv, NEW j \in Jobs, NEW d \in DOMAIN dispatches, MarkWorksetJobStarted(j, d)
    PROVE  IInv'
  <1> USE DEF IInv, MarkWorksetJobStarted
  <1> DEFINE r == [job[j] EXCEPT !.state = "RUNNING", !.attempts = job[j].reserved]
  <1>1. job[j] \in Job
    BY DEF TypeOK
  <1>2. r \in Job
    BY <1>1 DEF Job, JobStates, Unfinished
  <1>3. /\ job' \in [Jobs -> Job]
        /\ job'[j] = r
        /\ \A i \in Jobs : i # j => job'[i] = job[i]
    BY <1>2, JobRow
  <1>4. /\ r.state = "RUNNING" /\ r.attempts = job[j].reserved /\ r.reserved = job[j].reserved
        /\ r.workset = job[j].workset /\ r.dispatch = d /\ r.token = d
        /\ r.max = job[j].max /\ r.processing = job[j].processing /\ r.blob = job[j].blob
    BY <1>1 DEF Job
  <1> HIDE DEF r
  <1>5. TypeOK'
    BY <1>3 DEF TypeOK
  <1>6. UnfinishedOwned'
    BY <1>3, <1>4 DEF UnfinishedOwned, OpenDispatches, Unfinished
  <1>7. OneOpenDispatch' /\ OneActiveRequest'
    BY DEF OneOpenDispatch, OpenDispatches, OneActiveRequest
  <1>8. RowOK(r, completions[j], reopens[j])
    BY <1>1, <1>4 DEF RowsOK, RowOK, Final, Job, UnfinishedOwned
  <1>9. RowsOK'
    BY <1>3, <1>8 DEF RowsOK
  <1> QED BY <1>5, <1>6, <1>7, <1>9

(* A dispatch closes by draining only when its worker holds no item. *)
LEMMA DrainingStep ==
    ASSUME IInv, NEW d \in DOMAIN dispatches, MarkWorksetDraining(d)
    PROVE  IInv'
  <1> USE DEF IInv, MarkWorksetDraining
  <1> DEFINE s == IF Held(d) = {} THEN "CLOSED" ELSE "DRAINING"
  <1>1. s \in OpenStates \cup {"CLOSED"}
    BY DEF OpenStates
  <1>2. /\ dispatches' \in Seq([workset : Nat, state : OpenStates \cup {"CLOSED"}])
        /\ DOMAIN dispatches' = DOMAIN dispatches
        /\ \A e \in DOMAIN dispatches :
                /\ dispatches'[e].workset = dispatches[e].workset
                /\ dispatches'[e].state = IF e = d THEN s ELSE dispatches[e].state
    BY <1>1, SetDispatchFacts
  <1>3. OpenDispatches' \subseteq OpenDispatches
    BY <1>2 DEF OpenDispatches, OpenStates
  <1>4. TypeOK'
    BY <1>2 DEF TypeOK
  <1>5. UnfinishedOwned'
    <2> SUFFICES ASSUME NEW i \in Jobs, job[i].state \in Unfinished
                 PROVE  LET e == job[i].dispatch IN
                        /\ e \in OpenDispatches'
                        /\ dispatches'[e].workset = dispatches[e].workset
                        /\ dispatches[e].state \in Executing => dispatches'[e].state \in Executing
      BY OwnedKept
    <2>1. job[i].dispatch \in OpenDispatches
      BY DEF UnfinishedOwned
    <2>2. job[i].dispatch = d => s = "DRAINING"
      BY DEF Held
    <2> QED BY <1>2, <2>1, <2>2 DEF OpenDispatches, OpenStates, Executing
  <1>6. OneOpenDispatch'
    BY <1>2, <1>3, OpenKept DEF OpenDispatches
  <1>7. RowsOK' /\ OneActiveRequest'
    BY DEF RowsOK, OneActiveRequest
  <1> QED BY <1>4, <1>5, <1>6, <1>7

(* A result that is being processed is still live. *)
LEMMA ClaimResultStep ==
    ASSUME IInv, NEW j \in Jobs, ClaimExecutionFinishedJob(j)
    PROVE  IInv'
  <1> USE DEF IInv, ClaimExecutionFinishedJob
  <1> DEFINE r == [job[j] EXCEPT !.processing = "PROCESSING"]
  <1>1. job[j] \in Job
    BY DEF TypeOK
  <1>2. r \in Job /\ r.state = job[j].state /\ RowOK(r, completions[j], reopens[j])
    BY <1>1 DEF Job, RowsOK, RowOK
  <1>3. job' = [job EXCEPT ![j] = r]
    OBVIOUS
  <1> HIDE DEF r
  <1>4. TypeOK'
    BY <1>2, <1>3, JobRow, RefreshTyped DEF TypeOK
  <1>5. UnfinishedOwned'
    BY <1>2, <1>3, OthersOwned DEF Unfinished
  <1>6. OneOpenDispatch' /\ OneActiveRequest'
    BY DEF OneOpenDispatch, OpenDispatches, OneActiveRequest
  <1>7. RowsOK'
    BY <1>2, <1>3, RowsKept
  <1> QED BY <1>4, <1>5, <1>6, <1>7

(* A result that is pending again is still live. *)
LEMMA ResetStep ==
    ASSUME IInv, NEW j \in Jobs, ResetInterruptedResultProcessing(j)
    PROVE  IInv'
  <1> USE DEF IInv, ResetInterruptedResultProcessing, Processing
  <1> DEFINE r == [job[j] EXCEPT !.processing = "PENDING"]
  <1>1. job[j] \in Job
    BY DEF TypeOK
  <1>2. r \in Job /\ r.state = job[j].state /\ RowOK(r, completions[j], reopens[j])
    BY <1>1 DEF Job, RowsOK, RowOK
  <1>3. job' = [job EXCEPT ![j] = r]
    OBVIOUS
  <1> HIDE DEF r
  <1>4. TypeOK'
    BY <1>2, <1>3, JobRow, RefreshTyped DEF TypeOK
  <1>5. UnfinishedOwned'
    BY <1>2, <1>3, OthersOwned DEF Unfinished
  <1>6. OneOpenDispatch' /\ OneActiveRequest'
    BY DEF OneOpenDispatch, OpenDispatches, OneActiveRequest
  <1>7. RowsOK'
    BY <1>2, <1>3, RowsKept
  <1> QED BY <1>4, <1>5, <1>6, <1>7

(* Requests against jobs that have none active keep them at one. *)
LEMMA InsertKeepsOne ==
    ASSUME TypeOK, OneActiveRequest, NEW j \in Jobs, NEW T \in SUBSET Jobs,
           \A t \in T : ~ Conflicting(j, t), InsertRequests(j, T)
    PROVE  /\ OneActiveRequest'
           /\ request' \in [Jobs -> [Jobs -> {"NONE", "RESOLVED"} \cup ActiveRequest]]
  <1>1. \A t \in Jobs : request[t] \in [Jobs -> {"NONE", "RESOLVED"} \cup ActiveRequest]
    BY DEF TypeOK
  <1>2. \A t, c \in Jobs : request'[t][c] =
            IF c = j /\ t \in T /\ request[t][j] = "NONE" THEN "REQUESTED" ELSE request[t][c]
    BY <1>1 DEF InsertRequests
  <1>3. request' \in [Jobs -> [Jobs -> {"NONE", "RESOLVED"} \cup ActiveRequest]]
    BY <1>1 DEF InsertRequests, ActiveRequest
  <1>4. OneActiveRequest'
    BY <1>2 DEF OneActiveRequest, Conflicting, IsCancelling
  <1> QED BY <1>3, <1>4

(* The final decision ends the job and completes it. *)
LEMMA CommitStep ==
    ASSUME IInv, NEW j \in Jobs, NEW s \in DecidedStates, NEW T \in SUBSET Jobs,
           CommitResultFinalization(j, s, T)
    PROVE  IInv'
  <1> USE DEF IInv, CommitResultFinalization, Processing
  <1> DEFINE r == Processed(job[j], s)
  <1>1. job[j] \in Job /\ s \in Final
    BY DEF TypeOK, Final
  <1>2. r \in Job /\ r.state = s
    BY <1>1 DEF Job, JobStates, Processed
  <1>3. completions'[j] = completions[j] + 1 /\ completions' \in [Jobs -> Nat]
        /\ \A i \in Jobs : i # j => completions'[i] = completions[i]
    BY DEF TypeOK
  <1>4. RowOK(r, completions'[j], reopens'[j])
    <2>1. RowOK(job[j], completions[j], reopens[j]) /\ {completions[j], reopens[j]} \subseteq Nat
      BY DEF RowsOK, TypeOK
    <2>2. /\ r.state = s /\ r.processing = "PROCESSED" /\ r.blob = "DELETE_PENDING"
          /\ r.attempts = job[j].attempts /\ r.max = job[j].max
      BY <1>1 DEF Processed, Job
    <2> QED BY <1>1, <1>3, <2>1, <2>2 DEF RowOK, Final
  <1>5. job' = [job EXCEPT ![j] = r]
    OBVIOUS
  <1> HIDE DEF r
  <1>6. request' \in [Jobs -> [Jobs -> {"NONE", "RESOLVED"} \cup ActiveRequest]]
        /\ OneActiveRequest'
    BY InsertKeepsOne
  <1>7. TypeOK'
    BY <1>2, <1>3, <1>5, <1>6, JobRow, RefreshTyped DEF TypeOK
  <1>8. UnfinishedOwned'
    BY <1>1, <1>2, <1>5, OthersOwned DEF Unfinished, Final
  <1>9. OneOpenDispatch'
    BY DEF OneOpenDispatch, OpenDispatches
  <1>10. RowsOK'
    BY <1>2, <1>3, <1>4, <1>5, RowsKept
  <1> QED BY <1>6, <1>7, <1>8, <1>9, <1>10

(* A rejected finalization leaves only requests that conflict with nothing. *)
LEMMA RejectStep ==
    ASSUME IInv, NEW j \in Jobs, NEW T \in SUBSET Jobs, NEW inserted \in SUBSET T,
           RejectResultFinalization(j, T, inserted)
    PROVE  IInv'
  <1> USE DEF IInv, RejectResultFinalization
  <1>1. request' \in [Jobs -> [Jobs -> {"NONE", "RESOLVED"} \cup ActiveRequest]]
        /\ OneActiveRequest'
    BY InsertKeepsOne
  <1>2. TypeOK'
    BY <1>1 DEF TypeOK
  <1>3. UnfinishedOwned' /\ OneOpenDispatch' /\ RowsOK'
    BY DEF UnfinishedOwned, OneOpenDispatch, OpenDispatches, RowsOK
  <1> QED BY <1>1, <1>2, <1>3

(* A retry ends the job when its budget is spent and requeues it otherwise. *)
LEMMA RetryStep ==
    ASSUME IInv, NEW j \in Jobs, RetryResultFinalization(j)
    PROVE  IInv'
  <1> USE DEF IInv, RetryResultFinalization, Processing
  <1>1. job[j] \in Job /\ itemCount \in Seq(Nat)
    BY DEF TypeOK
  <1>2. RowOK(job[j], completions[j], reopens[j]) /\ {completions[j], reopens[j]} \subseteq Nat
    BY DEF RowsOK, TypeOK
  <1>3. PICK r \in Job :
          /\ job' = [job EXCEPT ![j] = r]
          /\ r.state \notin Unfinished
          /\ RowOK(r, completions'[j], reopens'[j])
          /\ completions' \in [Jobs -> Nat]
          /\ \A i \in Jobs : i # j => completions'[i] = completions[i]
          /\ itemCount' \in Seq(Nat)
    <2>1. CASE job[j].attempts >= job[j].max
      <3> DEFINE r == Processed(job[j], "FAILED")
      <3>1. r \in Job /\ r.state = "FAILED" /\ r.processing = "PROCESSED"
            /\ r.blob = "DELETE_PENDING" /\ r.attempts = job[j].attempts /\ r.max = job[j].max
        BY <1>1 DEF Job, JobStates, Final, Processed
      <3>2. /\ job' = [job EXCEPT ![j] = r] /\ completions' = [completions EXCEPT ![j] = @ + 1]
            /\ itemCount' = itemCount
        <4>1. ~(job[j].attempts < job[j].max)
          BY <1>1, <2>1 DEF Job
        <4> QED BY ONLY RetryResultFinalization(j), <4>1 DEF RetryResultFinalization
      <3> HIDE DEF r
      <3>3. completions'[j] = completions[j] + 1
            /\ completions' \in [Jobs -> Nat]
            /\ \A i \in Jobs : i # j => completions'[i] = completions[i]
        BY <3>2 DEF TypeOK
      <3>4. RowOK(r, completions'[j], reopens'[j])
        BY <1>2, <3>1, <3>3 DEF RowOK, Final
      <3> QED BY <1>1, <3>1, <3>2, <3>3, <3>4 DEF Unfinished
    <2>2. CASE job[j].attempts < job[j].max
      <3> DEFINE r == Requeued(Processed(job[j], "QUEUED"), Len(itemCount) + 1)
      <3>1. Len(itemCount) + 1 \in Nat
        BY <1>1
      <3>2. r \in Job /\ r.state = "QUEUED" /\ r.processing = "PROCESSED"
            /\ r.blob = "DELETE_PENDING" /\ r.attempts = job[j].attempts /\ r.max = job[j].max
        BY <1>1, <3>1 DEF Job, JobStates, Processed, Requeued
      <3>3. /\ job' = [job EXCEPT ![j] = r] /\ completions' = completions
            /\ itemCount' = Append(itemCount, 1)
        <4>1. ~(job[j].attempts >= job[j].max)
          BY <1>1, <2>2 DEF Job
        <4> QED BY ONLY RetryResultFinalization(j), <4>1 DEF RetryResultFinalization
      <3> HIDE DEF r
      <3>4. RowOK(r, completions'[j], reopens'[j])
        <4>1. completions'[j] = completions[j] /\ reopens'[j] = reopens[j]
          BY <3>3
        <4>2. job[j].processing = "PROCESSING" /\ {job[j].attempts, job[j].max} \subseteq Nat
          BY <1>1 DEF Job
        <4> QED BY ONLY <1>2, <2>2, <3>2, <4>1, <4>2 DEF RowOK, Final
      <3>5. itemCount' \in Seq(Nat) /\ completions' \in [Jobs -> Nat]
        BY <1>1, <3>3 DEF TypeOK
      <3> QED BY <3>2, <3>3, <3>4, <3>5 DEF Unfinished
    <2> QED BY <1>1, <2>1, <2>2 DEF Job
  <1>4. TypeOK'
    BY <1>3, JobRow, RefreshTyped DEF TypeOK
  <1>5. UnfinishedOwned'
    BY <1>3, OthersOwned
  <1>6. OneOpenDispatch' /\ OneActiveRequest'
    BY DEF OneOpenDispatch, OpenDispatches, OneActiveRequest
  <1>7. RowsOK'
    BY <1>3, RowsKept
  <1> QED BY <1>4, <1>5, <1>6, <1>7

(* Resolving one request of a job, or delivering it, adds no active one. *)
LEMMA RequestMoved ==
    ASSUME TypeOK, OneActiveRequest, NEW j \in Jobs, NEW c \in Jobs,
           request[j][c] \in ActiveRequest, NEW s \in {"RESOLVED", "DELIVERED"},
           request' = [request EXCEPT ![j][c] = s]
    PROVE  /\ OneActiveRequest'
           /\ request' \in [Jobs -> [Jobs -> {"NONE", "RESOLVED"} \cup ActiveRequest]]
  <1>1. \A t \in Jobs : request[t] \in [Jobs -> {"NONE", "RESOLVED"} \cup ActiveRequest]
    BY DEF TypeOK
  <1>2. \A t, e \in Jobs : request'[t][e] = IF t = j /\ e = c THEN s ELSE request[t][e]
    BY <1>1 DEF TypeOK
  <1>3. request' \in [Jobs -> [Jobs -> {"NONE", "RESOLVED"} \cup ActiveRequest]]
    BY <1>1 DEF TypeOK, ActiveRequest
  <1>4. OneActiveRequest'
    BY <1>2 DEF OneActiveRequest
  <1> QED BY <1>3, <1>4

(* Delivery of a request to the worker changes the request alone. *)
LEMMA DeliveryStep ==
    ASSUME IInv, NEW j \in Jobs, NEW c \in Jobs, NEW d \in DOMAIN dispatches,
           WorkerDeliveryAccepted(j, c, d)
    PROVE  IInv'
  <1> USE DEF IInv, WorkerDeliveryAccepted
  <1>1. OneActiveRequest'
        /\ request' \in [Jobs -> [Jobs -> {"NONE", "RESOLVED"} \cup ActiveRequest]]
    BY RequestMoved DEF ActiveRequest
  <1>2. TypeOK'
    BY <1>1 DEF TypeOK
  <1>3. UnfinishedOwned' /\ OneOpenDispatch' /\ RowsOK'
    BY DEF UnfinishedOwned, OneOpenDispatch, OpenDispatches, RowsOK
  <1> QED BY <1>1, <1>2, <1>3

(* So does its resolution against a job that ended on its own. *)
LEMMA TerminalResolvedStep ==
    ASSUME IInv, NEW j \in Jobs, NEW c \in Jobs, WorkerTerminalResolved(j, c)
    PROVE  IInv'
  <1> USE DEF IInv, WorkerTerminalResolved
  <1>1. OneActiveRequest'
        /\ request' \in [Jobs -> [Jobs -> {"NONE", "RESOLVED"} \cup ActiveRequest]]
    BY RequestMoved
  <1>2. TypeOK'
    BY <1>1 DEF TypeOK
  <1>3. UnfinishedOwned' /\ OneOpenDispatch' /\ RowsOK'
    BY DEF UnfinishedOwned, OneOpenDispatch, OpenDispatches, RowsOK
  <1> QED BY <1>1, <1>2, <1>3

(* When job j leaves dispatch d and d closes only if j was the last item   *)
(* held, the others keep what they own.                                    *)
LEMMA LastItemCloses ==
    ASSUME TypeOK, UnfinishedOwned, OneOpenDispatch, NEW j \in Jobs, NEW r \in Job,
           job' = [job EXCEPT ![j] = r], r.state \notin Unfinished,
           NEW d \in DOMAIN dispatches, NEW P \in BOOLEAN,
           SetDispatch(d, IF P /\ Held(d) = {j} THEN "CLOSED" ELSE dispatches[d].state)
    PROVE  /\ dispatches' \in Seq([workset : Nat, state : OpenStates \cup {"CLOSED"}])
           /\ UnfinishedOwned'
           /\ OneOpenDispatch'
  <1> DEFINE s == IF P /\ Held(d) = {j} THEN "CLOSED" ELSE dispatches[d].state
  <1>1. dispatches[d] \in [workset : Nat, state : OpenStates \cup {"CLOSED"}]
    BY DispatchRow
  <1>2. s \in OpenStates \cup {"CLOSED"}
    BY <1>1
  <1>3. /\ dispatches' \in Seq([workset : Nat, state : OpenStates \cup {"CLOSED"}])
        /\ DOMAIN dispatches' = DOMAIN dispatches
        /\ \A e \in DOMAIN dispatches :
                /\ dispatches'[e].workset = dispatches[e].workset
                /\ dispatches'[e].state = IF e = d THEN s ELSE dispatches[e].state
    BY <1>2, SetDispatchFacts
  <1>4. OpenDispatches' \subseteq OpenDispatches
    BY <1>3 DEF OpenDispatches, OpenStates
  <1>5. OneOpenDispatch'
    BY <1>3, <1>4, OpenKept DEF OpenDispatches
  <1>6. job'[j].state \notin Unfinished /\ \A i \in Jobs : i # j => job'[i] = job[i]
    BY JobRow
  <1>7. UnfinishedOwned'
    <2> SUFFICES ASSUME NEW i \in Jobs, i # j, job[i].state \in Unfinished
                 PROVE  LET e == job[i].dispatch IN
                        /\ e \in OpenDispatches'
                        /\ dispatches'[e].workset = dispatches[e].workset
                        /\ dispatches[e].state \in Executing => dispatches'[e].state \in Executing
      BY <1>6, OwnedKept
    <2>1. job[i].dispatch \in OpenDispatches
      BY DEF UnfinishedOwned
    <2>2. job[i].dispatch = d => s = dispatches[d].state
      BY DEF Held
    <2> QED BY <1>3, <2>1, <2>2 DEF OpenDispatches
  <1> QED BY <1>3, <1>5, <1>7

(* A cancellation that never reached the worker ends a claimed item. *)
LEMMA ResolveStep ==
    ASSUME IInv, NEW j \in Jobs, NEW c \in Jobs, NEW d \in DOMAIN dispatches,
           NEW s \in {"CANCELED", "FAILED"}, ResolveWithoutWorker(j, c, d, s)
    PROVE  IInv'
  <1> USE DEF IInv, ResolveWithoutWorker
  <1> DEFINE r == [job[j] EXCEPT !.state = s]
  <1>1. job[j] \in Job
    BY DEF TypeOK
  <1>2. /\ r \in Job /\ r.state = s /\ r.processing = job[j].processing /\ r.blob = job[j].blob
        /\ r.attempts = job[j].attempts /\ r.max = job[j].max
    BY <1>1 DEF Job, JobStates, Final
  <1>3. job' = [job EXCEPT ![j] = r]
    OBVIOUS
  <1> HIDE DEF r
  <1>4. RowOK(job[j], completions[j], reopens[j]) /\ {completions[j], reopens[j]} \subseteq Nat
    BY DEF RowsOK, TypeOK
  <1>5. completions'[j] = completions[j] + 1 /\ completions' \in [Jobs -> Nat]
        /\ \A i \in Jobs : i # j => completions'[i] = completions[i]
    BY DEF TypeOK
  <1>6. RowOK(r, completions'[j], reopens'[j])
    BY <1>2, <1>4, <1>5 DEF RowOK, Final
  <1>7. OneActiveRequest'
        /\ request' \in [Jobs -> [Jobs -> {"NONE", "RESOLVED"} \cup ActiveRequest]]
    BY RequestMoved
  <1>8. /\ dispatches' \in Seq([workset : Nat, state : OpenStates \cup {"CLOSED"}])
        /\ UnfinishedOwned'
        /\ OneOpenDispatch'
    BY <1>2, <1>3, LastItemCloses DEF Unfinished
  <1>9. UNCHANGED <<itemCount, step, reopens>> /\ Refresh
    OBVIOUS
  <1> HIDE DEF ResolveWithoutWorker
  <1>10. job' \in [Jobs -> Job]
    BY <1>2, <1>3, JobRow
  <1>11. TypeOK'
    BY <1>5, <1>7, <1>8, <1>9, <1>10, RefreshTyped DEF TypeOK
  <1>12. RowsOK'
    BY <1>2, <1>3, <1>5, <1>6, <1>9, RowsKept
  <1> QED BY <1>7, <1>8, <1>11, <1>12

(* A staged terminal leaves its dispatch and resolves the job's requests. *)
LEMMA StageStep ==
    ASSUME IInv, NEW j \in Jobs, NEW d \in DOMAIN dispatches, StageWorkerTerminal(j, d)
    PROVE  IInv'
  <1> USE DEF IInv, StageWorkerTerminal
  <1> DEFINE r == [job[j] EXCEPT !.state = "EXECUTION_FINISHED", !.processing = "PENDING",
                                 !.blob = "LIVE", !.token = 0]
  <1>1. job[j] \in Job
    BY DEF TypeOK
  <1>2. /\ r \in Job /\ r.state = "EXECUTION_FINISHED" /\ r.processing = "PENDING"
        /\ r.blob = "LIVE" /\ r.attempts = job[j].attempts /\ r.max = job[j].max
    BY <1>1 DEF Job, JobStates
  <1>3. job' = [job EXCEPT ![j] = r]
    OBVIOUS
  <1> HIDE DEF r
  <1>4. RowOK(job[j], completions[j], reopens[j]) /\ {completions[j], reopens[j]} \subseteq Nat
    BY DEF RowsOK, TypeOK
  <1>5. RowOK(r, completions'[j], reopens'[j])
    BY <1>2, <1>4 DEF RowOK, Final
  <1>6. OneActiveRequest'
        /\ request' \in [Jobs -> [Jobs -> {"NONE", "RESOLVED"} \cup ActiveRequest]]
    <2>1. \A t \in Jobs : request[t] \in [Jobs -> {"NONE", "RESOLVED"} \cup ActiveRequest]
      BY DEF TypeOK
    <2>2. \A t, c \in Jobs : request'[t][c] =
             IF t = j /\ request[t][c] \in ActiveRequest THEN "RESOLVED" ELSE request[t][c]
      BY <2>1 DEF ResolveRequests, TypeOK
    <2>3. request' \in [Jobs -> [Jobs -> {"NONE", "RESOLVED"} \cup ActiveRequest]]
      BY <2>1 DEF ResolveRequests, TypeOK
    <2> QED BY <2>2, <2>3 DEF OneActiveRequest, ActiveRequest
  <1>7. /\ dispatches' \in Seq([workset : Nat, state : OpenStates \cup {"CLOSED"}])
        /\ UnfinishedOwned'
        /\ OneOpenDispatch'
    BY <1>2, <1>3, LastItemCloses DEF Unfinished
  <1>8. TypeOK'
    <2>1. UNCHANGED <<itemCount, step, completions, reopens>> /\ Refresh
      OBVIOUS
    <2>2. job' \in [Jobs -> Job]
      BY <1>2, <1>3, JobRow
    <2> HIDE DEF StageWorkerTerminal
    <2> QED BY <1>6, <1>7, <2>1, <2>2, RefreshTyped DEF TypeOK
  <1>9. RowsOK'
    BY <1>2, <1>3, <1>5, RowsKept
  <1> QED BY <1>6, <1>7, <1>8, <1>9

(* A claim opens one dispatch, of a workset that had none, and gives it     *)
(* every job of the workset, each with budget for one more attempt.        *)
LEMMA ClaimStep ==
    ASSUME IInv, NEW w \in DOMAIN itemCount, ClaimPublishedWorkset(w)
    PROVE  IInv'
  <1> USE DEF IInv
  <1> DEFINE d == Len(dispatches) + 1
             D == [workset : Nat, state : OpenStates \cup {"CLOSED"}]
             row == [workset |-> w, state |-> "CLAIMED"]
             r(j) == [job[j] EXCEPT !.state = "CLAIMED", !.dispatch = d, !.token = d,
                                    !.reserved = job[j].attempts + 1]
  <1>1. /\ ~ HasOpenDispatch(w)
        /\ \A j \in JobsOf(w) : job[j].state = "QUEUED" /\ job[j].attempts < job[j].max
    BY DEF ClaimPublishedWorkset, Claimable, Offerable
  <1>2. /\ dispatches' = Append(dispatches, row)
        /\ job' = [j \in Jobs |-> IF j \notin JobsOf(w) THEN job[j] ELSE r(j)]
        /\ UNCHANGED <<itemCount, request, step, completions, reopens>>
        /\ Refresh
    BY DEF ClaimPublishedWorkset
  <1>3. w \in Nat /\ row \in D
    BY DEF TypeOK, OpenStates
  <1>4. row.workset = w /\ row.state = "CLAIMED"
    OBVIOUS
  <1>5. dispatches \in Seq(D)
    BY DEF TypeOK
  <1> HIDE DEF D, row
  <1>6. /\ dispatches' \in Seq(D)
        /\ Len(dispatches) \in Nat
        /\ DOMAIN dispatches = 1 .. Len(dispatches)
        /\ DOMAIN dispatches' = 1 .. d
        /\ d \in Nat \ DOMAIN dispatches
        /\ \A e \in DOMAIN dispatches : dispatches'[e] = dispatches[e]
        /\ dispatches'[d] = row
    <2>1. Append(dispatches, row) \in Seq(D) /\ Len(Append(dispatches, row)) = Len(dispatches) + 1
      BY <1>3, <1>5, AppendProperties
    <2>2. /\ \A e \in 1 .. Len(dispatches) : Append(dispatches, row)[e] = dispatches[e]
          /\ Append(dispatches, row)[Len(dispatches) + 1] = row
      BY <1>3, <1>5, AppendProperties
    <2>3. Len(dispatches) \in Nat /\ DOMAIN dispatches = 1 .. Len(dispatches)
      BY <1>5
    <2>4. dispatches' = Append(dispatches, row)
      BY <1>2
    <2>5. dispatches' \in Seq(D) /\ DOMAIN dispatches' = 1 .. Len(dispatches) + 1
      BY ONLY <2>1, <2>4
    <2> QED BY ONLY <2>2, <2>3, <2>4, <2>5
  <1> HIDE DEF d
  <1>7. OpenDispatches' = OpenDispatches \cup {d}
    BY <1>4, <1>6 DEF OpenDispatches, OpenStates, d
  <1>8. \A j \in Jobs : job[j] \in Job
    BY DEF TypeOK
  <1>9. \A j \in Jobs :
          /\ r(j) \in Job /\ r(j).state = "CLAIMED" /\ r(j).dispatch = d /\ r(j).token = d
          /\ r(j).reserved = job[j].attempts + 1 /\ r(j).workset = job[j].workset
          /\ r(j).attempts = job[j].attempts /\ r(j).max = job[j].max
          /\ r(j).processing = job[j].processing /\ r(j).blob = job[j].blob
    <2> SUFFICES ASSUME NEW j \in Jobs
                 PROVE  /\ r(j) \in Job /\ r(j).state = "CLAIMED" /\ r(j).dispatch = d
                        /\ r(j).token = d /\ r(j).reserved = job[j].attempts + 1
                        /\ r(j).workset = job[j].workset /\ r(j).attempts = job[j].attempts
                        /\ r(j).max = job[j].max /\ r(j).processing = job[j].processing
                        /\ r(j).blob = job[j].blob
      OBVIOUS
    <2>1. PICK q \in Job : q = job[j]
      BY <1>8
    <2>2. PICK n \in Nat : n = d
      BY <1>6
    <2>3. PICK a \in Nat : a = job[j].attempts + 1
      BY <2>1 DEF Job
    <2>4. r(j) = [q EXCEPT !.state = "CLAIMED", !.dispatch = n, !.token = n, !.reserved = a]
      BY <2>1, <2>2, <2>3
    <2> HIDE DEF r
    <2> DEFINE x == [q EXCEPT !.state = "CLAIMED", !.dispatch = n, !.token = n, !.reserved = a]
    <2>5. /\ x \in Job /\ x.state = "CLAIMED" /\ x.dispatch = n /\ x.token = n /\ x.reserved = a
          /\ x.workset = q.workset /\ x.attempts = q.attempts /\ x.max = q.max
          /\ x.processing = q.processing /\ x.blob = q.blob
      BY ONLY q \in Job, n \in Nat, a \in Nat DEF Job, JobStates, Unfinished
    <2> HIDE DEF x
    <2>6. r(j) = x
      BY <2>4 DEF x
    <2> QED BY <2>1, <2>2, <2>3, <2>5, <2>6
  <1> HIDE DEF r
  <1>10. TypeOK'
    <2>1. job' \in [Jobs -> Job]
      BY <1>2, <1>8, <1>9
    <2> QED BY <1>2, <1>6, <2>1, RefreshTyped DEF TypeOK, D
  <1>11. UnfinishedOwned'
    <2> SUFFICES ASSUME NEW j \in Jobs, job'[j].state \in Unfinished
                 PROVE  LET e == job'[j].dispatch IN
                        /\ e \in OpenDispatches'
                        /\ dispatches'[e].workset = job'[j].workset
                        /\ job'[j].token = e
                        /\ job'[j].state = "CLAIMED" => job'[j].reserved = job'[j].attempts + 1
                        /\ job'[j].state = "RUNNING" => /\ job'[j].reserved = job'[j].attempts
                                                        /\ dispatches'[e].state \in Executing
      BY DEF UnfinishedOwned
    <2>1. CASE j \in JobsOf(w)
      <3>1. job'[j] = r(j) /\ job[j].workset = w
        BY <1>2, <2>1 DEF JobsOf
      <3> QED BY <1>4, <1>6, <1>7, <1>9, <3>1
    <2>2. CASE j \notin JobsOf(w)
      <3>1. job'[j] = job[j]
        BY <1>2, <2>2
      <3>2. job[j].dispatch \in DOMAIN dispatches /\ job[j].dispatch \in OpenDispatches
        BY <3>1 DEF UnfinishedOwned, OpenDispatches
      <3> QED BY <1>6, <1>7, <3>1, <3>2 DEF UnfinishedOwned
    <2> QED BY <2>1, <2>2
  <1>12. OneOpenDispatch'
    BY <1>1, <1>4, <1>6, <1>7 DEF OneOpenDispatch, HasOpenDispatch, OpenDispatches
  <1>13. RowsOK'
    <2> SUFFICES ASSUME NEW j \in JobsOf(w)
                 PROVE  RowOK(r(j), completions[j], reopens[j])
      BY <1>2 DEF RowsOK, JobsOf
    <2>1. /\ j \in Jobs /\ job[j].state = "QUEUED" /\ job[j].attempts < job[j].max
          /\ RowOK(job[j], completions[j], reopens[j])
          /\ {completions[j], reopens[j]} \subseteq Nat
      BY <1>1 DEF JobsOf, RowsOK, TypeOK
    <2> QED BY <1>9, <2>1 DEF RowOK, Final
  <1>14. OneActiveRequest'
    BY <1>2 DEF OneActiveRequest
  <1> QED BY <1>10, <1>11, <1>12, <1>13, <1>14

(* A manual retry reopens ended jobs with budget for one more attempt. *)
LEMMA ReorganizationStep ==
    ASSUME IInv, NEW s \in Steps, NEW J \in SUBSET Jobs, ApplyWorksetJobReorganization(s, J)
    PROVE  IInv'
  <1> USE DEF IInv
  <1> DEFINE r(j) == [Requeued(job[j], Len(itemCount) + 1) EXCEPT
                        !.max = job[j].attempts + 1, !.processing = "NULL", !.blob = "NULL"]
  <1>1. /\ \A j \in J : job[j].state \in {"FAILED", "INTERRUPTED"}
        /\ itemCount' = Append(itemCount, Cardinality(J))
        /\ job' = [j \in Jobs |-> IF j \notin J THEN job[j] ELSE r(j)]
        /\ reopens' = [j \in Jobs |-> IF j \in J THEN reopens[j] + 1 ELSE reopens[j]]
        /\ step' = [step EXCEPT ![s] = IF @ \in {"FAILED", "INTERRUPTED"} THEN "MATERIALIZED" ELSE @]
        /\ UNCHANGED <<dispatches, request, completions>>
        /\ Refresh
    BY DEF ApplyWorksetJobReorganization
  <1>2. itemCount \in Seq(Nat) /\ Len(itemCount) + 1 \in Nat /\ Cardinality(J) \in Nat
    BY CountJobs DEF TypeOK
  <1>3. \A j \in Jobs : job[j] \in Job
    BY DEF TypeOK
  <1>4. \A j \in Jobs : /\ r(j) \in Job /\ r(j).state = "QUEUED"
                        /\ r(j).processing = "NULL" /\ r(j).blob = "NULL"
                        /\ r(j).attempts = job[j].attempts /\ r(j).max = job[j].attempts + 1
    <2> SUFFICES ASSUME NEW j \in Jobs
                 PROVE  /\ r(j) \in Job /\ r(j).state = "QUEUED"
                        /\ r(j).processing = "NULL" /\ r(j).blob = "NULL"
                        /\ r(j).attempts = job[j].attempts /\ r(j).max = job[j].attempts + 1
      OBVIOUS
    <2> DEFINE q == Requeued(job[j], Len(itemCount) + 1)
    <2>1. q \in Job /\ q.state = "QUEUED" /\ q.attempts = job[j].attempts
      BY <1>2, <1>3 DEF Job, JobStates, Requeued
    <2> HIDE DEF q
    <2>2. job[j].attempts + 1 \in Nat
      BY <1>3 DEF Job
    <2>3. [q EXCEPT !.max = job[j].attempts + 1, !.processing = "NULL", !.blob = "NULL"] \in Job
      BY <2>1, <2>2 DEF Job
    <2> QED BY <2>1, <2>3 DEF Job, q
  <1> HIDE DEF r
  <1>5. TypeOK'
    <2>1. job' \in [Jobs -> Job] /\ itemCount' \in Seq(Nat) /\ reopens' \in [Jobs -> Nat]
      BY <1>1, <1>2, <1>3, <1>4 DEF TypeOK
    <2>2. step' \in [Steps -> StepStates]
      BY <1>1 DEF TypeOK, StepStates
    <2> QED BY <1>1, <2>1, <2>2, RefreshTyped DEF TypeOK
  <1>6. UnfinishedOwned'
    BY <1>1, <1>4, OwnedKept DEF Unfinished, OpenDispatches
  <1>7. OneOpenDispatch' /\ OneActiveRequest'
    BY <1>1 DEF OneOpenDispatch, OpenDispatches, OneActiveRequest
  <1>8. RowsOK'
    <2> SUFFICES ASSUME NEW j \in J
                 PROVE  RowOK(r(j), completions[j], reopens[j] + 1)
      BY <1>1 DEF RowsOK
    <2>1. /\ job[j].state \in {"FAILED", "INTERRUPTED"}
          /\ RowOK(job[j], completions[j], reopens[j])
          /\ {completions[j], reopens[j], job[j].attempts, job[j].max, MaxAttempts} \subseteq Nat
      BY <1>1, <1>3 DEF RowsOK, TypeOK, Job
    <2> QED BY <1>4, <2>1 DEF RowOK, Final
  <1> QED BY <1>5, <1>6, <1>7, <1>8

(* Closing dispatches: what was not started is requeued with its budget,   *)
(* what was started is interrupted and completed, and nothing that stays   *)
(* unfinished belonged to them.                                            *)
LEMMA CloseStep ==
    ASSUME IInv, NEW D \in SUBSET OpenDispatches, CloseDispatches(D)
    PROVE  IInv'
  <1> USE DEF IInv
  <1> DEFINE unstarted(d) == {j \in Held(d) : job[j].state = "CLAIMED"}
             cloned == {d \in D : unstarted(d) # {}}
             replacement(d) == Len(itemCount) + Cardinality({e \in cloned : e <= d})
             interrupted == {j \in Jobs : job[j].dispatch \in D /\ job[j].state = "RUNNING"}
             requeued == {j \in Jobs : job[j].dispatch \in D /\ job[j].state = "CLAIMED"}
             count(k) == Cardinality({j \in Jobs : \E d \in cloned :
                            j \in unstarted(d) /\ replacement(d) = Len(itemCount) + k})
  <1>1. /\ itemCount' = itemCount \o [k \in 1 .. Cardinality(cloned) |-> count(k)]
        /\ job' = [j \in Jobs |->
             IF j \in interrupted THEN Interrupted(job[j])
             ELSE IF job[j].dispatch \in D /\ job[j].state = "CLAIMED"
             THEN Requeued(job[j], replacement(job[j].dispatch))
             ELSE job[j]]
        /\ dispatches' = [d \in DOMAIN dispatches |->
             IF d \in D THEN [dispatches[d] EXCEPT !.state = "CLOSED"] ELSE dispatches[d]]
        /\ completions' = [j \in Jobs |->
             IF j \in interrupted THEN completions[j] + 1 ELSE completions[j]]
        /\ UNCHANGED <<request, step, reopens>>
        /\ Refresh
    BY DEF CloseDispatches
  <1>2. D \subseteq DOMAIN dispatches /\ IsFiniteSet(DOMAIN dispatches)
    <2>1. DOMAIN dispatches = 1 .. Len(dispatches) /\ Len(dispatches) \in Nat
      BY DEF TypeOK
    <2> QED BY <2>1, FS_Interval DEF OpenDispatches
  <1>3. \A E \in SUBSET D : Cardinality(E) \in Nat
    BY <1>2, FS_Subset, FS_CardinalityType
  <1>4. itemCount \in Seq(Nat) /\ Len(itemCount) \in Nat
    BY DEF TypeOK
  <1>5. \A d \in D : replacement(d) \in Nat
    BY <1>3, <1>4
  <1>6. itemCount' \in Seq(Nat)
    <2>1. \A k \in 1 .. Cardinality(cloned) : count(k) \in Nat
      BY CountJobs
    <2>2. Cardinality(cloned) \in Nat
      BY <1>3
    <2> HIDE DEF cloned, count
    <2>3. [k \in 1 .. Cardinality(cloned) |-> count(k)] \in [1 .. Cardinality(cloned) -> Nat]
      BY <2>1
    <2>4. [k \in 1 .. Cardinality(cloned) |-> count(k)] \in UNION {[1 .. n -> Nat] : n \in Nat}
      BY <2>2, <2>3, Zenon
    <2>5. [k \in 1 .. Cardinality(cloned) |-> count(k)] \in Seq(Nat)
      BY <2>4, SeqDef, Zenon
    <2> QED BY <1>1, <1>4, <2>5, ConcatProperties
  <1> HIDE DEF replacement, cloned, unstarted, count
  <1>7. \A j \in Jobs : job[j] \in Job
    BY DEF TypeOK
  <1>8. \A j \in interrupted :
          /\ Interrupted(job[j]) \in Job
          /\ Interrupted(job[j]).state = "INTERRUPTED"
          /\ Interrupted(job[j]).processing = "PROCESSED"
          /\ Interrupted(job[j]).blob = job[j].blob
          /\ Interrupted(job[j]).attempts = job[j].attempts
          /\ Interrupted(job[j]).max = job[j].max
    <2> TAKE j \in interrupted
    <2>1. PICK q \in Job : q = job[j]
      BY <1>7
    <2> QED BY <2>1 DEF Job, JobStates, Final, Interrupted
  <1>9. \A j \in requeued :
          LET r == Requeued(job[j], replacement(job[j].dispatch)) IN
          /\ r \in Job /\ r.state = "QUEUED" /\ r.processing = job[j].processing
          /\ r.blob = job[j].blob /\ r.attempts = job[j].attempts /\ r.max = job[j].max
    <2> TAKE j \in requeued
    <2>1. PICK q \in Job : q = job[j]
      BY <1>7
    <2>2. PICK n \in Nat : n = replacement(job[j].dispatch)
      BY <1>5
    <2> QED BY <2>1, <2>2 DEF Job, JobStates, Requeued
  <1>10. \A j \in Jobs : job'[j] =
            IF j \in interrupted THEN Interrupted(job[j])
            ELSE IF j \in requeued THEN Requeued(job[j], replacement(job[j].dispatch))
            ELSE job[j]
    BY <1>1
  <1>11. job' \in [Jobs -> Job]
    <2>1. DOMAIN job' = Jobs /\ job' = [j \in Jobs |-> job'[j]]
      BY <1>1
    <2>2. \A j \in Jobs : job'[j] \in Job
      BY <1>7, <1>8, <1>9, <1>10
    <2> QED BY <2>1, <2>2
  <1>12. /\ dispatches' \in Seq([workset : Nat, state : OpenStates \cup {"CLOSED"}])
         /\ DOMAIN dispatches' = DOMAIN dispatches
         /\ \A d \in DOMAIN dispatches : dispatches'[d].workset = dispatches[d].workset
         /\ \A d \in D : dispatches'[d].state = "CLOSED"
         /\ \A d \in DOMAIN dispatches : d \notin D => dispatches'[d] = dispatches[d]
    <2> DEFINE R == [workset : Nat, state : OpenStates \cup {"CLOSED"}]
    <2>1. \A d \in DOMAIN dispatches : dispatches[d] \in R
      BY DispatchRow
    <2>2. \A d \in DOMAIN dispatches : [dispatches[d] EXCEPT !.state = "CLOSED"] \in R
      BY <2>1
    <2>3. /\ \A d \in DOMAIN dispatches : dispatches'[d].workset = dispatches[d].workset
          /\ \A d \in D : dispatches'[d].state = "CLOSED"
          /\ \A d \in DOMAIN dispatches : d \notin D => dispatches'[d] = dispatches[d]
      BY <1>1, <1>2, <2>1
    <2>4. dispatches \in Seq(R)
      BY DEF TypeOK
    <2> HIDE DEF R
    <2>5. dispatches' \in [DOMAIN dispatches -> R]
      BY <1>1, <2>1, <2>2
    <2>6. DOMAIN dispatches = 1 .. Len(dispatches) /\ Len(dispatches) \in Nat
      BY <2>4
    <2>7. dispatches' \in UNION {[1 .. n -> R] : n \in Nat}
      BY <2>5, <2>6, Zenon
    <2>8. dispatches' \in Seq(R)
      BY <2>7, SeqDef, Zenon
    <2> QED BY <2>3, <2>5, <2>8 DEF R
  <1>13. TypeOK'
    <2>1. completions' \in [Jobs -> Nat]
      BY <1>1 DEF TypeOK
    <2> QED BY <1>1, <1>6, <1>11, <1>12, <2>1, RefreshTyped DEF TypeOK
  <1>14. OneOpenDispatch'
    <2>1. OpenDispatches' \subseteq OpenDispatches
      BY <1>12 DEF OpenDispatches, OpenStates
    <2> QED BY <1>12, <2>1, OpenKept DEF OpenDispatches
  <1>15. UnfinishedOwned'
    <2> SUFFICES ASSUME NEW j \in Jobs, job'[j].state \in Unfinished
                 PROVE  LET d == job[j].dispatch IN
                        /\ job'[j] = job[j]
                        /\ d \in OpenDispatches => d \in OpenDispatches'
                        /\ dispatches'[d].workset = dispatches[d].workset
                        /\ dispatches[d].state \in Executing => dispatches'[d].state \in Executing
      BY OwnedKept
    <2>1. j \notin interrupted /\ j \notin requeued /\ job'[j] = job[j]
      BY <1>8, <1>9, <1>10 DEF Unfinished
    <2>2. job[j].dispatch \in DOMAIN dispatches /\ job[j].dispatch \notin D
      BY <2>1 DEF UnfinishedOwned, OpenDispatches, Unfinished
    <2> QED BY <1>12, <2>1, <2>2 DEF OpenDispatches
  <1>16. RowsOK'
    <2> SUFFICES ASSUME NEW j \in Jobs
                 PROVE  RowOK(job'[j], completions'[j], reopens'[j])
      BY DEF RowsOK
    <2>1. /\ RowOK(job[j], completions[j], reopens[j])
          /\ {completions[j], reopens[j]} \subseteq Nat
      BY DEF RowsOK, TypeOK
    <2>2. CASE j \in interrupted
      <3>1. job[j].state = "RUNNING" /\ completions'[j] = completions[j] + 1
            /\ reopens'[j] = reopens[j]
        BY <1>1, <2>2
      <3>2. job'[j] = Interrupted(job[j])
        BY <1>10, <2>2
      <3> QED BY <1>8, <2>1, <2>2, <3>1, <3>2 DEF RowOK, Final
    <2>3. CASE j \in requeued
      <3>1. job[j].state = "CLAIMED" /\ completions'[j] = completions[j]
            /\ reopens'[j] = reopens[j]
        BY <1>1, <2>3
      <3>2. job'[j] = Requeued(job[j], replacement(job[j].dispatch))
        BY <1>10, <2>3
      <3> QED BY <1>9, <2>1, <2>3, <3>1, <3>2 DEF RowOK, Final
    <2>4. CASE j \notin interrupted /\ j \notin requeued
      <3>1. job'[j] = job[j] /\ completions'[j] = completions[j] /\ reopens'[j] = reopens[j]
        BY <1>1, <1>10, <2>4
      <3> QED BY <2>1, <3>1
    <2> QED BY <2>2, <2>3, <2>4
  <1>17. OneActiveRequest'
    BY <1>1 DEF OneActiveRequest
  <1> QED BY <1>13, <1>14, <1>15, <1>16, <1>17

(* A step of the workflow moves, and nothing else does. *)
LEMMA StepMoves ==
    ASSUME IInv, NEW s \in Steps, NEW new \in StepStates, MoveStep(s, new)
    PROVE  IInv'
  BY DEF MoveStep, IInv, TypeOK, UnfinishedOwned, OneOpenDispatch, OpenDispatches, RowsOK,
         OneActiveRequest

(* What the workflow coordinator and the user do to a step. *)
LEMMA StepTransactions ==
    ASSUME NEW s \in Steps,
           \/ MarkStepMaterialized(s)
           \/ \E outcome \in {"FAILED", "INTERRUPTED"} : ParkStep(s, outcome)
           \/ RetryFailedStep(s)
           \/ CompleteWorkflowStep(s)
           \/ SkipStep(s)
    PROVE  \E new \in StepStates : MoveStep(s, new)
  BY DEF MarkStepMaterialized, ParkStep, RetryFailedStep, CompleteWorkflowStep, SkipStep, StepStates

(* Every transaction keeps the invariant. *)
LEMMA NextStep == IInv /\ [Next]_vars => IInv'
  <1> SUFFICES ASSUME IInv, [Next]_vars PROVE IInv'
    OBVIOUS
  <1>1. CASE UNCHANGED vars
    BY <1>1 DEF vars, IInv, TypeOK, UnfinishedOwned, OneOpenDispatch, OpenDispatches, RowsOK,
                OneActiveRequest
  <1>2. CASE \E w \in DOMAIN itemCount : ClaimPublishedWorkset(w)
    BY <1>2, ClaimStep
  <1>3. ASSUME NEW d \in DOMAIN dispatches,
               \/ MarkWorksetActive(d)
               \/ MarkWorksetDraining(d)
               \/ ReleaseWorksetDispatch(d)
               \/ \E j \in Jobs : MarkWorksetJobStarted(j, d)
               \/ \E j \in Jobs : StageWorkerTerminal(j, d)
               \/ \E j, c \in Jobs, s \in {"CANCELED", "FAILED"} : ResolveWithoutWorker(j, c, d, s)
               \/ \E j, c \in Jobs : WorkerDeliveryAccepted(j, c, d)
        PROVE  IInv'
    <2>1. CASE ReleaseWorksetDispatch(d)
      BY <2>1, CloseStep DEF ReleaseWorksetDispatch, OpenDispatches
    <2> QED BY <1>3, <2>1, ActiveStep, DrainingStep, StartedStep, StageStep, ResolveStep,
               DeliveryStep
  <1>4. CASE RecoverInterruptedWorksetDispatches
    BY <1>4, CloseStep DEF RecoverInterruptedWorksetDispatches
  <1>5. ASSUME NEW j \in Jobs,
               \/ ClaimExecutionFinishedJob(j)
               \/ ResetInterruptedResultProcessing(j)
               \/ RetryResultFinalization(j)
               \/ \E s \in DecidedStates, T \in SUBSET Jobs : CommitResultFinalization(j, s, T)
               \/ \E T \in SUBSET Jobs : \E inserted \in SUBSET T :
                    RejectResultFinalization(j, T, inserted)
               \/ \E c \in Jobs : WorkerTerminalResolved(j, c)
        PROVE  IInv'
    BY <1>5, ClaimResultStep, ResetStep, RetryStep, CommitStep, RejectStep, TerminalResolvedStep
  <1>6. CASE \E s \in Steps, J \in SUBSET Jobs : ApplyWorksetJobReorganization(s, J)
    BY <1>6, ReorganizationStep
  <1>7. CASE \E j \in Jobs :
               \/ \E s \in DecidedStates, T \in SUBSET (Jobs \ {j}) :
                    CommitResultFinalization(j, s, T)
               \/ \E T \in SUBSET (Jobs \ {j}) : \E inserted \in SUBSET T :
                    RejectResultFinalization(j, T, inserted)
    <2>1. \A j \in Jobs : SUBSET (Jobs \ {j}) \subseteq SUBSET Jobs
      OBVIOUS
    <2> QED BY <1>5, <1>7, <2>1
  <1>8. ASSUME NEW s \in Steps, NEW new \in StepStates, MoveStep(s, new) PROVE IInv'
    BY <1>8, StepMoves
  <1> QED BY <1>1, <1>2, <1>3, <1>4, <1>5, <1>6, <1>7, <1>8, StepTransactions DEF Next

(* The invariant holds throughout. *)
LEMMA Invariance == Spec => []IInv
  <1>1. Init => IInv
    BY InitStep
  <1> QED BY <1>1, NextStep, PTL DEF Spec

(* Every row of the execution store keeps its type, for any number of      *)
(* jobs, worksets and dispatches.                                          *)
THEOREM TypeCorrect == Spec => []TypeOK
  <1>1. IInv => TypeOK
    BY DEF IInv
  <1> QED BY <1>1, Invariance, PTL

(* No unfinished item is ever without the open dispatch it was claimed     *)
(* under, whatever is released, recovered, cancelled or retried meanwhile. *)
THEOREM ItemsOwned == Spec => []UnfinishedOwned
  <1>1. IInv => UnfinishedOwned
    BY DEF IInv
  <1> QED BY <1>1, Invariance, PTL

(* A workset is never handed to two workers at a time. *)
THEOREM WorksetHandedOutOnce == Spec => []OneOpenDispatch
  <1>1. IInv => OneOpenDispatch
    BY DEF IInv
  <1> QED BY <1>1, Invariance, PTL

(* The recovery never refuses the table for contradictory job authority. *)
THEOREM RecoveryAgrees == Spec => [](\A d \in OpenDispatches : AuthorityAgrees(d))
  <1>1. IInv => \A d \in OpenDispatches : AuthorityAgrees(d)
    <2> SUFFICES ASSUME IInv, NEW d \in OpenDispatches, NEW j \in Held(d)
                 PROVE  job[j].token = d /\ job[j].reserved # 0
      BY DEF AuthorityAgrees
    <2>1. /\ j \in Jobs /\ job[j].dispatch = d /\ job[j].state \in Unfinished
          /\ job[j] \in Job /\ RowOK(job[j], completions[j], reopens[j])
      BY DEF Held, IInv, TypeOK, RowsOK
    <2> QED BY <2>1 DEF IInv, UnfinishedOwned, Unfinished, RowOK, Job
  <1> QED BY <1>1, Invariance, PTL

(* Results are live exactly while they wait for, or are in, processing. *)
THEOREM ResultsCoherent == Spec => []ResultCoherent
  <1>1. IInv => ResultCoherent
    BY DEF IInv, RowsOK, RowOK, ResultCoherent
  <1> QED BY <1>1, Invariance, PTL

(* Each ending of a job is announced to the workflow exactly once. *)
THEOREM EachEndCompletedOnce == Spec => []CompletedOnce
  <1>1. IInv => CompletedOnce
    BY DEF IInv, RowsOK, RowOK, CompletedOnce
  <1> QED BY <1>1, Invariance, PTL

(* No job starts more often than its budget and its manual retries allow. *)
THEOREM BudgetKept == Spec => []AttemptsBounded
  <1>1. IInv => AttemptsBounded
    BY DEF IInv, RowsOK, RowOK, AttemptsBounded
  <1> QED BY <1>1, Invariance, PTL

(* A job never has two cancellation requests in force. *)
THEOREM CancellationUnique == Spec => []OneActiveRequest
  <1>1. IInv => OneActiveRequest
    BY DEF IInv
  <1> QED BY <1>1, Invariance, PTL

(* What one step does to an ended job and to a closed dispatch. *)
EndKept ==
    /\ \A j \in Jobs : job[j].state \in Final =>
         job'[j].state = job[j].state \/ reopens'[j] > reopens[j]
    /\ \A d \in DOMAIN dispatches : dispatches[d].state = "CLOSED" =>
         dispatches'[d].state = "CLOSED"

(* A step that writes the row of a job that has not ended keeps all ends. *)
LEMMA EndKeptByRow ==
    ASSUME TypeOK, NEW j \in Jobs, NEW r, job[j].state \notin Final,
           job' = [job EXCEPT ![j] = r],
           \A d \in DOMAIN dispatches : dispatches[d].state = "CLOSED" =>
             dispatches'[d].state = "CLOSED"
    PROVE  EndKept
  BY DEF TypeOK, EndKept

(* So does one that touches no job, and one that closes dispatches. *)
LEMMA EndKeptByDispatch ==
    ASSUME TypeOK, UNCHANGED job, NEW d \in DOMAIN dispatches, dispatches[d].state # "CLOSED",
           NEW s \in OpenStates \cup {"CLOSED"}, SetDispatch(d, s)
    PROVE  EndKept
  BY SetDispatchFacts DEF EndKept

(* A step that only closes dispatches keeps the closed ones closed. *)
LEMMA ClosedKept ==
    ASSUME TypeOK, NEW d \in DOMAIN dispatches, NEW P \in BOOLEAN,
           SetDispatch(d, IF P THEN "CLOSED" ELSE dispatches[d].state)
    PROVE  \A e \in DOMAIN dispatches : dispatches[e].state = "CLOSED" =>
             dispatches'[e].state = "CLOSED"
  <1> DEFINE s == IF P THEN "CLOSED" ELSE dispatches[d].state
  <1>1. dispatches[d] \in [workset : Nat, state : OpenStates \cup {"CLOSED"}]
    BY DispatchRow
  <1>2. s \in OpenStates \cup {"CLOSED"}
    BY <1>1
  <1>3. \A e \in DOMAIN dispatches :
          dispatches'[e].state = IF e = d THEN s ELSE dispatches[e].state
    BY <1>2, SetDispatchFacts
  <1> QED BY <1>3

(* A release or a recovery keeps ended jobs and closed dispatches ended. *)
LEMMA EndKeptByClose ==
    ASSUME TypeOK, NEW D, CloseDispatches(D)
    PROVE  EndKept
  <1>1. \A j \in Jobs : job[j].state \in Final => job'[j] = job[j]
    BY DEF CloseDispatches, Final
  <1>2. \A d \in DOMAIN dispatches : dispatches[d].state = "CLOSED" =>
          dispatches'[d].state = "CLOSED"
    <2> TAKE d \in DOMAIN dispatches
    <2>1. dispatches[d] \in [workset : Nat, state : OpenStates \cup {"CLOSED"}]
      BY DispatchRow
    <2>2. dispatches'[d] =
            IF d \in D THEN [dispatches[d] EXCEPT !.state = "CLOSED"] ELSE dispatches[d]
      BY DEF CloseDispatches
    <2> QED BY <2>1, <2>2
  <1> QED BY <1>1, <1>2 DEF EndKept

(* An end is final: no transaction but a manual retry takes a job out of a *)
(* final state, and none reopens a closed dispatch.                        *)
THEOREM EndsStayFinal == Spec => EndsAreFinal
  <1>1. TypeOK /\ Next => EndKept
    <2> SUFFICES ASSUME TypeOK, Next PROVE EndKept
      OBVIOUS
    <2>1. ASSUME NEW w \in DOMAIN itemCount, ClaimPublishedWorkset(w) PROVE EndKept
      <3>1. \A j \in Jobs : job[j].state \in Final => job'[j] = job[j]
        BY <2>1 DEF ClaimPublishedWorkset, Claimable, Offerable, JobsOf, Final
      <3>2. \A d \in DOMAIN dispatches : dispatches'[d] = dispatches[d]
        <4> DEFINE R == [workset : Nat, state : OpenStates \cup {"CLOSED"}]
                   row == [workset |-> w, state |-> "CLAIMED"]
        <4>1. dispatches \in Seq(R) /\ row \in R
          BY DEF TypeOK, OpenStates
        <4>2. dispatches' = Append(dispatches, row)
          BY <2>1 DEF ClaimPublishedWorkset
        <4> HIDE DEF R, row
        <4>3. \A d \in 1 .. Len(dispatches) : Append(dispatches, row)[d] = dispatches[d]
          BY <4>1, AppendProperties
        <4> QED BY <4>1, <4>2, <4>3
      <3> QED BY <3>1, <3>2 DEF EndKept
    <2>2. ASSUME NEW d \in DOMAIN dispatches, MarkWorksetActive(d) \/ MarkWorksetDraining(d)
          PROVE  EndKept
      BY <2>2, EndKeptByDispatch DEF MarkWorksetActive, MarkWorksetDraining, OpenStates
    <2>3. ASSUME NEW d \in DOMAIN dispatches, NEW j \in Jobs, MarkWorksetJobStarted(j, d)
          PROVE  EndKept
      BY <2>3, EndKeptByRow DEF MarkWorksetJobStarted, Final
    <2>4. ASSUME NEW d \in DOMAIN dispatches, NEW j \in Jobs, StageWorkerTerminal(j, d)
          PROVE  EndKept
      <3>1. \A e \in DOMAIN dispatches : dispatches[e].state = "CLOSED" =>
              dispatches'[e].state = "CLOSED"
        BY <2>4, ClosedKept DEF StageWorkerTerminal
      <3> QED BY <2>4, <3>1, EndKeptByRow DEF StageWorkerTerminal, Final
    <2>5. ASSUME NEW d \in DOMAIN dispatches, NEW j \in Jobs, NEW c \in Jobs,
                 NEW s \in {"CANCELED", "FAILED"}, ResolveWithoutWorker(j, c, d, s)
          PROVE  EndKept
      <3>1. \A e \in DOMAIN dispatches : dispatches[e].state = "CLOSED" =>
              dispatches'[e].state = "CLOSED"
        BY <2>5, ClosedKept DEF ResolveWithoutWorker
      <3> QED BY <2>5, <3>1, EndKeptByRow DEF ResolveWithoutWorker, Final
    <2>6. ASSUME UNCHANGED <<job, dispatches>> PROVE EndKept
      BY <2>6 DEF EndKept
    <2>7. ASSUME NEW j \in Jobs, Processing(j), UNCHANGED dispatches,
                 \E r : job' = [job EXCEPT ![j] = r]
          PROVE  EndKept
      BY <2>7, EndKeptByRow DEF Processing, Final
    <2>8. ASSUME NEW j \in Jobs, ClaimExecutionFinishedJob(j) PROVE EndKept
      BY <2>8, EndKeptByRow DEF ClaimExecutionFinishedJob, Final
    <2>9. ASSUME NEW s \in Steps, NEW J \in SUBSET Jobs, ApplyWorksetJobReorganization(s, J)
          PROVE  EndKept
      <3>1. \A j \in Jobs : j \notin J => job'[j] = job[j]
        BY <2>9 DEF ApplyWorksetJobReorganization
      <3>2. \A j \in Jobs : j \in J => reopens'[j] > reopens[j]
        <4>1. reopens' = [j \in Jobs |-> IF j \in J THEN reopens[j] + 1 ELSE reopens[j]]
          BY <2>9 DEF ApplyWorksetJobReorganization
        <4>2. \A j \in Jobs : reopens[j] \in Nat
          BY DEF TypeOK
        <4> QED BY <4>1, <4>2
      <3>3. UNCHANGED dispatches
        BY <2>9 DEF ApplyWorksetJobReorganization
      <3> QED BY <3>1, <3>2, <3>3 DEF EndKept
    <2>10. ASSUME NEW d \in DOMAIN dispatches, ReleaseWorksetDispatch(d) PROVE EndKept
      BY <2>10, EndKeptByClose DEF ReleaseWorksetDispatch
    <2>11. CASE RecoverInterruptedWorksetDispatches
      BY <2>11, EndKeptByClose DEF RecoverInterruptedWorksetDispatches
    <2>12. ASSUME NEW j \in Jobs,
                  \/ ResetInterruptedResultProcessing(j)
                  \/ RetryResultFinalization(j)
                  \/ \E s \in DecidedStates, T \in SUBSET (Jobs \ {j}) :
                       CommitResultFinalization(j, s, T)
           PROVE  EndKept
      BY <2>7, <2>12 DEF ResetInterruptedResultProcessing, RetryResultFinalization,
                         CommitResultFinalization
    <2>13. ASSUME NEW j \in Jobs,
                  \/ \E c \in Jobs : WorkerTerminalResolved(j, c)
                  \/ \E c \in Jobs, d \in DOMAIN dispatches : WorkerDeliveryAccepted(j, c, d)
                  \/ \E T \in SUBSET (Jobs \ {j}) : \E inserted \in SUBSET T :
                       RejectResultFinalization(j, T, inserted)
           PROVE  EndKept
      BY <2>6, <2>13 DEF WorkerTerminalResolved, WorkerDeliveryAccepted, RejectResultFinalization
    <2>14. ASSUME NEW s \in Steps, NEW new \in StepStates, MoveStep(s, new) PROVE EndKept
      BY <2>6, <2>14 DEF MoveStep
    <2> QED BY <2>1, <2>2, <2>3, <2>4, <2>5, <2>8, <2>9, <2>10, <2>11, <2>12, <2>13, <2>14,
               StepTransactions DEF Next
  <1>2. TypeOK /\ [Next]_vars => [EndKept]_vars
    BY <1>1
  <1>3. [EndKept]_vars <=> [/\ \A j \in Jobs : job[j].state \in Final =>
                                 job'[j].state = job[j].state \/ reopens'[j] > reopens[j]
                            /\ \A d \in DOMAIN dispatches : dispatches[d].state = "CLOSED" =>
                                 dispatches'[d].state = "CLOSED"]_vars
    BY DEF EndKept
  <1> QED BY <1>2, <1>3, TypeCorrect, PTL DEF Spec, EndsAreFinal

-----------------------------------------------------------------------------
(* Worksets and availability *)

Queued(j) == job[j].state = "QUEUED"
Pending(j) == /\ job[j].state = "EXECUTION_FINISHED"
              /\ job[j].processing = "PENDING"
              /\ job[j].blob = "LIVE"

(* Every queued job is in a workset that can be offered whole.               *)
QueuedOfferable ==
    \A j \in Jobs : job[j].state = "QUEUED" => Offerable(job[j].workset)

(* A workset has jobs of one step.                                           *)
OneStep == \A i, j \in Jobs : job[i].workset = job[j].workset => StepOf[i] = StepOf[j]

(* Jobs and dispatches are of worksets that exist, and every queued job can  *)
(* be offered with all of its workset.                                       *)
WorksetsOK ==
    /\ \A j \in Jobs : job[j].workset \in DOMAIN itemCount
    /\ \A d \in DOMAIN dispatches : dispatches[d].workset \in DOMAIN itemCount
    /\ QueuedOfferable
    /\ OneStep

(* The flags tell whether a job is queued and whether a result is pending.   *)
FlagsOK ==
    /\ available.ready <=> \E j \in Jobs : Queued(j)
    /\ available.results <=> PendingResultExists

StoreInv == IInv /\ WorksetsOK /\ FlagsOK

(* A workset that can be offered has a queued job. *)
LEMMA OfferableHasQueued ==
    ASSUME TypeOK, NEW w \in DOMAIN itemCount, Offerable(w)
    PROVE  \E j \in Jobs : Queued(j) /\ job[j].workset = w
  <1>1. itemCount[w] > 0 /\ Cardinality(JobsOf(w)) = itemCount[w]
    BY DEF Offerable
  <1>2. JobsOf(w) # {}
    BY <1>1, FS_EmptySet
  <1> QED BY <1>2 DEF Offerable, JobsOf, Queued

(* While every queued job can be offered, the query of the availability row  *)
(* (kReadyWorksetExistsSql), weaker as it is, is exact.                      *)
LEMMA ReadyIsQueued ==
    ASSUME WorksetsOK
    PROVE  ReadyWorksetExists <=> \E j \in Jobs : Queued(j)
  <1>1. ASSUME NEW j \in Jobs, Queued(j) PROVE ReadyWorksetExists
    <2>1. job[j].workset \in DOMAIN itemCount /\ Offerable(job[j].workset) /\ j \in JobsOf(job[j].workset)
      BY <1>1 DEF WorksetsOK, QueuedOfferable, Queued, JobsOf
    <2> QED BY <2>1 DEF Offerable, ReadyWorksetExists
  <1> QED BY <1>1 DEF ReadyWorksetExists, JobsOf, Queued

(* A transaction that refreshes the row writes the truth. *)
LEMMA FlagsRefreshed ==
    ASSUME WorksetsOK', Refresh
    PROVE  FlagsOK'
  <1>1. (ReadyWorksetExists <=> \E j \in Jobs : Queued(j))'
    BY ReadyIsQueued, PTL
  <1>2. available'.ready = ReadyWorksetExists' /\ available'.results = PendingResultExists'
    BY DEF Refresh
  <1> QED BY <1>1, <1>2 DEF FlagsOK

(* One that does not may leave it alone when it queues no job, takes none    *)
(* and neither makes nor takes a pending result.                             *)
LEMMA FlagsSame ==
    ASSUME FlagsOK, UNCHANGED available,
           \A j \in Jobs : (Queued(j)' <=> Queued(j)) /\ (Pending(j)' <=> Pending(j))
    PROVE  FlagsOK'
  <1>1. PendingResultExists <=> \E j \in Jobs : Pending(j)
    BY DEF PendingResultExists, Pending
  <1>2. PendingResultExists' <=> \E j \in Jobs : Pending(j)'
    BY DEF PendingResultExists, Pending
  <1> QED BY <1>1, <1>2 DEF FlagsOK

(* A job stays where it is, or moves to a new workset and is queued there.   *)
Stays(j) ==
    \/ Queued(j) /\ job'[j] = job[j]
    \/ ~Queued(j) /\ ~Queued(j)' /\ job'[j].workset = job[j].workset
Moves(j) ==
    /\ ~Queued(j) /\ Queued(j)' /\ job'[j].attempts < job'[j].max
    /\ job'[j].workset \in (DOMAIN itemCount)' \ DOMAIN itemCount

(* No dispatch is made, or reopened, or moved to another workset. *)
NoNewDispatch ==
    /\ (DOMAIN dispatches)' = DOMAIN dispatches
    /\ \A d \in DOMAIN dispatches :
         /\ dispatches'[d].workset = dispatches[d].workset
         /\ dispatches'[d].state \in OpenStates => dispatches[d].state \in OpenStates

(* A queued job keeps its whole workset: the worksets stay in order when no  *)
(* job joins an old workset and the new ones count the jobs moved to them.   *)
LEMMA WorksetsKept ==
    ASSUME TypeOK', WorksetsOK, NoNewDispatch, \A j \in Jobs : Stays(j) \/ Moves(j),
           DOMAIN itemCount \subseteq (DOMAIN itemCount)',
           \A w \in DOMAIN itemCount : itemCount'[w] = itemCount[w],
           \A w \in (DOMAIN itemCount)' \ DOMAIN itemCount :
             itemCount'[w] = Cardinality(JobsOf(w)'),
           \A i, j \in Jobs : Moves(i) /\ Moves(j) /\ job'[i].workset = job'[j].workset =>
             StepOf[i] = StepOf[j]
    PROVE  WorksetsOK'
  <1>1. ASSUME NEW j \in Jobs PROVE job'[j].workset \in (DOMAIN itemCount)'
    BY DEF WorksetsOK, Stays, Moves
  <1>2. ASSUME NEW d \in (DOMAIN dispatches)' PROVE dispatches'[d].workset \in (DOMAIN itemCount)'
    BY DEF WorksetsOK, NoNewDispatch
  <1>3. ASSUME NEW j \in Jobs, Queued(j)' PROVE \E w : w = job'[j].workset /\ Offerable(w)'
    <2>0. PICK w : w = job'[j].workset
      OBVIOUS
    <2>1. CASE Stays(j)
      <3>1. Queued(j) /\ w = job[j].workset /\ w \in DOMAIN itemCount
        BY <1>3, <2>0, <2>1 DEF Stays, Moves, WorksetsOK
      <3>2. Offerable(w)
        BY <3>1 DEF WorksetsOK, QueuedOfferable, Queued
      <3>3. \A k \in JobsOf(w) : Queued(k) /\ job'[k] = job[k]
        <4> TAKE k \in JobsOf(w)
        <4>1. k \in Jobs /\ Queued(k)
          BY <3>2 DEF Offerable, JobsOf, Queued
        <4> QED BY <4>1 DEF Stays, Moves
      <3>4. \A k \in Jobs : job'[k].workset = w => k \in JobsOf(w)
        BY <3>1 DEF Stays, Moves, JobsOf
      <3>5. JobsOf(w)' = JobsOf(w)
        BY <3>3, <3>4 DEF JobsOf
      <3>6. itemCount'[w] = itemCount[w]
        BY <3>1
      <3>7. ~HasOpenDispatch(w)'
        BY <3>2 DEF Offerable, HasOpenDispatch, OpenDispatches, NoNewDispatch
      <3>8. \A k \in JobsOf(w) : job'[k].state = "QUEUED" /\ job'[k].attempts < job'[k].max
        BY <3>2, <3>3 DEF Offerable
      <3>9. itemCount'[w] > 0 /\ Cardinality(JobsOf(w)') = itemCount'[w]
        BY <3>2, <3>5, <3>6 DEF Offerable
      <3>10. Offerable(w)'
        BY <3>5, <3>7, <3>8, <3>9 DEF Offerable
      <3> QED BY <2>0, <3>10
    <2>2. CASE Moves(j)
      <3>1. w \in (DOMAIN itemCount)' \ DOMAIN itemCount
        BY <2>0, <2>2 DEF Moves
      <3>2. \A k \in JobsOf(w)' : Moves(k)
        BY <3>1 DEF Stays, JobsOf, WorksetsOK
      <3>3. itemCount'[w] = Cardinality(JobsOf(w)')
        BY <3>1
      <3>4. j \in JobsOf(w)'
        BY <2>0 DEF JobsOf
      <3>5. IsFiniteSet(JobsOf(w)')
        <4>1. PICK T \in SUBSET Jobs : T = JobsOf(w)'
          BY DEF JobsOf
        <4>2. IsFiniteSet(T)
          BY FS_Subset
        <4> QED BY <4>1, <4>2
      <3>6. itemCount'[w] > 0
        BY <3>3, <3>4, <3>5, FS_EmptySet, FS_CardinalityType
      <3>7. ~HasOpenDispatch(w)'
        BY <3>1 DEF WorksetsOK, HasOpenDispatch, OpenDispatches, NoNewDispatch
      <3>8. \A k \in JobsOf(w)' : job'[k].state = "QUEUED" /\ job'[k].attempts < job'[k].max
        BY <3>2 DEF Moves, Queued
      <3>10. Offerable(w)'
        BY <3>3, <3>6, <3>7, <3>8 DEF Offerable
      <3> QED BY <2>0, <3>10
    <2> QED BY <2>1, <2>2
  <1>4. QueuedOfferable'
    <2> SUFFICES ASSUME NEW j \in Jobs, job'[j].state = "QUEUED"
                 PROVE  Offerable(job[j].workset)'
      BY DEF QueuedOfferable
    <2>1. PICK w : w = job'[j].workset /\ Offerable(w)'
      BY <1>3 DEF Queued
    <2> QED BY <2>1 DEF Offerable, JobsOf, HasOpenDispatch, OpenDispatches
  <1>5. OneStep'
    <2> SUFFICES ASSUME NEW i \in Jobs, NEW j \in Jobs, job'[i].workset = job'[j].workset
                 PROVE  StepOf[i] = StepOf[j]
      BY DEF OneStep
    <2>1. \A k \in Jobs : Stays(k) => job'[k].workset = job[k].workset /\ job[k].workset \in DOMAIN itemCount
      BY DEF Stays, WorksetsOK
    <2>2. \A k \in Jobs : Moves(k) => job'[k].workset \notin DOMAIN itemCount
      BY DEF Moves
    <2>3. CASE Moves(i) /\ Moves(j)
      BY <2>3
    <2>4. CASE Stays(i) /\ Stays(j)
      BY <2>1, <2>4 DEF WorksetsOK, OneStep
    <2> QED BY <2>1, <2>2, <2>3, <2>4
  <1> QED BY <1>1, <1>2, <1>4, <1>5 DEF WorksetsOK

(* In particular when no workset is made. *)
LEMMA WorksetsSame ==
    ASSUME TypeOK', WorksetsOK, NoNewDispatch, \A j \in Jobs : Stays(j), UNCHANGED itemCount
    PROVE  WorksetsOK'
  <1>1. \A j \in Jobs : ~Moves(j)
    BY DEF Stays, Moves
  <1> QED BY <1>1, WorksetsKept

(* Steps that leave the dispatches alone, or set the state of one. *)
LEMMA SameDispatches ==
    ASSUME UNCHANGED dispatches
    PROVE  NoNewDispatch
  BY DEF NoNewDispatch

(* Setting the state of an open dispatch makes no new one. *)
LEMMA SetNoNew ==
    ASSUME TypeOK, NEW d \in DOMAIN dispatches, dispatches[d].state \in OpenStates,
           NEW s \in OpenStates \cup {"CLOSED"}, SetDispatch(d, s)
    PROVE  NoNewDispatch
  BY SetDispatchFacts DEF NoNewDispatch

(* A row that changes and was not queued, and is not. *)
LEMMA RowStays ==
    ASSUME TypeOK, NEW j \in Jobs, NEW r \in Job, job' = [job EXCEPT ![j] = r],
           ~Queued(j), r.state # "QUEUED", r.workset = job[j].workset
    PROVE  \A i \in Jobs : Stays(i)
  <1>1. job'[j] = r /\ \A i \in Jobs : i # j => job'[i] = job[i]
    BY JobRow
  <1>2. \A i \in Jobs : Queued(i) \/ ~Queued(i)
    OBVIOUS
  <1> QED BY <1>1, <1>2 DEF Stays, Queued

(* A transaction that leaves the worksets in order keeps the invariant when  *)
(* it refreshes the row,                                                     *)
LEMMA StoreKept ==
    ASSUME StoreInv, [Next]_vars, WorksetsOK', Refresh
    PROVE  StoreInv'
  BY NextStep, FlagsRefreshed DEF StoreInv

(* and when there is nothing to refresh.                                     *)
LEMMA StoreKeptQuietly ==
    ASSUME StoreInv, [Next]_vars, WorksetsOK', UNCHANGED available,
           \A j \in Jobs : (Queued(j)' <=> Queued(j)) /\ (Pending(j)' <=> Pending(j))
    PROVE  StoreInv'
  BY NextStep, FlagsSame DEF StoreInv

(* The claim takes the whole workset, and no other. *)
LEMMA ClaimWorksets ==
    ASSUME StoreInv, TypeOK', NEW w \in DOMAIN itemCount, ClaimPublishedWorkset(w)
    PROVE  WorksetsOK' /\ Refresh
  <1> DEFINE row == [workset |-> w, state |-> "CLAIMED"]
             R == [workset : Nat, state : OpenStates \cup {"CLOSED"}]
  <1>1. TypeOK /\ WorksetsOK /\ Offerable(w) /\ Refresh /\ UNCHANGED itemCount
    BY DEF StoreInv, IInv, ClaimPublishedWorkset, Claimable
  <1>2. dispatches \in Seq(R) /\ row \in R
    BY <1>1 DEF TypeOK, OpenStates
  <1>3. dispatches' = Append(dispatches, row)
    BY DEF ClaimPublishedWorkset
  <1>4. row.workset = w
    OBVIOUS
  <1> HIDE DEF R, row
  <1>5. /\ \A d \in DOMAIN dispatches : d \in (DOMAIN dispatches)' /\ dispatches'[d] = dispatches[d]
        /\ \A d \in (DOMAIN dispatches)' : d \in DOMAIN dispatches \/ dispatches'[d] = row
    BY <1>2, <1>3, AppendProperties
  <1>6. \A d \in (DOMAIN dispatches)' : dispatches'[d].workset \in (DOMAIN itemCount)'
    BY <1>1, <1>4, <1>5 DEF WorksetsOK
  <1>7. \A j \in Jobs : IF j \in JobsOf(w) THEN ~Queued(j)' /\ job'[j].workset = job[j].workset
                                           ELSE job'[j] = job[j]
    <2> TAKE j \in Jobs
    <2>1. job[j] \in Job
      BY <1>1 DEF TypeOK
    <2> QED BY <2>1 DEF ClaimPublishedWorkset, Job, Queued
  <1>8. \A j \in Jobs : job'[j].workset = job[j].workset
    BY <1>7
  <1>9. QueuedOfferable'
    <2> SUFFICES ASSUME NEW j \in Jobs, Queued(j)' PROVE Offerable(job[j].workset)'
      BY DEF QueuedOfferable, Queued
    <2>1. PICK v : v = job[j].workset
      OBVIOUS
    <2>2. j \notin JobsOf(w) /\ v # w /\ job'[j] = job[j]
      BY <1>7, <2>1 DEF JobsOf
    <2>3. Offerable(v)
      BY <1>1, <2>1, <2>2 DEF WorksetsOK, QueuedOfferable, Queued
    <2>4. JobsOf(v)' = JobsOf(v)
      BY <1>8 DEF JobsOf
    <2>5. \A k \in JobsOf(v) : job'[k] = job[k]
      BY <1>7, <2>2 DEF JobsOf
    <2>6. ~HasOpenDispatch(v)'
      BY <1>4, <1>5, <2>2, <2>3 DEF Offerable, HasOpenDispatch, OpenDispatches
    <2>7. Offerable(v)'
      BY <1>1, <2>3, <2>4, <2>5, <2>6 DEF Offerable
    <2> QED BY <2>1, <2>2, <2>7 DEF Offerable, JobsOf, HasOpenDispatch, OpenDispatches
  <1>10. \A j \in Jobs : job'[j].workset \in (DOMAIN itemCount)'
    BY <1>1, <1>8 DEF WorksetsOK
  <1> QED BY <1>1, <1>6, <1>8, <1>9, <1>10 DEF WorksetsOK, OneStep

(* A new workset behind the others. *)
LEMMA AppendWorkset ==
    ASSUME TypeOK, NEW n \in Nat, itemCount' = Append(itemCount, n)
    PROVE  /\ (DOMAIN itemCount)' = DOMAIN itemCount \cup {Len(itemCount) + 1}
           /\ Len(itemCount) + 1 \notin DOMAIN itemCount
           /\ itemCount'[Len(itemCount) + 1] = n
           /\ \A w \in DOMAIN itemCount : itemCount'[w] = itemCount[w]
  <1>1. itemCount \in Seq(Nat)
    BY DEF TypeOK
  <1> QED BY <1>1, AppendProperties

(* Jobs that were not queued move to one new workset: a retry, or a manual   *)
(* one.                                                                      *)
LEMMA MoveWorksets ==
    ASSUME StoreInv, TypeOK', NEW J \in SUBSET Jobs, UNCHANGED dispatches,
           itemCount' = Append(itemCount, Cardinality(J)),
           \A j \in Jobs \ J : job'[j] = job[j],
           \A j \in J : /\ ~Queued(j) /\ Queued(j)' /\ job'[j].workset = Len(itemCount) + 1
                        /\ job'[j].attempts < job'[j].max,
           \A i, j \in J : StepOf[i] = StepOf[j]
    PROVE  WorksetsOK'
  <1>1. TypeOK /\ WorksetsOK
    BY DEF StoreInv, IInv
  <1> DEFINE new == Len(itemCount) + 1
  <1>2. /\ (DOMAIN itemCount)' = DOMAIN itemCount \cup {new} /\ new \notin DOMAIN itemCount
        /\ itemCount'[new] = Cardinality(J)
        /\ \A w \in DOMAIN itemCount : itemCount'[w] = itemCount[w]
    BY <1>1, CountJobs, AppendWorkset
  <1> HIDE DEF new
  <1>3. \A j \in J : job'[j].workset = new
    BY DEF new
  <1>4. \A j \in Jobs : Stays(j) \/ Moves(j)
    <2> TAKE j \in Jobs
    <2>1. CASE j \in J
      BY <1>2, <1>3, <2>1 DEF Moves
    <2>2. CASE j \notin J
      BY <2>2 DEF Stays, Queued
    <2> QED BY <2>1, <2>2
  <1>5. \A w \in {new} : JobsOf(w)' = J
    BY <1>1, <1>2, <1>3 DEF JobsOf, WorksetsOK
  <1>6. \A w \in (DOMAIN itemCount)' \ DOMAIN itemCount : itemCount'[w] = Cardinality(JobsOf(w)')
    BY <1>2, <1>5
  <1>7. \A j \in Jobs : Moves(j) => j \in J
    BY DEF Moves, Queued
  <1> QED BY <1>1, <1>2, <1>4, <1>6, <1>7, SameDispatches, WorksetsKept

(* A retry of the processor moves its job to a workset of its own. *)
LEMMA RetryWorksets ==
    ASSUME StoreInv, TypeOK', NEW j \in Jobs, RetryResultFinalization(j)
    PROVE  WorksetsOK' /\ Refresh
  <1>1. TypeOK /\ job[j] \in Job /\ ~Queued(j) /\ UNCHANGED dispatches /\ Refresh
    BY DEF StoreInv, IInv, TypeOK, RetryResultFinalization, Processing, Queued
  <1>2. CASE job' = [job EXCEPT ![j] = Processed(@, "FAILED")] /\ UNCHANGED itemCount
    <2> DEFINE r == Processed(job[j], "FAILED")
    <2>1. r \in Job /\ r.state # "QUEUED" /\ r.workset = job[j].workset /\ job' = [job EXCEPT ![j] = r]
      BY <1>1, <1>2 DEF Processed, Job, JobStates, Final
    <2> HIDE DEF r
    <2> QED BY <1>1, <1>2, <2>1, RowStays, SameDispatches, WorksetsSame DEF StoreInv
  <1>3. CASE /\ job[j].attempts < job[j].max
             /\ itemCount' = Append(itemCount, 1)
             /\ job' = [job EXCEPT ![j] = Requeued(Processed(@, "QUEUED"), Len(itemCount) + 1)]
    <2> DEFINE p == Processed(job[j], "QUEUED")
               r == Requeued(p, Len(itemCount) + 1)
    <2>1. Cardinality({j}) = 1
      BY FS_Singleton
    <2>2. p \in Job /\ p.attempts = job[j].attempts /\ p.max = job[j].max
      BY <1>1 DEF Processed, Job, JobStates
    <2>3. job' = [job EXCEPT ![j] = r]
      BY <1>3
    <2> HIDE DEF p
    <2>4. Len(itemCount) + 1 \in Nat
      BY <1>1 DEF TypeOK
    <2>5. /\ r \in Job /\ r.state = "QUEUED" /\ r.workset = Len(itemCount) + 1
          /\ r.attempts = p.attempts /\ r.max = p.max
      BY <2>2, <2>4 DEF Requeued, Job, JobStates
    <2> HIDE DEF r
    <2>6. job'[j] = r /\ \A i \in Jobs : i # j => job'[i] = job[i]
      BY <1>1, <2>3, <2>5, JobRow
    <2>7. \A i \in {j} : /\ ~Queued(i) /\ Queued(i)' /\ job'[i].workset = Len(itemCount) + 1
                         /\ job'[i].attempts < job'[i].max
      BY <1>1, <1>3, <2>2, <2>5, <2>6 DEF Queued
    <2> QED BY <1>1, <1>3, <2>1, <2>6, <2>7, MoveWorksets
  <1> QED BY <1>1, <1>2, <1>3 DEF RetryResultFinalization

(* A manual retry gives its jobs one attempt more than they have had.        *)
LEMMA ReorganizationWorksets ==
    ASSUME StoreInv, TypeOK', NEW s \in Steps, NEW J \in SUBSET Jobs, ApplyWorksetJobReorganization(s, J)
    PROVE  WorksetsOK' /\ Refresh
  <1> DEFINE new == Len(itemCount) + 1
             r(j) == [Requeued(job[j], new) EXCEPT
                        !.max = job[j].attempts + 1, !.processing = "NULL", !.blob = "NULL"]
  <1>1. TypeOK /\ Refresh /\ UNCHANGED dispatches /\ itemCount' = Append(itemCount, Cardinality(J))
    BY DEF StoreInv, IInv, ApplyWorksetJobReorganization
  <1>2. \A j \in Jobs : job'[j] = IF j \notin J THEN job[j] ELSE r(j)
    BY DEF ApplyWorksetJobReorganization
  <1>3. \A j \in J : ~Queued(j)
    BY DEF ApplyWorksetJobReorganization, Queued
  <1>4. new \in Nat
    BY <1>1 DEF TypeOK
  <1> HIDE DEF new
  <1>5. ASSUME NEW j \in J
        PROVE  r(j).state = "QUEUED" /\ r(j).workset = new /\ r(j).attempts < r(j).max
    <2>1. PICK q \in Job : q = job[j]
      BY <1>1 DEF TypeOK
    <2>2. q.attempts \in Nat
      BY DEF Job
    <2>3. /\ r(j).state = "QUEUED" /\ r(j).workset = new
          /\ r(j).attempts = q.attempts /\ r(j).max = q.attempts + 1
      BY <2>1 DEF Requeued, Job
    <2> QED BY <2>2, <2>3
  <1> HIDE DEF r
  <1>6. \A j \in J : /\ ~Queued(j) /\ Queued(j)' /\ job'[j].workset = Len(itemCount) + 1
                     /\ job'[j].attempts < job'[j].max
    BY <1>2, <1>3, <1>5 DEF Queued, new
  <1>7. \A j \in Jobs \ J : job'[j] = job[j]
    BY <1>2
  <1>8. \A i, j \in J : StepOf[i] = StepOf[j]
    BY DEF ApplyWorksetJobReorganization
  <1> QED BY <1>1, <1>6, <1>7, <1>8, MoveWorksets

(* A release or a recovery moves what was not started, for each dispatch to  *)
(* a workset of its own that counts it.                                      *)
LEMMA CloseWorksets ==
    ASSUME StoreInv, TypeOK', NEW D \in SUBSET OpenDispatches, CloseDispatches(D)
    PROVE  WorksetsOK' /\ Refresh
  <1> DEFINE unstarted(d) == {j \in Held(d) : job[j].state = "CLAIMED"}
             cloned == {d \in D : unstarted(d) # {}}
             replacement(d) == Len(itemCount) + Cardinality({e \in cloned : e <= d})
             interrupted == {j \in Jobs : job[j].dispatch \in D /\ job[j].state = "RUNNING"}
             requeued == {j \in Jobs : job[j].dispatch \in D /\ job[j].state = "CLAIMED"}
             moved(k) == {j \in Jobs : \E d \in cloned :
                            j \in unstarted(d) /\ replacement(d) = Len(itemCount) + k}
             new == [k \in 1 .. Cardinality(cloned) |-> Cardinality(moved(k))]
  <1>1. TypeOK /\ WorksetsOK /\ RowsOK
    BY DEF StoreInv, IInv
  <1>2. /\ itemCount' = itemCount \o new
        /\ \A j \in Jobs : job'[j] =
             IF j \in interrupted THEN Interrupted(job[j])
             ELSE IF j \in requeued THEN Requeued(job[j], replacement(job[j].dispatch))
             ELSE job[j]
        /\ dispatches' = [d \in DOMAIN dispatches |->
             IF d \in D THEN [dispatches[d] EXCEPT !.state = "CLOSED"] ELSE dispatches[d]]
        /\ Refresh
    BY DEF CloseDispatches
  <1>3. NoNewDispatch
    <2>1. ASSUME NEW d \in DOMAIN dispatches
          PROVE  /\ dispatches'[d].workset = dispatches[d].workset
                 /\ dispatches'[d].state \in OpenStates => dispatches[d].state \in OpenStates
      <3>1. dispatches[d] \in [workset : Nat, state : OpenStates \cup {"CLOSED"}]
        BY <1>1, DispatchRow
      <3> QED BY <1>2, <3>1 DEF OpenStates
    <2> QED BY <1>2, <2>1 DEF NoNewDispatch
  <1>4. IsFiniteSet(D)
    <2>1. DOMAIN dispatches = 1 .. Len(dispatches) /\ Len(dispatches) \in Nat
      BY <1>1 DEF TypeOK
    <2>2. IsFiniteSet(DOMAIN dispatches)
      <3>1. PICK n \in Nat : DOMAIN dispatches = 1 .. n
        BY <2>1
      <3>2. IsFiniteSet(1 .. n)
        BY FS_Interval
      <3> QED BY <3>1, <3>2
    <2>3. D \in SUBSET DOMAIN dispatches
      BY DEF OpenDispatches
    <2> QED BY <2>2, <2>3, FS_Subset
  <1>5. \A E \in SUBSET D : IsFiniteSet(E) /\ Cardinality(E) \in Nat
    BY <1>4, FS_Subset, FS_CardinalityType
  <1>6. Len(itemCount) \in Nat /\ DOMAIN itemCount = 1 .. Len(itemCount) /\ itemCount \in Seq(Nat)
    BY <1>1 DEF TypeOK
  <1>7. \A d \in cloned : replacement(d) - Len(itemCount) \in 1 .. Cardinality(cloned)
    <2> TAKE d \in cloned
    <2> DEFINE E == {e \in cloned : e <= d}
    <2>1. d \in DOMAIN dispatches /\ d <= d
      BY <1>1 DEF OpenDispatches, TypeOK
    <2>2. d \in E /\ E \in SUBSET cloned /\ cloned \in SUBSET D /\ E \in SUBSET D
      BY <2>1
    <2>3. Cardinality(E) # 0 /\ Cardinality(E) <= Cardinality(cloned)
      <3> HIDE DEF E, cloned
      <3> QED BY <1>5, <2>2, FS_Subset, FS_EmptySet
    <2>4. Cardinality(E) \in Nat /\ Cardinality(cloned) \in Nat
      <3> HIDE DEF E, cloned
      <3> QED BY <1>5, <2>2
    <2>5. replacement(d) = Len(itemCount) + Cardinality(E)
      OBVIOUS
    <2> HIDE DEF E, replacement, cloned
    <2> QED BY <1>6, <2>3, <2>4, <2>5
  <1>23. \A d \in cloned : d \in Nat
    <2>1. DOMAIN dispatches = 1 .. Len(dispatches) /\ Len(dispatches) \in Nat
      BY <1>1 DEF TypeOK
    <2>2. cloned \subseteq DOMAIN dispatches
      BY DEF OpenDispatches
    <2> HIDE DEF cloned
    <2> QED BY <2>1, <2>2
  <1>22. \A d, e \in cloned : replacement(d) = replacement(e) => d = e
    <2> SUFFICES ASSUME NEW d \in cloned, NEW e \in cloned, replacement(d) = replacement(e)
                 PROVE  d = e
      OBVIOUS
    <2> DEFINE below(x) == {y \in cloned : y <= x}
    <2>1. d \in Nat /\ e \in Nat
      BY <1>23
    <2>2. \A x \in {d, e} : below(x) \in SUBSET D
      OBVIOUS
    <2>3. Cardinality(below(d)) = Cardinality(below(e))
      BY <1>5, <1>6, <2>2
    <2>4. below(d) \subseteq below(e) \/ below(e) \subseteq below(d)
      <3>1. PICK m \in Nat, n \in Nat : m = d /\ n = e
        BY <2>1
      <3>2. CASE m <= n
        <4>1. \A y \in cloned : y <= m => y <= n
          BY <1>23, <3>2
        <4> QED BY <3>1, <4>1
      <3>3. CASE n <= m
        <4>1. \A y \in cloned : y <= n => y <= m
          BY <1>23, <3>3
        <4> QED BY <3>1, <4>1
      <3> QED BY <3>2, <3>3
    <2>5. d \in below(d) /\ e \in below(e)
      BY <2>1
    <2>6. \A x \in below(d) : x <= d
      OBVIOUS
    <2>7. \A x \in below(e) : x <= e
      OBVIOUS
    <2> HIDE DEF below, cloned, replacement
    <2>8. below(d) = below(e)
      BY <1>5, <2>2, <2>3, <2>4, FS_Subset
    <2>9. d <= e /\ e <= d
      BY <2>5, <2>6, <2>7, <2>8
    <2> QED BY <2>1, <2>9
  <1>8. \A j \in requeued : job[j].dispatch \in cloned /\ j \in unstarted(job[j].dispatch)
    BY DEF Held, Unfinished
  <1>9. Cardinality(cloned) \in Nat
    BY <1>5
  <1>10. \A k \in 1 .. Cardinality(cloned) : moved(k) \in SUBSET Jobs
    OBVIOUS
  <1>11. \A k \in 1 .. Cardinality(cloned) : Cardinality(moved(k)) \in Nat
    BY <1>10, CountJobs
  <1>12. \A k : \A j \in Jobs : j \in moved(k) <=> j \in requeued /\ replacement(job[j].dispatch) = Len(itemCount) + k
    BY <1>8 DEF Held
  <1> HIDE DEF replacement, cloned, unstarted, moved
  <1>13. /\ (DOMAIN itemCount)' = 1 .. Len(itemCount) + Cardinality(cloned)
         /\ \A w \in DOMAIN itemCount : itemCount'[w] = itemCount[w]
         /\ \A k \in 1 .. Cardinality(cloned) : itemCount'[Len(itemCount) + k] = Cardinality(moved(k))
    <2>1. new \in [1 .. Cardinality(cloned) -> Nat]
      BY <1>11
    <2>2. new \in UNION {[1 .. n -> Nat] : n \in Nat}
      BY <1>9, <2>1, Zenon
    <2>3. new \in Seq(Nat)
      BY <2>2, SeqDef, Zenon
    <2>4. Len(new) = Cardinality(cloned)
      BY <1>9, <2>1, <2>3
    <2>5. \A k \in 1 .. Cardinality(cloned) : new[k] = Cardinality(moved(k))
      OBVIOUS
    <2> HIDE DEF new
    <2>6. PICK m \in Nat, n \in Nat : m = Len(itemCount) /\ n = Cardinality(cloned)
      BY <1>6, <1>9
    <2>7. /\ Len(itemCount') = m + n /\ itemCount' \in Seq(Nat)
          /\ \A i \in 1 .. m + n : itemCount'[i] = IF i <= m THEN itemCount[i] ELSE new[i - m]
      <3>1. PICK s \in Seq(Nat) : s = itemCount /\ Len(s) = m
        BY <1>6, <2>6
      <3>2. PICK t \in Seq(Nat) : t = new /\ Len(t) = n
        BY <2>3, <2>4, <2>6
      <3>3. /\ Len(s \o t) = Len(s) + Len(t) /\ s \o t \in Seq(Nat)
            /\ \A i \in 1 .. Len(s) + Len(t) :
                 (s \o t)[i] = IF i <= Len(s) THEN s[i] ELSE t[i - Len(s)]
        BY ConcatProperties
      <3>4. itemCount' = s \o t
        BY <1>2, <3>1, <3>2
      <3> QED BY <3>1, <3>2, <3>3, <3>4
    <2>8. (DOMAIN itemCount)' = 1 .. m + n
      BY <2>7
    <2>9. \A w \in 1 .. m : w \in 1 .. m + n /\ w <= m
      BY <2>6
    <2>10. \A k \in 1 .. n : m + k \in 1 .. m + n /\ ~(m + k <= m) /\ m + k - m = k
      BY <2>6
    <2>11. \A w \in DOMAIN itemCount : itemCount'[w] = itemCount[w]
      BY <1>6, <2>6, <2>7, <2>9
    <2>12. \A k \in 1 .. n : itemCount'[m + k] = new[k]
      BY <2>7, <2>10
    <2> QED BY <2>5, <2>6, <2>8, <2>11, <2>12
  <1>14. \A j \in Jobs : job[j] \in Job
    BY <1>1 DEF TypeOK
  <1>15. ASSUME NEW j \in interrupted
         PROVE  ~Queued(j) /\ ~Queued(j)' /\ job'[j].workset = job[j].workset
    <2>1. PICK q \in Job : q = job[j] /\ q.state = "RUNNING"
      BY <1>14
    <2>2. job'[j] = Interrupted(q)
      BY <1>2, <2>1
    <2> QED BY <2>1, <2>2 DEF Interrupted, Job, Queued
  <1>16. ASSUME NEW j \in requeued
         PROVE  /\ ~Queued(j) /\ Queued(j)' /\ job'[j].attempts < job'[j].max
                /\ job'[j].workset = replacement(job[j].dispatch)
    <2>1. PICK q \in Job : q = job[j] /\ q.state = "CLAIMED" /\ q.attempts < q.max
      BY <1>1, <1>14 DEF RowsOK, RowOK
    <2>2. PICK n : n = replacement(job[j].dispatch)
      OBVIOUS
    <2>3. job'[j] = Requeued(q, n)
      BY <1>2, <2>1, <2>2
    <2> QED BY <2>1, <2>2, <2>3 DEF Requeued, Job, Queued
  <1>17. \A j \in requeued : replacement(job[j].dispatch) \in (DOMAIN itemCount)' \ DOMAIN itemCount
    <2> TAKE j \in requeued
    <2>1. PICK n : n = replacement(job[j].dispatch) - Len(itemCount)
      OBVIOUS
    <2>2. n \in 1 .. Cardinality(cloned)
      BY <1>7, <1>8, <2>1
    <2>3. replacement(job[j].dispatch) \in Nat
      BY <1>5, <1>6, <1>8 DEF replacement, cloned
    <2> QED BY <1>6, <1>9, <1>13, <2>1, <2>2, <2>3
  <1>18. \A j \in Jobs : Stays(j) \/ Moves(j)
    <2> TAKE j \in Jobs
    <2>1. CASE j \in interrupted
      BY <1>15, <2>1 DEF Stays
    <2>2. CASE j \in requeued
      BY <1>16, <1>17, <2>2 DEF Moves
    <2>3. CASE j \notin interrupted /\ j \notin requeued
      BY <1>2, <2>3 DEF Stays, Queued
    <2> QED BY <2>1, <2>2, <2>3
  <1>19. ASSUME NEW w \in (DOMAIN itemCount)' \ DOMAIN itemCount
         PROVE  itemCount'[w] = Cardinality(JobsOf(w)')
    <2>1. PICK k \in 1 .. Cardinality(cloned) : w = Len(itemCount) + k
      <3>1. w - Len(itemCount) \in 1 .. Cardinality(cloned) /\ w = Len(itemCount) + (w - Len(itemCount))
        BY <1>6, <1>9, <1>13
      <3> QED BY <3>1
    <2>2. \A j \in Jobs : job'[j].workset = w <=> j \in moved(k)
      <3> TAKE j \in Jobs
      <3>1. CASE j \in requeued
        BY <1>12, <1>16, <2>1, <3>1
      <3>2. CASE j \notin requeued
        <4>1. job'[j].workset = job[j].workset
          BY <1>2, <1>15, <3>2
        <4>2. job[j].workset # w
          BY <1>1 DEF WorksetsOK
        <4> QED BY <1>12, <3>2, <4>1, <4>2
      <3> QED BY <3>1, <3>2
    <2>3. JobsOf(w)' = moved(k)
      BY <1>10, <2>2 DEF JobsOf
    <2> QED BY <1>13, <2>1, <2>3
  <1>20. DOMAIN itemCount \subseteq (DOMAIN itemCount)'
    BY <1>6, <1>9, <1>13
  <1>21. ASSUME NEW i \in Jobs, NEW j \in Jobs, Moves(i), Moves(j), job'[i].workset = job'[j].workset
         PROVE  StepOf[i] = StepOf[j]
    <2>1. i \in requeued /\ j \in requeued
      BY <1>2, <1>15, <1>21 DEF Moves, Queued
    <2>2. PICK d \in cloned, e \in cloned : d = job[i].dispatch /\ e = job[j].dispatch
      BY <1>8, <2>1
    <2>3. replacement(d) = replacement(e)
      BY <1>16, <1>21, <2>1, <2>2
    <2>4. d = e
      BY <1>22, <2>3
    <2>5. dispatches[d].workset = job[i].workset /\ dispatches[d].workset = job[j].workset
      BY <2>1, <2>2, <2>4 DEF StoreInv, IInv, UnfinishedOwned, Unfinished
    <2> QED BY <1>1, <2>5 DEF WorksetsOK, OneStep
  <1> QED BY <1>1, <1>2, <1>3, <1>13, <1>18, <1>19, <1>20, <1>21, WorksetsKept

(* Every step keeps the worksets in order, and the row tells the truth: a    *)
(* step that does not refresh it changes nothing it tells.                   *)
LEMMA StoreNext == StoreInv /\ [Next]_vars => StoreInv'
  <1> SUFFICES ASSUME StoreInv, [Next]_vars PROVE StoreInv'
    OBVIOUS
  <1>1. TypeOK /\ TypeOK' /\ WorksetsOK /\ \A j \in Jobs : job[j] \in Job
    BY NextStep DEF StoreInv, IInv, TypeOK
  <1>2. ASSUME NoNewDispatch, UNCHANGED <<job, itemCount, available>>
        PROVE  StoreInv'
    <2>1. \A j \in Jobs : Stays(j) /\ (Queued(j)' <=> Queued(j)) /\ (Pending(j)' <=> Pending(j))
      BY <1>2 DEF Stays, Queued, Pending
    <2> QED BY <1>1, <1>2, <2>1, WorksetsSame, StoreKeptQuietly
  <1>3. ASSUME NEW j \in Jobs, NEW r \in Job, job' = [job EXCEPT ![j] = r], ~Queued(j),
               r.state # "QUEUED", r.workset = job[j].workset, NoNewDispatch, UNCHANGED itemCount,
               Refresh
        PROVE  StoreInv'
    BY <1>1, <1>3, RowStays, WorksetsSame, StoreKept
  <1>4. CASE UNCHANGED vars
    BY <1>2, <1>4, SameDispatches DEF vars
  <1>5. ASSUME NEW w \in DOMAIN itemCount, ClaimPublishedWorkset(w)
        PROVE  StoreInv'
    BY <1>1, <1>5, ClaimWorksets, StoreKept
  <1>6. ASSUME NEW d \in DOMAIN dispatches, MarkWorksetActive(d) \/ MarkWorksetDraining(d)
        PROVE  StoreInv'
    <2>1. NoNewDispatch
      BY <1>1, <1>6, SetNoNew DEF MarkWorksetActive, MarkWorksetDraining, OpenStates
    <2> QED BY <1>2, <1>6, <2>1 DEF MarkWorksetActive, MarkWorksetDraining
  <1>7. ASSUME NEW d \in DOMAIN dispatches, NEW j \in Jobs, MarkWorksetJobStarted(j, d)
        PROVE  StoreInv'
    <2> DEFINE r == [job[j] EXCEPT !.state = "RUNNING", !.attempts = job[j].reserved]
    <2>1. /\ r \in Job /\ r.state = "RUNNING" /\ r.workset = job[j].workset
          /\ job' = [job EXCEPT ![j] = r] /\ job[j].state = "CLAIMED"
          /\ UNCHANGED <<itemCount, dispatches, available>>
      BY <1>1, <1>7 DEF MarkWorksetJobStarted, Job, JobStates, Unfinished
    <2> HIDE DEF r
    <2>2. job'[j] = r /\ \A i \in Jobs : i # j => job'[i] = job[i]
      BY <1>1, <2>1, JobRow
    <2>3. WorksetsOK'
      BY <1>1, <2>1, RowStays, SameDispatches, WorksetsSame DEF Queued
    <2>4. \A i \in Jobs : (Queued(i)' <=> Queued(i)) /\ (Pending(i)' <=> Pending(i))
      BY <2>1, <2>2 DEF Queued, Pending
    <2> QED BY <2>1, <2>3, <2>4, StoreKeptQuietly
  <1>8. ASSUME NEW d \in DOMAIN dispatches, NEW j \in Jobs, StageWorkerTerminal(j, d)
        PROVE  StoreInv'
    <2> DEFINE r == [job[j] EXCEPT !.state = "EXECUTION_FINISHED", !.processing = "PENDING",
                                   !.blob = "LIVE", !.token = 0]
    <2>1. /\ r \in Job /\ r.state # "QUEUED" /\ r.workset = job[j].workset
          /\ job' = [job EXCEPT ![j] = r] /\ ~Queued(j) /\ UNCHANGED itemCount /\ Refresh
      BY <1>1, <1>8 DEF StageWorkerTerminal, Job, JobStates, Queued
    <2>2. NoNewDispatch
      BY <1>1, <1>8, SetNoNew DEF StageWorkerTerminal, Executing, OpenStates
    <2> HIDE DEF r
    <2> QED BY <1>3, <2>1, <2>2
  <1>9. ASSUME NEW d \in DOMAIN dispatches, NEW j \in Jobs, NEW c \in Jobs,
               NEW s \in {"CANCELED", "FAILED"}, ResolveWithoutWorker(j, c, d, s)
        PROVE  StoreInv'
    <2> DEFINE r == [job[j] EXCEPT !.state = s]
    <2>1. /\ r \in Job /\ r.state # "QUEUED" /\ r.workset = job[j].workset
          /\ job' = [job EXCEPT ![j] = r] /\ ~Queued(j) /\ UNCHANGED itemCount /\ Refresh
      BY <1>1, <1>9 DEF ResolveWithoutWorker, Job, JobStates, Final, Queued
    <2>2. dispatches[d].state \in OpenStates
      BY <1>9 DEF StoreInv, IInv, UnfinishedOwned, ResolveWithoutWorker, OpenDispatches, Unfinished
    <2>3. NoNewDispatch
      BY <1>1, <1>9, <2>2, SetNoNew DEF ResolveWithoutWorker
    <2> HIDE DEF r
    <2> QED BY <1>3, <2>1, <2>3
  <1>10. ASSUME NEW j \in Jobs, NEW c \in Jobs,
                WorkerTerminalResolved(j, c) \/ \E d \in DOMAIN dispatches : WorkerDeliveryAccepted(j, c, d)
         PROVE  StoreInv'
    BY <1>2, <1>10, SameDispatches DEF WorkerTerminalResolved, WorkerDeliveryAccepted
  <1>11. ASSUME NEW j \in Jobs, ClaimExecutionFinishedJob(j) \/ ResetInterruptedResultProcessing(j)
         PROVE  StoreInv'
    <2> DEFINE r(p) == [job[j] EXCEPT !.processing = p]
    <2>1. PICK p \in {"PENDING", "PROCESSING"} : job' = [job EXCEPT ![j] = r(p)]
      BY <1>11 DEF ClaimExecutionFinishedJob, ResetInterruptedResultProcessing
    <2>2. /\ job[j].state = "EXECUTION_FINISHED" /\ ~Queued(j)
          /\ UNCHANGED <<itemCount, dispatches>> /\ Refresh
      BY <1>11 DEF ClaimExecutionFinishedJob, ResetInterruptedResultProcessing, Processing, Queued
    <2>3. r(p) \in Job /\ r(p).state = "EXECUTION_FINISHED" /\ r(p).workset = job[j].workset
      BY <1>1, <2>2 DEF Job
    <2> HIDE DEF r
    <2> QED BY <1>3, <2>1, <2>2, <2>3, SameDispatches
  <1>12. ASSUME NEW j \in Jobs, NEW s \in DecidedStates, NEW T, CommitResultFinalization(j, s, T)
         PROVE  StoreInv'
    <2> DEFINE r == Processed(job[j], s)
    <2>1. /\ r \in Job /\ r.state # "QUEUED" /\ r.workset = job[j].workset
      BY <1>1 DEF Processed, Job, JobStates, Final
    <2>2. /\ job' = [job EXCEPT ![j] = r] /\ ~Queued(j) /\ UNCHANGED <<itemCount, dispatches>> /\ Refresh
      BY <1>12 DEF CommitResultFinalization, Processing, Queued
    <2> HIDE DEF r
    <2> QED BY <1>3, <2>1, <2>2, SameDispatches
  <1>13. ASSUME NEW j \in Jobs, NEW T, NEW inserted, RejectResultFinalization(j, T, inserted)
         PROVE  StoreInv'
    BY <1>2, <1>13, SameDispatches DEF RejectResultFinalization
  <1>14. ASSUME NEW j \in Jobs, RetryResultFinalization(j)
         PROVE  StoreInv'
    BY <1>1, <1>14, RetryWorksets, StoreKept
  <1>15. ASSUME NEW s \in Steps, NEW J \in SUBSET Jobs, ApplyWorksetJobReorganization(s, J)
         PROVE  StoreInv'
    BY <1>1, <1>15, ReorganizationWorksets, StoreKept
  <1>16. ASSUME NEW D \in SUBSET OpenDispatches, CloseDispatches(D)
         PROVE  StoreInv'
    BY <1>1, <1>16, CloseWorksets, StoreKept
  <1>17. CASE \E d \in DOMAIN dispatches : ReleaseWorksetDispatch(d)
    BY <1>16, <1>17 DEF ReleaseWorksetDispatch, OpenDispatches
  <1>18. CASE RecoverInterruptedWorksetDispatches
    BY <1>16, <1>18 DEF RecoverInterruptedWorksetDispatches
  <1>19. ASSUME NEW s \in Steps, NEW new \in StepStates, MoveStep(s, new)
         PROVE  StoreInv'
    BY <1>2, <1>19, SameDispatches DEF MoveStep
  <1> QED BY <1>4, <1>5, <1>6, <1>7, <1>8, <1>9, <1>10, <1>11, <1>12, <1>13, <1>14, <1>15, <1>17,
             <1>18, <1>19, StepTransactions DEF Next

(* At the start every job is queued in a workset of its own count. *)
LEMMA StoreInit ==
    ASSUME Init
    PROVE  StoreInv
  <1> PICK f \in [Jobs -> 1 .. FirstWorksets] :
        /\ \A i, j \in Jobs : f[i] = f[j] => StepOf[i] = StepOf[j]
        /\ job = [j \in Jobs |->
                    [state |-> "QUEUED", attempts |-> 0, max |-> MaxAttempts, workset |-> f[j],
                     dispatch |-> 0, token |-> 0, reserved |-> 0,
                     processing |-> "NULL", blob |-> "NULL"]]
        /\ itemCount = [w \in 1 .. FirstWorksets |-> Cardinality({j \in Jobs : f[j] = w})]
    BY DEF Init
  <1>1. IInv
    BY InitStep
  <1>2. dispatches = <<>> /\ available = [ready |-> Jobs # {}, results |-> FALSE]
    BY DEF Init
  <1>3. DOMAIN itemCount = 1 .. FirstWorksets /\ OpenDispatches = {}
    BY <1>2 DEF OpenDispatches
  <1>4. \A j \in Jobs : /\ job[j].state = "QUEUED" /\ job[j].workset = f[j]
                        /\ job[j].attempts < job[j].max
    OBVIOUS
  <1>5. ASSUME NEW j \in Jobs PROVE Offerable(job[j].workset)
    <2> DEFINE J == {i \in Jobs : f[i] = f[j]}
    <2>1. itemCount[f[j]] = Cardinality(J) /\ JobsOf(f[j]) = J
      BY <1>3, <1>4 DEF JobsOf
    <2>2. j \in J /\ J \in SUBSET Jobs
      OBVIOUS
    <2> HIDE DEF J
    <2>3. Cardinality(J) > 0
      <3>1. IsFiniteSet(J) /\ Cardinality(J) \in Nat
        BY <2>2, CountJobs, FS_Subset
      <3> QED BY <2>2, <3>1, FS_EmptySet
    <2>4. ~HasOpenDispatch(f[j])
      BY <1>3 DEF HasOpenDispatch
    <2>5. \A i \in JobsOf(f[j]) : i \in Jobs
      BY DEF JobsOf
    <2> QED BY <1>4, <2>1, <2>3, <2>4, <2>5 DEF Offerable
  <1>6. WorksetsOK
    BY <1>2, <1>3, <1>4, <1>5 DEF WorksetsOK, QueuedOfferable, OneStep
  <1>7. FlagsOK
    BY <1>2, <1>4 DEF FlagsOK, Queued, PendingResultExists
  <1> QED BY <1>1, <1>6, <1>7 DEF StoreInv

(* The worksets and the row stay right. *)
LEMMA StoreInvariance == Spec => []StoreInv
  BY StoreInit, StoreNext, PTL DEF Spec

(* A queued job of a live step never becomes unclaimable, whatever moved it: *)
(* its workset counts exactly the queued jobs in it, all have budget left and *)
(* are of its step, and no open dispatch is in the way of the claim query.    *)
THEOREM QueuedStaysClaimable == Spec => []QueuedClaimable
  <1>1. ASSUME StoreInv PROVE QueuedClaimable
    <2> SUFFICES ASSUME NEW j \in Jobs, job[j].state = "QUEUED", Live(StepOf[j])
                 PROVE  Claimable(job[j].workset)
      BY DEF QueuedClaimable
    <2>1. Offerable(job[j].workset)
      BY <1>1 DEF StoreInv, WorksetsOK, QueuedOfferable
    <2>2. \A i \in JobsOf(job[j].workset) : StepOf[i] = StepOf[j]
      BY <1>1 DEF StoreInv, WorksetsOK, OneStep, JobsOf
    <2> QED BY <2>1, <2>2 DEF Claimable
  <1> QED BY <1>1, StoreInvariance, PTL

(* The row the coordinator and the result processor sleep on hides no work   *)
(* after any transaction, also after those that do not refresh it, and is up *)
(* for nothing only while a step that is not live has queued jobs.           *)
THEOREM AvailabilityHidesNothing == Spec => []AvailabilityCovers
  <1>1. ASSUME StoreInv PROVE AvailabilityCovers
    <2>1. TypeOK /\ WorksetsOK /\ FlagsOK
      BY <1>1 DEF StoreInv, IInv
    <2>2. ASSUME NEW w \in DOMAIN itemCount, Claimable(w) PROVE available.ready
      BY <2>1, <2>2, OfferableHasQueued DEF FlagsOK, Claimable
    <2>3. QueuedClaimable
      <3> SUFFICES ASSUME NEW j \in Jobs, job[j].state = "QUEUED", Live(StepOf[j])
                   PROVE  Claimable(job[j].workset)
        BY DEF QueuedClaimable
      <3> QED BY <2>1 DEF WorksetsOK, QueuedOfferable, OneStep, JobsOf, Claimable
    <2>4. ASSUME available.ready, \A j \in Jobs : job[j].state = "QUEUED" => Live(StepOf[j])
          PROVE  \E w \in DOMAIN itemCount : Claimable(w)
      BY <2>1, <2>3, <2>4 DEF FlagsOK, WorksetsOK, QueuedClaimable, Queued
    <2> QED BY <2>1, <2>2, <2>4 DEF FlagsOK, AvailabilityCovers
  <1> QED BY <1>1, StoreInvariance, PTL

=============================================================================
