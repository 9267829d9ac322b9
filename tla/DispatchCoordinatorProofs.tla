----------------------- MODULE DispatchCoordinatorProofs -----------------------
(***************************************************************************)
(* Proofs about DispatchCoordinator, for any number of jobs, dispatches,    *)
(* worker processes and any capacities.                                     *)
(***************************************************************************)
EXTENDS DispatchCoordinator, LeastElement, TLAPS

-----------------------------------------------------------------------------
(* Types *)

JobStates == {"QUEUED", "CLAIMED", "RUNNING", "FINISHED", "CANCELED", "INTERRUPTED"}
AttemptStates == {"none", "CLAIMED", "ACTIVE", "DRAINING", "CLOSED"}
ItemStates == {"none", "waiting", "running", "ended", "acked", "suppressed"}
EventRecord ==
    [type : {"Started", "Terminal", "Completed", "Summary", "Unavailable"}, gen : Generations,
     dispatch : {0} \cup Ids, job : {0} \cup Items, unstarted : BOOLEAN]
StreamRecord ==
    [events : Seq(EventRecord), buffered : Seq(EventRecord), io : {"none", "wait"} \cup Outcomes]

StoreTypeOK ==
    /\ job \in [Items -> [state : JobStates, dispatch : {0} \cup Ids]]
    /\ attempt \in [Ids -> AttemptStates]
    /\ request \in [Items -> {"NONE", "ACTIVE", "RESOLVED"}]

ActorTypeOK ==
    /\ Registered \subseteq Ids
    /\ \A d \in Registered : dispatches[d] \in DispatchRecord
    /\ claim \in [at : {"none", "queued", "done"}, items : SUBSET Items, before : SUBSET (Ids \X Kinds)]
    /\ lane \in [gen : {0} \cup Generations, submitting : {0} \cup Ids, active : {0} \cup Ids,
                  state : {"none", "Ready", "Submitting", "Active", "Draining"}]
    /\ stage \in {"Running", "Quiescing", "WorkersStopped", "Recovering", "Recovered"}

QueuesTypeOK ==
    /\ controls \subseteq [kind : {"ack", "cancel"}, dispatch : Ids, job : Items,
                           at : {"queued", "done"}]
    /\ \A c \in controls : c.at = "done" => c.kind = "ack"
    /\ stream \in [Ids -> StreamRecord]
    /\ mutations \subseteq [kind : {"sidecar", "resolved"}, job : Items, dispatch : {0} \cup Ids,
                            at : {"queued"} \cup Outcomes]

WorkerTypeOK ==
    /\ worker \in [gen : Generations, up : BOOLEAN, retire : BOOLEAN, dispatch : {0} \cup Ids,
                   items : [Items -> ItemStates], done : BOOLEAN]
    /\ wire \in Seq(EventRecord)

(* The types of the variables. *)
CoordinatorTypeOK == StoreTypeOK /\ ActorTypeOK /\ QueuesTypeOK /\ WorkerTypeOK

(* The pieces of the handlers return dispatch records. *)
LEMMA ReleaseTyped ==
    ASSUME NEW r \in DispatchRecord, NEW keep \in BOOLEAN
    PROVE  ReleaseDispatch(r, keep) \in DispatchRecord
<1> DEFINE c == IF r.contain = "none" THEN [r EXCEPT !.contain = "release", !.keep = keep] ELSE r
           both == c.keep /\ r.released
           begun == Begin("Release")
<1>0. [r EXCEPT !.contain = "release", !.keep = keep] \in DispatchRecord
  BY DEF DispatchRecord
<1>1. c \in DispatchRecord
  BY <1>0
<1>2. begun \in Effect
  BY DEF Effect, Begin, Kinds
<1>4. both \in BOOLEAN
  OBVIOUS
<1> HIDE DEF c, both, begun
<1>5. [c EXCEPT !.contain = "await"] \in DispatchRecord
  BY <1>1 DEF DispatchRecord
<1>6. [c EXCEPT !.effect = begun, !.kept = both] \in DispatchRecord
  BY <1>1, <1>2, <1>4 DEF DispatchRecord
<1> QED BY <1>1, <1>5, <1>6 DEF ReleaseDispatch, c, both, begun

(* The containment of a dispatch leaves it a dispatch record.                *)
LEMMA ContainmentTyped ==
    ASSUME NEW r \in DispatchRecord
    PROVE  ContinueContainment(r) \in DispatchRecord
<1>1. r.keep \in BOOLEAN
  BY DEF DispatchRecord
<1>2. [r EXCEPT !.contain = "await"] \in DispatchRecord
  BY DEF DispatchRecord
<1> QED BY <1>1, <1>2, ReleaseTyped DEF ContinueContainment

(* So does the mark that it drains,                                          *)
LEMMA DrainingTyped ==
    ASSUME NEW r \in DispatchRecord
    PROVE  MarkDispatchDraining(r) \in DispatchRecord
<1>1. Begin("MarkDraining") \in Effect
  BY DEF Effect, Begin, Kinds
<1>2. [r EXCEPT !.effect = Begin("MarkDraining")] \in DispatchRecord
  BY <1>1 DEF DispatchRecord
<1> QED BY <1>2 DEF MarkDispatchDraining

(* and so does the loss of its worker.                                       *)
LEMMA LostTyped ==
    ASSUME NEW r \in DispatchRecord
    PROVE  Lost(r) \in DispatchRecord
<1> DEFINE owned == r.own # "Coordinator"
           e == IF r.effect.kind \in {"Submission", "Residence"} THEN NoEffect ELSE r.effect
           k == IF r.contain = "none" THEN owned ELSE r.keep
           left == r.released \/ owned
           lost == [r EXCEPT !.effect = e, !.released = left, !.own = "Coordinator",
                             !.life = "Faulted", !.keep = k, !.contain = "release"]
<1>1. owned \in BOOLEAN
  OBVIOUS
<1>2. k \in BOOLEAN
  BY <1>1 DEF DispatchRecord
<1>3. e \in Effect
  BY DEF DispatchRecord, Effect
<1>4. left \in BOOLEAN
  OBVIOUS
<1>6. Lost(r) = IF Quiescing THEN lost ELSE ReleaseDispatch(lost, owned)
  BY DEF Lost
<1> HIDE DEF owned, e, k, left
<1>5. lost \in DispatchRecord
  BY <1>2, <1>3, <1>4 DEF DispatchRecord
<1> HIDE DEF lost
<1> QED BY <1>1, <1>5, <1>6, ReleaseTyped

-----------------------------------------------------------------------------
(* What the pieces of the handlers leave alone *)

(* The fields most handlers leave alone. *)
Kept(r, s) ==
    /\ s.items = r.items /\ s.gen = r.gen /\ s.suppressed = r.suppressed
    /\ s.staged = r.staged /\ s.acked = r.acked /\ s.persisted = r.persisted
    /\ s.drained = r.drained /\ s.pending = r.pending

(* The effect stays, or the release begins. *)
MayRelease(r, s) ==
    \/ s.effect = r.effect
    \/ r.own = "Coordinator" /\ Waits(r.effect, "Release") /\ s.effect = Begin("Release")

(* A release keeps what a record says of jobs and process, and may begin the *)
(* Release effect.                                                           *)
LEMMA ReleaseKeeps ==
    ASSUME NEW r \in DispatchRecord, NEW keep \in BOOLEAN,
           NEW s, s = ReleaseDispatch(r, keep)
    PROVE  Kept(r, s) /\ s.own = r.own /\ s.life = r.life /\ MayRelease(r, s)
<1> DEFINE c == IF r.contain = "none" THEN [r EXCEPT !.contain = "release", !.keep = keep] ELSE r
           both == c.keep /\ r.released
           begun == Begin("Release")
<1>0. [r EXCEPT !.contain = "release", !.keep = keep] \in DispatchRecord
  BY DEF DispatchRecord
<1>1. /\ c \in DispatchRecord
      /\ Kept(r, c) /\ c.own = r.own /\ c.life = r.life /\ c.effect = r.effect
  BY <1>0 DEF DispatchRecord, Kept
<1> HIDE DEF c, both, begun
<1>2. Kept(c, [c EXCEPT !.contain = "await"])
      /\ [c EXCEPT !.contain = "await"].own = c.own
      /\ [c EXCEPT !.contain = "await"].life = c.life
      /\ [c EXCEPT !.contain = "await"].effect = c.effect
  BY <1>1 DEF DispatchRecord, Kept
<1>3. Kept(c, [c EXCEPT !.effect = begun, !.kept = both])
      /\ [c EXCEPT !.effect = begun, !.kept = both].own = c.own
      /\ [c EXCEPT !.effect = begun, !.kept = both].life = c.life
      /\ [c EXCEPT !.effect = begun, !.kept = both].effect = begun
  BY <1>1 DEF DispatchRecord, Kept
<1>4. r.own \in {"Coordinator", "MayOwn", "Worker", "Closed"}
  BY DEF DispatchRecord
<1>5. CASE r.own = "Closed"
  BY <1>5 DEF ReleaseDispatch, Kept, MayRelease
<1>6. CASE r.own \in {"MayOwn", "Worker"}
  <2>1. s = [c EXCEPT !.contain = "await"]
    BY <1>6 DEF ReleaseDispatch, c
  <2> QED BY <2>1, <1>1, <1>2 DEF Kept, MayRelease
<1>7. CASE r.own = "Coordinator" /\ ~Waits(r.effect, "Release")
  <2>1. s = c
    BY <1>7 DEF ReleaseDispatch, c
  <2> QED BY <2>1, <1>1 DEF Kept, MayRelease
<1>8. CASE r.own = "Coordinator" /\ Waits(r.effect, "Release")
  <2>1. s = [c EXCEPT !.effect = begun, !.kept = both]
    BY <1>8 DEF ReleaseDispatch, c, begun, both
  <2> QED BY <2>1, <1>1, <1>3, <1>8 DEF Kept, MayRelease, begun
<1> QED BY <1>4, <1>5, <1>6, <1>7, <1>8

(* A containment keeps the same, and may begin the Release effect.           *)
LEMMA ContainmentKeeps ==
    ASSUME NEW r \in DispatchRecord, NEW s, s = ContinueContainment(r)
    PROVE  Kept(r, s) /\ s.own = r.own /\ s.life = r.life /\ MayRelease(r, s)
<1>1. r.keep \in BOOLEAN
  BY DEF DispatchRecord
<1> DEFINE a == [r EXCEPT !.contain = "await"]
<1>2. Kept(r, a) /\ a.own = r.own /\ a.life = r.life /\ a.effect = r.effect
  BY DEF DispatchRecord, Kept
<1> HIDE DEF a
<1>3. s = r \/ s = a \/ s = ReleaseDispatch(r, r.keep)
  BY DEF ContinueContainment, a
<1>4. CASE s = r
  BY <1>4 DEF Kept, MayRelease
<1>5. CASE s = a
  BY <1>5, <1>2 DEF Kept, MayRelease
<1>6. CASE s = ReleaseDispatch(r, r.keep)
  BY <1>6, <1>1, ReleaseKeeps
<1> QED BY <1>3, <1>4, <1>5, <1>6

(* The draining mark keeps the same; it begins an effect only for a worker's *)
(* dispatch that waits for none.                                             *)
LEMMA DrainingKeeps ==
    ASSUME NEW r \in DispatchRecord, NEW s, s = MarkDispatchDraining(r)
    PROVE  /\ Kept(r, s) /\ s.own = r.own /\ s.life = r.life
           /\ \/ s.effect = r.effect
              \/ /\ r.own = "Worker" /\ Waits(r.effect, "MarkDraining")
                 /\ s.effect = Begin("MarkDraining")
<1> DEFINE begun == Begin("MarkDraining")
           a == [r EXCEPT !.effect = begun]
<1> HIDE DEF begun
<1>1. Kept(r, a) /\ a.own = r.own /\ a.life = r.life /\ a.effect = begun
  BY DEF DispatchRecord, Kept
<1> HIDE DEF a
<1>2. s = r \/ (s = a /\ r.own = "Worker" /\ Waits(r.effect, "MarkDraining"))
  BY DEF MarkDispatchDraining, a, begun
<1>3. CASE s = r
  BY <1>3 DEF Kept
<1> QED BY <1>1, <1>2, <1>3 DEF begun

(* A lost dispatch is the coordinator's again, and faulted. *)
LEMMA LostKeeps ==
    ASSUME NEW r \in DispatchRecord, NEW s, s = Lost(r)
    PROVE  /\ Kept(r, s) /\ s.own = "Coordinator" /\ s.life = "Faulted"
           /\ LET e == IF r.effect.kind \in {"Submission", "Residence"} THEN NoEffect ELSE r.effect
              IN s.effect = e \/ (Waits(e, "Release") /\ s.effect = Begin("Release"))
<1> DEFINE owned == r.own # "Coordinator"
           e == IF r.effect.kind \in {"Submission", "Residence"} THEN NoEffect ELSE r.effect
           k == IF r.contain = "none" THEN owned ELSE r.keep
           left == r.released \/ owned
           lost == [r EXCEPT !.effect = e, !.released = left, !.own = "Coordinator",
                             !.life = "Faulted", !.keep = k, !.contain = "release"]
<1>1. owned \in BOOLEAN
  OBVIOUS
<1>2. k \in BOOLEAN
  BY <1>1 DEF DispatchRecord
<1>3. e \in Effect
  BY DEF DispatchRecord, Effect
<1>4. left \in BOOLEAN
  OBVIOUS
<1>6. Lost(r) = IF Quiescing THEN lost ELSE ReleaseDispatch(lost, owned)
  BY DEF Lost
<1> HIDE DEF owned, e, k, left
<1>5. lost \in DispatchRecord
  BY <1>2, <1>3, <1>4 DEF DispatchRecord
<1>7. Kept(r, lost) /\ lost.own = "Coordinator" /\ lost.life = "Faulted" /\ lost.effect = e
  BY DEF DispatchRecord, Kept
<1> HIDE DEF lost
<1>8. CASE s = lost
  BY <1>7, <1>8 DEF e
<1>9. CASE s = ReleaseDispatch(lost, owned)
  <2>1. Kept(lost, s) /\ s.own = lost.own /\ s.life = lost.life /\ MayRelease(lost, s)
    BY <1>1, <1>5, <1>9, ReleaseKeeps
  <2>2. Kept(r, s)
    BY <2>1, <1>7 DEF Kept
  <2> QED BY <2>1, <2>2, <1>7 DEF MayRelease, e
<1> QED BY <1>6, <1>8, <1>9

(* An update changes the one record and no other.                            *)
LEMMA UpdateGives ==
    ASSUME NEW d \in Registered, NEW s, Update(d, s)
    PROVE  /\ Registered' = Registered /\ dispatches'[d] = s
           /\ \A e \in Registered : e # d => dispatches'[e] = dispatches[e]
BY DEF Update, Registered

(* A removal forgets the one record and changes no other.                    *)
LEMMA RemoveGives ==
    ASSUME NEW d, RemoveDispatch(d)
    PROVE  /\ Registered' = Registered \ {d}
           /\ \A e \in Registered : e # d => dispatches'[e] = dispatches[e]
BY DEF RemoveDispatch, Registered, Restrict

-----------------------------------------------------------------------------
(* The inductive invariant behind the custody of the jobs *)

(* A worker may have the dispatch: it owns it, or a submission was delivered *)
(* or ended without an answer.                                               *)
Given(r) ==
    \/ r.own \in {"MayOwn", "Worker"}
    \/ r.effect.kind = "Submission" /\ r.effect.at \in {"written", "unknown"}

(* The dispatch has not left the coordinator: it is being reconstructed, is  *)
(* prepared, or its submission has not been or was not delivered.            *)
Offered(r) ==
    \/ r.effect = Begin("Reconstruction")
    \/ r.effect.kind = "Submission" /\ r.effect.at \in {"queued", "unwritten"}
Fresh(d) ==
    d \in Registered /\ (Offered(dispatches[d]) \/ (d \in prepared /\ dispatches[d].effect = NoEffect))

(* Nothing that a worker or a sidecar did can be about the dispatch. *)
ClaimedNow(d) == claim.at = "done" /\ \E j \in claim.items : job[j].dispatch = d
Untouched(d) == attempt[d] = "none" \/ ClaimedNow(d) \/ Fresh(d)

(* What the worker reported and nobody has consumed. *)
SentBy(d) == Range(stream[d].events) \cup Range(stream[d].buffered)
Sent == Range(wire) \cup UNION {SentBy(d) : d \in Ids}

(* A pending effect belongs to the owner of the dispatch; a dispatch without *)
(* its lost worker is faulted, so that its activation is not applied.        *)
EffectOwned(r) ==
    /\ r.effect.kind \in {"Reconstruction", "Submission", "Release"} => r.own = "Coordinator"
    /\ r.effect.kind = "Residence" => r.own = "MayOwn"
    /\ r.effect.kind = "Activation" =>
         r.own = "MayOwn" \/ (r.own = "Coordinator" /\ r.life = "Faulted")
    /\ r.effect.kind = "MarkDraining" => r.own \in {"Coordinator", "Worker"}
PreparedRests(r) == r.own = "Coordinator" /\ (r.effect = NoEffect \/ r.effect.kind = "Release")
RecordsOK ==
    \A d \in Registered :
        /\ EffectOwned(dispatches[d])
        /\ d \in prepared => PreparedRests(dispatches[d])

(* A process that is gone, or whose loss is on its way to the actor, holds   *)
(* nothing; after the workers have stopped no claim brings new work.         *)
WorkerOK ==
    /\ ~worker.up => worker.dispatch = 0
    /\ worker.dispatch = 0 => worker.items = NoItem /\ ~worker.done
    /\ \A e \in Range(wire) : e.type = "Unavailable" => ~worker.up
    /\ stage \in {"WorkersStopped", "Recovering", "Recovered"} => ~worker.up
    /\ stage \in {"Recovering", "Recovered"} => claim.at = "none"

(* What a worker executes is in a dispatch the coordinator knows, counts as  *)
(* the worker's and holds.                                                   *)
ExecutedKnown ==
    \A j \in Items : Executed(j) =>
        LET d == worker.dispatch IN
        /\ d \in Registered
        /\ Given(dispatches[d]) /\ dispatches[d].gen = worker.gen
        /\ j \in dispatches[d].items \ dispatches[d].suppressed
        /\ job[j].dispatch = d /\ job[j].state \in {"CLAIMED", "RUNNING"}

(* An attempt that was never made has no job; only a queued job has no       *)
(* dispatch.  A claim that is queued has an attempt to make, and one that    *)
(* has ended made it.                                                        *)
JobsOK ==
    /\ \A d \in Ids : attempt[d] = "none" =>
         d \notin Registered \cup prepared /\ \A j \in Items : job[j].dispatch # d
    /\ \A j \in Items : job[j].state = "QUEUED" <=> job[j].dispatch = 0

Taken(j, d) == job[j] = [state |-> "CLAIMED", dispatch |-> d]
ClaimOK ==
    /\ claim.at = "queued" => \E d \in Ids : attempt[d] = "none"
    /\ claim.at = "done" =>
         /\ claim.items # {}
         /\ \E d \in Ids : /\ d \notin Registered \cup prepared
                           /\ attempt[d] = "CLAIMED"
                           /\ \A j \in claim.items : Taken(j, d)
FreshOK ==
    \A d \in Registered : Fresh(d) =>
        attempt[d] = "CLAIMED" /\ \A j \in dispatches[d].items : Taken(j, d)

UnseenOK ==
    \A d \in Ids : Untouched(d) =>
        /\ worker.dispatch # d
        /\ \A e \in Sent : e.dispatch # d
        /\ stream[d].events = <<>>
        /\ \A m \in mutations : m.kind = "sidecar" => m.dispatch # d

(* A report is of a process up to the present one; the present one does not  *)
(* execute what it reported ended, and what it reported is still with the    *)
(* dispatch it had it from.                                                  *)
ReportOK(e) ==
    /\ e.gen <= worker.gen
    /\ e.type \in {"Started", "Terminal", "Summary"} => e.dispatch \in Ids
    /\ e.type \in {"Started", "Terminal"} => e.job \in Items
    /\ e.type = "Terminal" /\ e.gen = worker.gen => ~Executed(e.job)
    /\ e.type \in {"Started", "Terminal"} /\ e.gen = worker.gen /\ worker.up =>
         /\ job[e.job].dispatch = e.dispatch
         /\ e.dispatch \in Registered => Given(dispatches[e.dispatch])
ReportsOK == \A e \in Sent : ReportOK(e)

(* The store call of a stream is for its first event, which came from the    *)
(* process the dispatch is bound to.                                         *)
FinishedBy(j, d) == job[j] = [state |-> "FINISHED", dispatch |-> d]
Persisting(d) ==
    /\ HasEvidence(d, {"Started", "Terminal"})
    /\ d \in Registered => dispatches[d].gen = EvidenceOf(d).gen
    /\ stream[d].io = "applied" /\ EvidenceOf(d).type = "Terminal" => FinishedBy(EvidenceOf(d).job, d)
PersistOK == \A d \in Ids : stream[d].io # "none" => Persisting(d)

(* What is staged or acknowledged is durable. *)
AcksOK ==
    /\ \A d \in Registered : \A j \in dispatches[d].staged \cup dispatches[d].acked : FinishedBy(j, d)
    /\ \A c \in controls : c.kind = "ack" => FinishedBy(c.job, c.dispatch)

(* What a sidecar cancels, no worker executes for the dispatch. *)
SidecarsOK ==
    \A m \in mutations : m.kind = "sidecar" =>
        m.dispatch \in Ids /\ (worker.dispatch = m.dispatch => ~Executed(m.job))

CustodyInv ==
    /\ CoordinatorTypeOK
    /\ RecordsOK /\ WorkerOK /\ ExecutedKnown
    /\ JobsOK /\ ClaimOK /\ FreshOK /\ UnseenOK
    /\ ReportsOK /\ PersistOK /\ AcksOK /\ SidecarsOK
    /\ AckedIsDurable

-----------------------------------------------------------------------------
(* What a step leaves as it was: most handlers do all of this *)

RecordKeeps(d) ==
    LET r == dispatches[d]
        s == dispatches'[d]
    IN /\ s.items = r.items
       /\ ~Fresh(d) => s.gen = r.gen /\ s.suppressed = r.suppressed
       /\ worker.up /\ Given(r) => Given(s)
       /\ EffectOwned(s)
       /\ d \in prepared' => PreparedRests(s)
       /\ \A j \in s.staged \cup s.acked : FinishedBy(j, d)
DispatchesKeep ==
    /\ Registered' \subseteq Registered /\ prepared' \subseteq prepared \cup Registered
    /\ \A d \in Registered' : RecordKeeps(d)
    /\ \A d \in Registered' : Fresh(d)' => Fresh(d)
    /\ \A j \in Items : Executed(j) => worker.dispatch \in Registered'

(* A job changes its state only for a dispatch that has left the coordinator *)
(* and is given back only when no worker has it.                             *)
JobKeeps(j) ==
    LET d == job[j].dispatch IN
    \/ job'[j] = job[j]
    \/ /\ ~Untouched(d) /\ job[j].state \notin {"QUEUED", "FINISHED"}
       /\ job'[j].dispatch \in {d, 0}
       /\ job'[j].state = "QUEUED" <=> job'[j].dispatch = 0
       /\ Executed(j) => job'[j].dispatch = d /\ job'[j].state \in {"CLAIMED", "RUNNING"}
       /\ job'[j].dispatch = 0 => ~worker.up \/ (d \in Registered /\ ~Given(dispatches[d]))
StoreKeeps ==
    /\ \A j \in Items : JobKeeps(j)
    /\ \A d \in Ids : attempt'[d] = "none" => attempt[d] = "none"
    /\ \A d \in Ids : Untouched(d) => attempt'[d] = attempt[d]
    /\ claim'.at = "queued" => \E d \in Ids : attempt[d] = "none"
    /\ claim'.at = "done" => claim' = claim

WorkerKeeps ==
    /\ worker'.gen = worker.gen
    /\ worker'.up => worker.up
    /\ worker'.dispatch \in {worker.dispatch, 0}
    /\ \A j \in Items : Executed(j)' => Executed(j) /\ worker'.dispatch = worker.dispatch
    /\ \A j \in Items : worker'.items[j] = "acked" => FinishedBy(j, worker'.dispatch)

StreamKeeps(d) ==
    /\ stream'[d].io = stream[d].io
    /\ stream'[d].events # <<>> /\ Head(stream'[d].events) = Head(stream[d].events)
QueuesKeep ==
    /\ \A e \in Sent' : e \in Sent \/ (ReportOK(e)' /\ (e.dispatch \in Ids => ~Untouched(e.dispatch)))
    /\ \A d \in Ids : Untouched(d) => stream'[d].events = <<>>
    /\ \A d \in Ids : stream'[d].io # "none" => StreamKeeps(d) \/ Persisting(d)'
    /\ \A c \in controls' : c.kind = "ack" => FinishedBy(c.job, c.dispatch)
    /\ \A m \in mutations' : m.kind = "sidecar" =>
         /\ m.dispatch \in Ids
         /\ ~Untouched(m.dispatch) \/ ~Untouched(m.dispatch)'
         /\ worker.dispatch = m.dispatch => ~Executed(m.job)

(* What is given to a worker has left the coordinator. *)
LEMMA GivenIsNotFresh ==
    ASSUME RecordsOK, NEW d \in Registered, Given(dispatches[d])
    PROVE  ~Fresh(d)
BY DEF RecordsOK, Given, Fresh, Offered, EffectOwned, PreparedRests, Begin, NoEffect

(* What is executed is executed by a live process. *)
LEMMA ExecutedIsUp ==
    ASSUME CoordinatorTypeOK, WorkerOK, NEW j \in Items, Executed(j)
    PROVE  worker.up /\ worker.dispatch \in Ids
<1>1. worker.items[j] # "none"
  BY DEF Executed
<1>2. worker.dispatch # 0
  BY <1>1 DEF WorkerOK, NoItem
<1>3. worker.dispatch \in {0} \cup Ids
  BY DEF CoordinatorTypeOK, WorkerTypeOK
<1> QED BY <1>2, <1>3 DEF WorkerOK

(* A finished job stays finished. *)
LEMMA FinishedStays ==
    ASSUME StoreKeeps
    PROVE  \A j \in Items : \A d :
             FinishedBy(j, d) => job'[j] = [state |-> "FINISHED", dispatch |-> d]
BY DEF StoreKeeps, JobKeeps, FinishedBy

(* A dispatch that has not left the coordinator had not left it one step     *)
(* earlier.                                                                  *)
LEMMA UntouchedBefore ==
    ASSUME CustodyInv, DispatchesKeep, StoreKeeps, NEW d \in Ids, Untouched(d)'
    PROVE  Untouched(d)
<1>1. CASE attempt'[d] = "none"
  BY <1>1 DEF StoreKeeps, Untouched
<1>2. CASE ClaimedNow(d)'
  <2>1. claim' = claim /\ claim.at = "done"
    BY <1>2 DEF ClaimedNow, StoreKeeps
  <2>2. PICK j \in claim.items : job'[j].dispatch = d
    BY <1>2, <2>1 DEF ClaimedNow
  <2>3. j \in Items
    BY <2>1, <2>2 DEF CustodyInv, CoordinatorTypeOK, ActorTypeOK
  <2>4. d # 0
    BY DEF Ids
  <2>5. job[j].dispatch = d
    BY <2>2, <2>3, <2>4 DEF StoreKeeps, JobKeeps
  <2> QED BY <2>1, <2>2, <2>5 DEF Untouched, ClaimedNow
<1>3. CASE Fresh(d)'
  <2>1. d \in Registered'
    BY <1>3 DEF Fresh
  <2> QED BY <1>3, <2>1 DEF DispatchesKeep, Untouched
<1> QED BY <1>1, <1>2, <1>3 DEF Untouched

(* What the worker executes stays with a dispatch the coordinator knows.     *)
LEMMA KeepExecuted ==
    ASSUME CustodyInv, DispatchesKeep, StoreKeeps, WorkerKeeps
    PROVE  ExecutedKnown'
<1> SUFFICES ASSUME NEW j \in Items, Executed(j)'
    PROVE  LET d == worker'.dispatch IN
           /\ d \in Registered'
           /\ Given(dispatches'[d]) /\ dispatches'[d].gen = worker'.gen
           /\ j \in dispatches'[d].items \ dispatches'[d].suppressed
           /\ job'[j].dispatch = d /\ job'[j].state \in {"CLAIMED", "RUNNING"}
  BY DEF ExecutedKnown
<1>1. Executed(j) /\ worker'.dispatch = worker.dispatch /\ worker'.gen = worker.gen
  BY DEF WorkerKeeps
<1> DEFINE d == worker.dispatch
<1>2. worker.up
  BY <1>1, ExecutedIsUp DEF CustodyInv
<1>3. /\ d \in Registered
      /\ Given(dispatches[d]) /\ dispatches[d].gen = worker.gen
      /\ j \in dispatches[d].items \ dispatches[d].suppressed
      /\ job[j].dispatch = d /\ job[j].state \in {"CLAIMED", "RUNNING"}
  BY <1>1 DEF CustodyInv, ExecutedKnown
<1>4. d \in Registered'
  BY <1>1 DEF DispatchesKeep
<1>5. ~Fresh(d)
  BY <1>3, GivenIsNotFresh DEF CustodyInv
<1>6. RecordKeeps(d)
  BY <1>4 DEF DispatchesKeep
<1>7. /\ Given(dispatches'[d]) /\ dispatches'[d].gen = worker'.gen
      /\ j \in dispatches'[d].items \ dispatches'[d].suppressed
  BY <1>1, <1>2, <1>3, <1>5, <1>6 DEF RecordKeeps
<1>8. job'[j].dispatch = d /\ job'[j].state \in {"CLAIMED", "RUNNING"}
  BY <1>1, <1>3 DEF StoreKeeps, JobKeeps
<1> QED BY <1>1, <1>4, <1>7, <1>8

(* The records, the jobs' states, the claim and the attempts stay            *)
(* consistent.                                                               *)
LEMMA KeepJobs ==
    ASSUME CustodyInv, CoordinatorTypeOK', DispatchesKeep, StoreKeeps
    PROVE  RecordsOK' /\ JobsOK' /\ ClaimOK' /\ FreshOK'
<1>1. RecordsOK'
  BY DEF DispatchesKeep, RecordKeeps, RecordsOK
<1>2. ASSUME NEW d \in Ids, attempt'[d] = "none"
      PROVE  d \notin Registered' \cup prepared' /\ \A j \in Items : job'[j].dispatch # d
  <2>1. d \notin Registered \cup prepared /\ \A j \in Items : job[j].dispatch # d
    BY <1>2 DEF StoreKeeps, CustodyInv, JobsOK
  <2>2. d # 0
    BY DEF Ids
  <2> QED BY <2>1, <2>2 DEF StoreKeeps, JobKeeps, DispatchesKeep
<1>3. ASSUME NEW j \in Items
      PROVE  job'[j].state = "QUEUED" <=> job'[j].dispatch = 0
  BY DEF StoreKeeps, JobKeeps, CustodyInv, JobsOK
<1>4. JobsOK'
  BY <1>2, <1>3 DEF JobsOK
<1>5. ASSUME NEW j \in Items, NEW d \in Ids, Taken(j, d), Untouched(d)
      PROVE  Taken(j, d)'
  BY <1>5 DEF Taken, StoreKeeps, JobKeeps
<1>6. ASSUME claim'.at = "done"
      PROVE  /\ claim'.items # {}
             /\ \E d \in Ids : /\ d \notin Registered' \cup prepared'
                               /\ attempt'[d] = "CLAIMED"
                               /\ \A j \in claim'.items : Taken(j, d)'
  <2>1. claim' = claim /\ claim.at = "done" /\ claim.items \subseteq Items
    BY <1>6 DEF StoreKeeps, CustodyInv, CoordinatorTypeOK, ActorTypeOK
  <2>2. claim.items # {}
    BY <2>1 DEF CustodyInv, ClaimOK
  <2>3. PICK d \in Ids : /\ d \notin Registered \cup prepared
                         /\ attempt[d] = "CLAIMED"
                         /\ \A j \in claim.items : Taken(j, d)
    BY <2>1 DEF CustodyInv, ClaimOK
  <2>4. Untouched(d)
    BY <2>1, <2>2, <2>3 DEF Untouched, ClaimedNow, Taken
  <2>5. \A j \in claim.items : Taken(j, d)'
    BY <1>5, <2>1, <2>3, <2>4
  <2>6. d \notin Registered' \cup prepared' /\ attempt'[d] = "CLAIMED"
    BY <2>3, <2>4 DEF DispatchesKeep, StoreKeeps
  <2> QED BY <2>1, <2>2, <2>5, <2>6
<1>61. claim'.at = "queued" => \E d \in Ids : attempt'[d] = "none"
  BY DEF StoreKeeps, Untouched
<1>7. ClaimOK'
  BY <1>6, <1>61 DEF ClaimOK
<1>8. ASSUME NEW d \in Registered', Fresh(d)'
      PROVE  attempt'[d] = "CLAIMED" /\ \A j \in dispatches'[d].items : Taken(j, d)'
  <2>1. Fresh(d) /\ d \in Registered /\ dispatches'[d].items = dispatches[d].items
    BY <1>8 DEF DispatchesKeep, RecordKeeps
  <2>2. d \in Ids /\ dispatches[d].items \subseteq Items
    BY <2>1 DEF CustodyInv, CoordinatorTypeOK, ActorTypeOK, DispatchRecord
  <2>3. attempt[d] = "CLAIMED" /\ \A j \in dispatches[d].items : Taken(j, d)
    BY <2>1 DEF CustodyInv, FreshOK
  <2>4. Untouched(d)
    BY <2>1 DEF Untouched
  <2>5. attempt'[d] = "CLAIMED"
    BY <2>2, <2>3, <2>4 DEF StoreKeeps
  <2> QED BY <1>5, <2>1, <2>2, <2>3, <2>4, <2>5
<1>9. FreshOK'
  BY <1>8 DEF FreshOK
<1> QED BY <1>1, <1>4, <1>7, <1>9

(* Nothing is known of a dispatch that has not left the coordinator.         *)
LEMMA KeepUnseen ==
    ASSUME CustodyInv, DispatchesKeep, StoreKeeps, WorkerKeeps, QueuesKeep
    PROVE  UnseenOK'
<1> SUFFICES ASSUME NEW d \in Ids, Untouched(d)'
    PROVE  /\ worker'.dispatch # d
           /\ \A e \in Sent' : e.dispatch # d
           /\ stream'[d].events = <<>>
           /\ \A m \in mutations' : m.kind = "sidecar" => m.dispatch # d
  BY DEF UnseenOK
<1>1. Untouched(d)
  BY UntouchedBefore
<1>2. /\ worker.dispatch # d
      /\ \A e \in Sent : e.dispatch # d
  BY <1>1 DEF CustodyInv, UnseenOK
<1>3. d # 0
  BY DEF Ids
<1>4. worker'.dispatch # d
  BY <1>2, <1>3 DEF WorkerKeeps
<1>5. \A e \in Sent' : e.dispatch # d
  BY <1>1, <1>2 DEF QueuesKeep
<1> QED BY <1>1, <1>4, <1>5 DEF QueuesKeep

(* The worker's reports stay true.                                           *)
LEMMA KeepReports ==
    ASSUME CustodyInv, DispatchesKeep, StoreKeeps, WorkerKeeps, QueuesKeep
    PROVE  ReportsOK'
<1> SUFFICES ASSUME NEW e \in Sent'
    PROVE  ReportOK(e)'
  BY DEF ReportsOK
<1>1. CASE e \notin Sent
  BY <1>1 DEF QueuesKeep
<1>2. CASE e \in Sent
  <2>1. ReportOK(e)
    BY <1>2 DEF CustodyInv, ReportsOK
  <2>2. worker'.gen = worker.gen
    BY DEF WorkerKeeps
  <2>3. ASSUME e.type = "Terminal", e.gen = worker'.gen
        PROVE  ~Executed(e.job)'
    BY <2>1, <2>2, <2>3 DEF ReportOK, WorkerKeeps
  <2>4. ASSUME e.type \in {"Started", "Terminal"}, e.gen = worker'.gen, worker'.up
        PROVE  /\ job'[e.job].dispatch = e.dispatch
               /\ e.dispatch \in Registered' => Given(dispatches'[e.dispatch])
    <3>1. worker.up /\ e.gen = worker.gen
      BY <2>2, <2>4 DEF WorkerKeeps
    <3>2. /\ job[e.job].dispatch = e.dispatch
          /\ e.dispatch \in Registered => Given(dispatches[e.dispatch])
          /\ e.job \in Items
      BY <2>1, <2>4, <3>1 DEF ReportOK
    <3>3. job'[e.job].dispatch = e.dispatch
      BY <3>1, <3>2 DEF StoreKeeps, JobKeeps
    <3> QED BY <3>1, <3>2, <3>3 DEF DispatchesKeep, RecordKeeps
  <2> QED BY <2>1, <2>2, <2>3, <2>4 DEF ReportOK
<1> QED BY <1>1, <1>2

(* The store call of a stream stays the one for its first event.             *)
LEMMA KeepPersisting ==
    ASSUME CustodyInv, CoordinatorTypeOK', DispatchesKeep, StoreKeeps, QueuesKeep
    PROVE  PersistOK'
<1> SUFFICES ASSUME NEW d \in Ids, stream'[d].io # "none"
    PROVE  Persisting(d)'
  BY DEF PersistOK
<1>1. CASE StreamKeeps(d)
  <2>1. Persisting(d) /\ EvidenceOf(d)' = EvidenceOf(d) /\ stream'[d].io = stream[d].io
    BY <1>1 DEF StreamKeeps, CustodyInv, PersistOK, EvidenceOf
  <2> DEFINE e == EvidenceOf(d)
  <2>2. HasEvidence(d, {"Started", "Terminal"})'
    BY <1>1, <2>1 DEF StreamKeeps, Persisting, HasEvidence
  <2>3. ~Untouched(d)
    BY <2>1 DEF Persisting, HasEvidence, CustodyInv, UnseenOK
  <2>4. d \in Registered' => dispatches'[d].gen = e.gen
    <3> SUFFICES ASSUME d \in Registered' PROVE dispatches'[d].gen = e.gen
      OBVIOUS
    <3>1. d \in Registered /\ RecordKeeps(d)
      BY DEF DispatchesKeep
    <3>2. ~Fresh(d)
      BY <2>3 DEF Untouched
    <3> QED BY <2>1, <3>1, <3>2 DEF Persisting, RecordKeeps
  <2>5. ASSUME stream[d].io = "applied", e.type = "Terminal"
        PROVE  FinishedBy(e.job, d)'
    <3>1. FinishedBy(e.job, d)
      BY <2>1, <2>5 DEF Persisting
    <3>2. e \in Sent
      <4>1. stream[d].events # <<>> /\ stream[d] \in StreamRecord
        BY <2>1 DEF Persisting, HasEvidence, CustodyInv, CoordinatorTypeOK, QueuesTypeOK
      <4>2. stream[d].events \in Seq(EventRecord)
        BY <4>1 DEF StreamRecord
      <4>3. 1 \in DOMAIN stream[d].events /\ e = stream[d].events[1]
        BY <4>1, <4>2 DEF EvidenceOf
      <4>4. e \in Range(stream[d].events)
        BY <4>3 DEF Range
      <4> QED BY <4>4 DEF Sent, SentBy
    <3>3. e.job \in Items
      BY <2>5, <3>2 DEF CustodyInv, ReportsOK, ReportOK
    <3> QED BY <2>1, <3>1, <3>3, FinishedStays DEF FinishedBy
  <2> QED BY <2>1, <2>2, <2>4, <2>5 DEF Persisting
<1>2. CASE ~StreamKeeps(d)
  BY <1>2 DEF QueuesKeep
<1> QED BY <1>1, <1>2

(* What is staged or acknowledged stays durable.                             *)
LEMMA KeepDurable ==
    ASSUME CoordinatorTypeOK', DispatchesKeep, StoreKeeps, QueuesKeep
    PROVE  AcksOK'
<1>1. ASSUME NEW d \in Registered', NEW j \in dispatches'[d].staged \cup dispatches'[d].acked
      PROVE  FinishedBy(j, d)'
  <2>1. dispatches'[d] \in DispatchRecord
    BY DEF CoordinatorTypeOK, ActorTypeOK
  <2>2. j \in Items
    BY <2>1 DEF DispatchRecord
  <2>3. FinishedBy(j, d)
    BY DEF DispatchesKeep, RecordKeeps
  <2> QED BY <2>2, <2>3, FinishedStays DEF FinishedBy
<1>2. ASSUME NEW c \in controls', c.kind = "ack"
      PROVE  FinishedBy(c.job, c.dispatch)'
  <2>1. c.job \in Items
    BY DEF CoordinatorTypeOK, QueuesTypeOK
  <2>2. FinishedBy(c.job, c.dispatch)
    BY <1>2 DEF QueuesKeep
  <2> QED BY <2>1, <2>2, FinishedStays DEF FinishedBy
<1> QED BY <1>1, <1>2 DEF AcksOK

(* No job that a sidecar cancels is executed, and an acknowledged job stays  *)
(* finished.                                                                 *)
LEMMA KeepAcked ==
    ASSUME CoordinatorTypeOK', StoreKeeps, WorkerKeeps, QueuesKeep
    PROVE  SidecarsOK' /\ AckedIsDurable'
<1>4. SidecarsOK'
  <2> SUFFICES ASSUME NEW m \in mutations', m.kind = "sidecar"
      PROVE  m.dispatch \in Ids /\ (worker'.dispatch = m.dispatch => ~Executed(m.job)')
    BY DEF SidecarsOK
  <2>1. m.job \in Items
    BY DEF CoordinatorTypeOK, QueuesTypeOK
  <2> QED BY <2>1 DEF QueuesKeep, WorkerKeeps
<1>5. AckedIsDurable'
  <2> SUFFICES ASSUME NEW j \in Items, worker'.items[j] = "acked"
      PROVE  job'[j] = [state |-> "FINISHED", dispatch |-> worker'.dispatch]
    BY DEF AckedIsDurable
  <2>1. FinishedBy(j, worker'.dispatch)
    BY DEF WorkerKeeps
  <2> QED BY <2>1, FinishedStays
<1> QED BY <1>4, <1>5

(* A step that keeps everything keeps the invariant. *)
LEMMA KeepCustody ==
    ASSUME CustodyInv, CoordinatorTypeOK', WorkerOK',
           DispatchesKeep, StoreKeeps, WorkerKeeps, QueuesKeep
    PROVE  CustodyInv'
BY KeepExecuted, KeepJobs, KeepUnseen, KeepReports, KeepPersisting, KeepDurable, KeepAcked DEF CustodyInv

-----------------------------------------------------------------------------
(* How a handler keeps the records *)

(* A handler that changes one record as the invariant allows keeps the       *)
(* records.                                                                  *)
LEMMA UpdateKeeps ==
    ASSUME CustodyInv, NEW d \in Registered, NEW s, Update(d, s),
           \A e \in prepared' : e = d \/ e \in prepared,
           RecordKeeps(d), Fresh(d)' => Fresh(d)
    PROVE  DispatchesKeep
<1>1. /\ Registered' = Registered /\ dispatches'[d] = s
      /\ \A e \in Registered : e # d => dispatches'[e] = dispatches[e]
  BY UpdateGives
<1>2. ASSUME NEW e \in Registered, e # d
      PROVE  RecordKeeps(e) /\ (Fresh(e)' => Fresh(e))
  <2>1. dispatches'[e] = dispatches[e]
    BY <1>1, <1>2
  <2>2. e \in prepared' => e \in prepared
    BY <1>2
  <2>3. EffectOwned(dispatches[e]) /\ (e \in prepared => PreparedRests(dispatches[e]))
    BY DEF CustodyInv, RecordsOK
  <2>4. \A j \in dispatches[e].staged \cup dispatches[e].acked : FinishedBy(j, e)
    BY DEF CustodyInv, AcksOK
  <2>5. Fresh(e)' => Fresh(e)
    BY <2>1, <2>2 DEF Fresh
  <2> QED BY <2>1, <2>2, <2>3, <2>4, <2>5 DEF RecordKeeps
<1>3. \A j \in Items : Executed(j) => worker.dispatch \in Registered'
  BY <1>1 DEF CustodyInv, ExecutedKnown
<1>4. \A e \in Registered' : RecordKeeps(e)
  BY <1>1, <1>2
<1>5. \A e \in Registered' : Fresh(e)' => Fresh(e)
  BY <1>1, <1>2
<1> QED BY <1>1, <1>3, <1>4, <1>5 DEF DispatchesKeep

(* A dispatch that no worker executes may be forgotten.                      *)
LEMMA RemoveKeeps ==
    ASSUME CustodyInv, NEW d \in Registered, RemoveDispatch(d), prepared' \subseteq prepared,
           \A j \in Items : Executed(j) => worker.dispatch # d
    PROVE  DispatchesKeep
<1>1. /\ Registered' = Registered \ {d}
      /\ \A e \in Registered : e # d => dispatches'[e] = dispatches[e]
  BY RemoveGives
<1>2. ASSUME NEW e \in Registered'
      PROVE  RecordKeeps(e) /\ (Fresh(e)' => Fresh(e))
  <2>1. e \in Registered /\ dispatches'[e] = dispatches[e]
    BY <1>1, <1>2
  <2>3. EffectOwned(dispatches[e]) /\ (e \in prepared => PreparedRests(dispatches[e]))
    BY <2>1 DEF CustodyInv, RecordsOK
  <2>4. \A j \in dispatches[e].staged \cup dispatches[e].acked : FinishedBy(j, e)
    BY <2>1 DEF CustodyInv, AcksOK
  <2>5. Fresh(e)' => Fresh(e)
    BY <2>1 DEF Fresh
  <2> QED BY <2>1, <2>3, <2>4, <2>5 DEF RecordKeeps
<1>3. \A j \in Items : Executed(j) => worker.dispatch \in Registered'
  BY <1>1 DEF CustodyInv, ExecutedKnown
<1> QED BY <1>1, <1>2, <1>3 DEF DispatchesKeep

(* A step that leaves the records alone keeps them.                          *)
LEMMA SameKeeps ==
    ASSUME CustodyInv, dispatches' = dispatches, prepared' \subseteq prepared
    PROVE  DispatchesKeep
<1>1. Registered' = Registered
  BY DEF Registered
<1>2. ASSUME NEW e \in Registered
      PROVE  RecordKeeps(e) /\ (Fresh(e)' => Fresh(e))
  <2>3. EffectOwned(dispatches[e]) /\ (e \in prepared => PreparedRests(dispatches[e]))
    BY DEF CustodyInv, RecordsOK
  <2>4. \A j \in dispatches[e].staged \cup dispatches[e].acked : FinishedBy(j, e)
    BY DEF CustodyInv, AcksOK
  <2>5. Fresh(e)' => Fresh(e)
    BY <1>1 DEF Fresh
  <2> QED BY <2>3, <2>4, <2>5 DEF RecordKeeps
<1>3. \A j \in Items : Executed(j) => worker.dispatch \in Registered'
  BY <1>1 DEF CustodyInv, ExecutedKnown
<1> QED BY <1>1, <1>2, <1>3 DEF DispatchesKeep

(* A record that changes nothing a worker or the store could notice. *)
Quiet(r, s) ==
    /\ s.items = r.items /\ s.gen = r.gen /\ s.suppressed = r.suppressed
    /\ EffectOwned(s)
    /\ Given(r) => Given(s)
    /\ Offered(s) => Offered(r)
    /\ PreparedRests(r) => PreparedRests(s) /\ (s.effect = NoEffect => r.effect = NoEffect)
Durable(d, s) == \A j \in s.staged \cup s.acked : FinishedBy(j, d)

Bound(r, s) == s.items = r.items /\ s.gen = r.gen /\ s.suppressed = r.suppressed

(* A record that keeps all its fields keeps the ones that bind it to jobs    *)
(* and process.                                                              *)
LEMMA KeptBound ==
    ASSUME NEW r, NEW s, Kept(r, s)
    PROVE  Bound(r, s)
BY DEF Kept, Bound

(* Two quiet changes make a quiet change.                                    *)
LEMMA QuietQuiet ==
    ASSUME NEW r, NEW s, NEW t, Quiet(r, s), Quiet(s, t)
    PROVE  Quiet(r, t)
BY DEF Quiet

(* A change is quiet when owner, life and effect stay,                       *)
LEMMA SameEffectQuiet ==
    ASSUME NEW r, NEW s, EffectOwned(r), Bound(r, s),
           s.own = r.own, s.life = r.life, s.effect = r.effect
    PROVE  Quiet(r, s)
<1>1. EffectOwned(s)
  BY DEF EffectOwned
<1>2. Given(r) => Given(s)
  BY DEF Given
<1>3. Offered(s) => Offered(r)
  BY DEF Offered
<1>4. PreparedRests(r) => PreparedRests(s) /\ (s.effect = NoEffect => r.effect = NoEffect)
  BY DEF PreparedRests
<1> QED BY <1>1, <1>2, <1>3, <1>4 DEF Quiet, Bound

(* when the coordinator's own dispatch begins its release,                   *)
LEMMA ReleaseBegunQuiet ==
    ASSUME NEW r, NEW s, EffectOwned(r), Kept(r, s), s.own = r.own, s.life = r.life,
           r.own = "Coordinator", Waits(r.effect, "Release"), s.effect = Begin("Release")
    PROVE  Quiet(r, s)
<1>1. EffectOwned(s)
  BY DEF EffectOwned, Begin
<1>2. ~Given(r)
  BY DEF Given, Waits, NoEffect, Retry
<1>3. ~Offered(s)
  BY DEF Offered, Begin
<1>4. PreparedRests(s) /\ s.effect # NoEffect
  BY DEF PreparedRests, Begin, NoEffect
<1> QED BY <1>1, <1>2, <1>3, <1>4 DEF Quiet, Kept

(* and when a worker's dispatch begins to drain.                             *)
LEMMA DrainingBegunQuiet ==
    ASSUME NEW r, NEW s, EffectOwned(r), Kept(r, s), s.own = r.own, s.life = r.life,
           r.own = "Worker", s.effect = Begin("MarkDraining")
    PROVE  Quiet(r, s)
<1>1. EffectOwned(s)
  BY DEF EffectOwned, Begin
<1>2. Given(s)
  BY DEF Given
<1>3. ~Offered(s)
  BY DEF Offered, Begin
<1>4. ~PreparedRests(r)
  BY DEF PreparedRests
<1> QED BY <1>1, <1>2, <1>3, <1>4 DEF Quiet, Kept

(* ReleaseDispatch is quiet.                                                 *)
LEMMA ReleaseQuiet ==
    ASSUME NEW r \in DispatchRecord, NEW keep \in BOOLEAN, EffectOwned(r)
    PROVE  Quiet(r, ReleaseDispatch(r, keep))
BY ReleaseKeeps, KeptBound, SameEffectQuiet, ReleaseBegunQuiet DEF MayRelease

(* ContinueContainment is quiet.                                             *)
LEMMA ContainmentQuiet ==
    ASSUME NEW r \in DispatchRecord, EffectOwned(r)
    PROVE  Quiet(r, ContinueContainment(r))
BY ContainmentKeeps, KeptBound, SameEffectQuiet, ReleaseBegunQuiet DEF MayRelease

(* MarkDispatchDraining is quiet.                                            *)
LEMMA DrainingQuiet ==
    ASSUME NEW r \in DispatchRecord, EffectOwned(r)
    PROVE  Quiet(r, MarkDispatchDraining(r))
BY DrainingKeeps, KeptBound, SameEffectQuiet, DrainingBegunQuiet

(* A handler that changes one record quietly keeps the records.              *)
LEMMA QuietUpdate ==
    ASSUME CustodyInv, NEW d \in Registered, NEW s, Update(d, s), prepared' = prepared,
           Quiet(dispatches[d], s), Durable(d, s)
    PROVE  DispatchesKeep
<1>1. Registered' = Registered /\ dispatches'[d] = s
  BY UpdateGives
<1>2. d \in prepared => PreparedRests(dispatches[d])
  BY DEF CustodyInv, RecordsOK
<1>4. RecordKeeps(d)
  BY <1>1, <1>2 DEF RecordKeeps, Quiet, Durable
<1>5. Fresh(d)' => Fresh(d)
  BY <1>1, <1>2 DEF Fresh, Quiet
<1> QED BY <1>4, <1>5, UpdateKeeps

-----------------------------------------------------------------------------
(* How a handler keeps the rest *)

(* A step that leaves jobs and attempts alone keeps the store.               *)
LEMMA StoreSame ==
    ASSUME CustodyInv, UNCHANGED <<job, attempt>>, claim' \in {claim, NoClaim}
    PROVE  StoreKeeps
BY DEF StoreKeeps, JobKeeps, NoClaim, CustodyInv, ClaimOK

(* Asking a worker to retire leaves what it executes alone,                  *)
LEMMA WorkerSame ==
    ASSUME CustodyInv, NEW g, worker' \in {worker, Retire(worker, g)}
    PROVE  WorkerKeeps /\ (WorkerTypeOK /\ UNCHANGED wire => WorkerTypeOK')
<1>1. /\ worker'.gen = worker.gen /\ worker'.up = worker.up /\ worker'.dispatch = worker.dispatch
      /\ worker'.items = worker.items /\ worker'.done = worker.done
  BY DEF Retire, CustodyInv, CoordinatorTypeOK, WorkerTypeOK
<1>2. \A j \in Items : Executed(j)' => Executed(j)
  BY <1>1 DEF Executed
<1>3. \A j \in Items : worker'.items[j] = "acked" => FinishedBy(j, worker'.dispatch)
  BY <1>1 DEF CustodyInv, AckedIsDurable, FinishedBy
<1>4. WorkerTypeOK /\ UNCHANGED wire => WorkerTypeOK'
  BY DEF WorkerTypeOK, Retire
<1> QED BY <1>1, <1>2, <1>3, <1>4 DEF WorkerKeeps

(* and what is said of a process that is gone.                               *)
LEMMA WorkerOKSame ==
    ASSUME CustodyInv, NEW g, worker' \in {worker, Retire(worker, g)},
           \A e \in Range(wire)' : e \in Range(wire), UNCHANGED <<stage, claim>>
    PROVE  WorkerOK'
<1>1. /\ worker'.gen = worker.gen /\ worker'.up = worker.up /\ worker'.dispatch = worker.dispatch
      /\ worker'.items = worker.items /\ worker'.done = worker.done
  BY DEF Retire, CustodyInv, CoordinatorTypeOK, WorkerTypeOK
<1> QED BY <1>1 DEF CustodyInv, WorkerOK

(* A queued acknowledgement is of a durable terminal.                        *)
LEMMA OldControls ==
    ASSUME CustodyInv, NEW c \in controls, c.kind = "ack"
    PROVE  FinishedBy(c.job, c.dispatch)
BY DEF CustodyInv, AcksOK

(* A queued sidecar mutation is of a dispatch that has left, for a job it    *)
(* does not execute.                                                         *)
LEMMA OldMutations ==
    ASSUME CustodyInv, NEW m \in mutations, m.kind = "sidecar"
    PROVE  /\ m.dispatch \in Ids /\ ~Untouched(m.dispatch)
           /\ worker.dispatch = m.dispatch => ~Executed(m.job)
BY DEF CustodyInv, SidecarsOK, UnseenOK

(* Streams that stay as they are keep what is said of them.                  *)
LEMMA OldStreams ==
    ASSUME CustodyInv, UNCHANGED stream
    PROVE  /\ \A d \in Ids : Untouched(d) => stream'[d].events = <<>>
           /\ \A d \in Ids : stream'[d].io # "none" => StreamKeeps(d) \/ Persisting(d)'
<1>1. \A d \in Ids : stream[d].io # "none" => stream[d].events # <<>>
  BY DEF CustodyInv, PersistOK, Persisting, HasEvidence
<1> QED BY <1>1 DEF CustodyInv, UnseenOK, StreamKeeps

(* So do the queues.                                                         *)
LEMMA QueuesSame ==
    ASSUME CustodyInv, UNCHANGED <<stream, wire, controls, mutations>>
    PROVE  QueuesKeep /\ (QueuesTypeOK => QueuesTypeOK')
<1>1. Sent' = Sent
  BY DEF Sent, SentBy
<1>2. QueuesTypeOK => QueuesTypeOK'
  BY DEF QueuesTypeOK
<1> QED BY <1>1, <1>2, OldControls, OldMutations, OldStreams DEF QueuesKeep

(* An update with a dispatch record keeps the records' types,                *)
LEMMA RecordsTyped ==
    ASSUME ActorTypeOK, NEW d \in Registered, NEW s \in DispatchRecord, Update(d, s)
    PROVE  Registered' \subseteq Ids /\ \A e \in Registered' : dispatches'[e] \in DispatchRecord
BY UpdateGives DEF ActorTypeOK

(* and so does a removal.                                                    *)
LEMMA RecordsLeftTyped ==
    ASSUME ActorTypeOK, NEW d, RemoveDispatch(d)
    PROVE  Registered' \subseteq Ids /\ \A e \in Registered' : dispatches'[e] \in DispatchRecord
BY RemoveGives DEF ActorTypeOK

(* What the invariant says of one record.                                    *)
LEMMA RecordTyped ==
    ASSUME CustodyInv, NEW d \in Registered
    PROVE  /\ dispatches[d] \in DispatchRecord /\ EffectOwned(dispatches[d]) /\ d \in Ids
           /\ d \in prepared => PreparedRests(dispatches[d])
BY DEF CustodyInv, CoordinatorTypeOK, ActorTypeOK, RecordsOK

LaneTypeOK ==
    lane \in [gen : {0} \cup Generations, submitting : {0} \cup Ids, active : {0} \cup Ids,
              state : {"none", "Ready", "Submitting", "Active", "Draining"}]

RecordsTypeOK == Registered \subseteq Ids /\ \A d \in Registered : dispatches[d] \in DispatchRecord

(* A handler that only changes records. *)
LEMMA RecordStep ==
    ASSUME CustodyInv, DispatchesKeep, RecordsTypeOK', LaneTypeOK',
           UNCHANGED <<job, attempt, request, claim, stream, controls, mutations, stage, wire>>,
           NEW g, worker' \in {worker, Retire(worker, g)}
    PROVE  CustodyInv'
<1>2. StoreKeeps
  BY StoreSame
<1>3. WorkerKeeps /\ (WorkerTypeOK /\ UNCHANGED wire => WorkerTypeOK')
  BY WorkerSame
<1>4. WorkerOK'
  BY WorkerOKSame
<1>5. QueuesKeep /\ (QueuesTypeOK => QueuesTypeOK')
  BY QueuesSame
<1>6. CoordinatorTypeOK
  BY DEF CustodyInv
<1>7. ActorTypeOK'
  BY <1>6 DEF CoordinatorTypeOK, ActorTypeOK, LaneTypeOK, RecordsTypeOK
<1>8. StoreTypeOK'
  BY <1>6 DEF CoordinatorTypeOK, StoreTypeOK
<1>9. CoordinatorTypeOK'
  BY <1>3, <1>5, <1>6, <1>7, <1>8 DEF CoordinatorTypeOK
<1> QED BY <1>2, <1>3, <1>4, <1>5, <1>9, KeepCustody

(* A record-valued update keeps the type of the records.                     *)
LEMMA RecordTypeStep ==
    ASSUME CustodyInv, NEW d \in Registered, NEW s \in DispatchRecord, Update(d, s)
    PROVE  RecordsTypeOK'
BY RecordsTyped DEF CustodyInv, CoordinatorTypeOK, RecordsTypeOK

(* A handler that only changes one record, quietly. *)
LEMMA QuietStep ==
    ASSUME CustodyInv, NEW d \in Registered, NEW s \in DispatchRecord,
           Quiet(dispatches[d], s), Kept(dispatches[d], s), Update(d, s),
           UNCHANGED <<job, attempt, request, claim, prepared, stream, controls, mutations, stage, wire>>,
           NEW g, worker' \in {worker, Retire(worker, g)}, LaneTypeOK'
    PROVE  CustodyInv'
<1>0. Durable(d, s)
  BY DEF Durable, Kept, CustodyInv, AcksOK
<1>1. DispatchesKeep
  BY <1>0, QuietUpdate
<1>2. RecordsTypeOK'
  BY RecordTypeStep
<1> QED BY <1>1, <1>2, RecordStep

(* Two changes that keep all fields keep all fields.                         *)
LEMMA KeptKept ==
    ASSUME NEW r, NEW s, NEW t, Kept(r, s), Kept(s, t)
    PROVE  Kept(r, t)
BY DEF Kept

(* Ways to be quiet: a worker has the record before and after; *)
LEMMA OwnedQuiet ==
    ASSUME NEW r, NEW s, s.items = r.items, s.gen = r.gen, s.suppressed = r.suppressed,
           r.own \in {"MayOwn", "Worker"}, s.own \in {"MayOwn", "Worker"}, EffectOwned(s)
    PROVE  Quiet(r, s)
<1>1. Given(s)
  BY DEF Given
<1>2. ~Offered(s)
  BY DEF Offered, EffectOwned, Begin
<1>3. ~PreparedRests(r)
  BY DEF PreparedRests
<1> QED BY <1>1, <1>2, <1>3 DEF Quiet

(* the effect is further on; *)
LEMMA AtQuiet ==
    ASSUME NEW r, NEW s, Kept(r, s), s.own = r.own, s.life = r.life, EffectOwned(r),
           s.effect.kind = r.effect.kind,
           r.effect.kind \in {"Residence", "Activation", "MarkDraining", "Release"}
    PROVE  Quiet(r, s)
<1>1. EffectOwned(s)
  BY DEF EffectOwned
<1>2. Given(r) => Given(s)
  BY DEF Given
<1>3. ~Offered(s)
  BY DEF Offered, Begin
<1>4. PreparedRests(r) => PreparedRests(s)
  BY DEF PreparedRests, NoEffect
<1>5. s.effect # NoEffect
  BY DEF NoEffect
<1> QED BY <1>1, <1>2, <1>3, <1>4, <1>5 DEF Quiet, Kept

(* the effect has ended. *)
LEMMA EndsQuiet ==
    ASSUME NEW r, NEW s, Bound(r, s), s.own = r.own, EffectOwned(r), s.effect = NoEffect,
           r.effect.kind \in {"Residence", "Activation", "MarkDraining", "Reconstruction"}
    PROVE  Quiet(r, s)
<1>1. EffectOwned(s)
  BY DEF EffectOwned, NoEffect
<1>2. Given(r) => Given(s)
  BY DEF Given
<1>3. ~Offered(s)
  BY DEF Offered, Begin, NoEffect
<1>4. ~PreparedRests(r)
  BY DEF PreparedRests, NoEffect
<1> QED BY <1>1, <1>2, <1>3, <1>4 DEF Quiet, Bound

(* A record with another effect. *)
LEMMA EffectSet ==
    ASSUME NEW r \in DispatchRecord, NEW e \in Effect, NEW s, s = [r EXCEPT !.effect = e]
    PROVE  s \in DispatchRecord /\ Kept(r, s) /\ s.own = r.own /\ s.life = r.life /\ s.effect = e
BY DEF DispatchRecord, Kept

(* Moving an effect on changes nothing else.                                 *)
LEMMA EffectAtSet ==
    ASSUME NEW r \in DispatchRecord, r.effect # NoEffect,
           NEW at \in {"queued", "retry", "written", "unwritten", "unknown"} \cup Outcomes
    PROVE  LET s == [r EXCEPT !.effect.at = at] IN
           /\ s \in DispatchRecord /\ Kept(r, s) /\ s.own = r.own /\ s.life = r.life
           /\ s.effect = [kind |-> r.effect.kind, at |-> at]
<1> DEFINE e == [kind |-> r.effect.kind, at |-> at]
           s == [r EXCEPT !.effect.at = at]
<1>1. r.effect \in [kind : Kinds, at : {"queued", "retry", "written", "unwritten", "unknown"} \cup Outcomes]
  BY DEF DispatchRecord, Effect
<1>2. e \in Effect
  BY <1>1 DEF Effect
<1>3. [r.effect EXCEPT !.at = at] = e
  BY <1>1
<1>4. s = [r EXCEPT !.effect = e]
  BY <1>3
<1> HIDE DEF e, s
<1>5. s \in DispatchRecord /\ Kept(r, s) /\ s.own = r.own /\ s.life = r.life /\ s.effect = e
  BY <1>2, <1>4 DEF DispatchRecord, Kept
<1> QED BY <1>5 DEF e, s

(* A lane that stays is typed,                                               *)
LEMMA LaneSame ==
    ASSUME CustodyInv, lane' = lane
    PROVE  LaneTypeOK'
BY DEF CustodyInv, CoordinatorTypeOK, ActorTypeOK, LaneTypeOK

(* and so is a lane whose worker is cleared (ClearWorkerIdentity).           *)
LEMMA LaneCleared ==
    ASSUME CustodyInv, NEW r, NEW d, lane' = ClearWorkerIdentity(r, d)
    PROVE  LaneTypeOK'
BY DEF CustodyInv, CoordinatorTypeOK, ActorTypeOK, LaneTypeOK, ClearWorkerIdentity

(* A registered dispatch is not the claim's. *)
LEMMA ClaimIsNotRegistered ==
    ASSUME CustodyInv, NEW d \in Registered
    PROVE  ~ClaimedNow(d)
<1> SUFFICES ASSUME ClaimedNow(d) PROVE FALSE
  OBVIOUS
<1>1. claim.at = "done"
  BY DEF ClaimedNow
<1>2. PICK j \in claim.items : job[j].dispatch = d
  BY DEF ClaimedNow
<1>3. PICK e \in Ids : e \notin Registered /\ Taken(j, e)
  BY <1>1 DEF CustodyInv, ClaimOK
<1>4. job[j].dispatch = e
  BY <1>3 DEF Taken
<1> QED BY <1>2, <1>3, <1>4

(* A registered dispatch that is not fresh has left the coordinator.         *)
LEMMA TouchedUnlessFresh ==
    ASSUME CustodyInv, NEW d \in Registered, ~Fresh(d)
    PROVE  ~Untouched(d)
<1>1. d \in Ids
  BY RecordTyped
<1> QED BY <1>1, ClaimIsNotRegistered DEF Untouched, CustodyInv, JobsOK

(* What another command than a submission is for has left the coordinator. *)
LEMMA WorkingIsTouched ==
    ASSUME CustodyInv, NEW d \in Registered,
           dispatches[d].effect.kind \in {"Residence", "Activation", "MarkDraining", "Release"}
    PROVE  ~Untouched(d)
<1>1. ~Fresh(d)
  BY DEF Fresh, Offered, Begin, NoEffect
<1> QED BY <1>1, TouchedUnlessFresh

(* What the coordinator owns and a command releases, no worker executes. *)
LEMMA NotGivenIsIdle ==
    ASSUME CustodyInv, NEW d, d \notin Registered \/ ~Given(dispatches[d])
    PROVE  \A j \in Items : Executed(j) => worker.dispatch # d
BY DEF CustodyInv, ExecutedKnown

(* MaybeRetire, in a handler that changes the record quietly: a worker does  *)
(* not execute what is retired.                                              *)
LEMMA MaybeRetireKeeps ==
    ASSUME CustodyInv, NEW d \in Registered, NEW s \in DispatchRecord, MaybeRetire(d, s),
           prepared' = prepared, Quiet(dispatches[d], s), Durable(d, s)
    PROVE  DispatchesKeep /\ LaneTypeOK' /\ RecordsTypeOK'
<1>1. ActorTypeOK /\ LaneTypeOK
  BY DEF CustodyInv, CoordinatorTypeOK, ActorTypeOK, LaneTypeOK
<1>2. CASE ReadyToRetire(s)
  <2>1. RemoveDispatch(d) /\ lane' = ClearWorkerIdentity(s, d)
    BY <1>2 DEF MaybeRetire
  <2>2. LaneTypeOK'
    BY <1>1, <2>1 DEF LaneTypeOK, ClearWorkerIdentity
  <2>3. ASSUME NEW j \in Items, Executed(j), worker.dispatch = d
        PROVE  FALSE
    <3>1. j \in dispatches[d].items \ dispatches[d].suppressed /\ job[j].state \in {"CLAIMED", "RUNNING"}
      BY <2>3 DEF CustodyInv, ExecutedKnown
    <3>2. j \in s.acked
      BY <1>2, <3>1 DEF ReadyToRetire, Quiet
    <3>3. FinishedBy(j, d)
      BY <3>2 DEF Durable
    <3> QED BY <3>1, <3>3 DEF FinishedBy
  <2>4. DispatchesKeep
    BY <2>1, <2>3, RemoveKeeps
  <2> QED BY <1>1, <2>1, <2>2, <2>4, RecordsLeftTyped DEF RecordsTypeOK
<1>3. CASE ~ReadyToRetire(s)
  <2>1. Update(d, s) /\ lane' = lane
    BY <1>3 DEF MaybeRetire
  <2>2. DispatchesKeep
    BY <2>1, QuietUpdate
  <2> QED BY <1>1, <2>1, <2>2, RecordsTyped DEF LaneTypeOK, RecordsTypeOK
<1> QED BY <1>2, <1>3

-----------------------------------------------------------------------------
(* The handlers that change one record quietly *)

(* A reconstruction that fails keeps the invariant: the dispatch is released. *)
LEMMA ReconstructionFailsStep ==
    ASSUME CustodyInv, NEW d \in Registered, ReconstructionFails(d)
    PROVE  CustodyInv'
<1> DEFINE r == dispatches[d]
           s == [r EXCEPT !.effect = NoEffect]
<1>1. r \in DispatchRecord /\ EffectOwned(r)
  BY RecordTyped
<1>2. r.effect.kind = "Reconstruction" /\ Update(d, s) /\ worker' = worker /\ lane' = lane
  BY DEF ReconstructionFails, Begin
<1>3. NoEffect \in Effect
  BY DEF Effect
<1>4. s \in DispatchRecord /\ Kept(r, s) /\ s.own = r.own /\ s.effect = NoEffect
  BY <1>1, <1>3, EffectSet
<1> HIDE DEF s
<1>5. Quiet(r, s)
  BY <1>1, <1>2, <1>4, KeptBound, EndsQuiet
<1>6. UNCHANGED <<job, attempt, request, claim, prepared, stream, controls, mutations, stage, wire>>
  BY DEF ReconstructionFails
<1>7. LaneTypeOK'
  BY <1>2, LaneSame
<1> QED BY <1>2, <1>4, <1>5, <1>6, <1>7, QuietStep

(* ConfirmResidence keeps the invariant.                                     *)
LEMMA ConfirmResidenceStep ==
    ASSUME CustodyInv, NEW d \in Registered, ConfirmResidence(d)
    PROVE  CustodyInv'
<1> DEFINE r == dispatches[d]
<1>1. r \in DispatchRecord /\ EffectOwned(r)
  BY RecordTyped
<1>2. PICK at \in Outcomes : Update(d, [r EXCEPT !.effect.at = at])
  BY DEF ConfirmResidence, Outcomes
<1> DEFINE s == [r EXCEPT !.effect.at = at]
<1>3. r.effect = Begin("Residence") /\ worker' \in {worker, Retire(worker, r.gen)} /\ lane' = lane
  BY DEF ConfirmResidence
<1>4. r.effect # NoEffect /\ r.effect.kind = "Residence"
  BY <1>3 DEF Begin, NoEffect
<1> HIDE DEF r
<1>5. LET t == [r EXCEPT !.effect.at = at] IN
      /\ t \in DispatchRecord /\ Kept(r, t) /\ t.own = r.own /\ t.life = r.life
      /\ t.effect = [kind |-> r.effect.kind, at |-> at]
  BY <1>1, <1>4, EffectAtSet
<1> USE DEF r
<1>6. /\ s \in DispatchRecord /\ Kept(r, s) /\ s.own = r.own /\ s.life = r.life
      /\ s.effect.kind = r.effect.kind
  BY <1>5
<1> HIDE DEF s
<1>7. Quiet(r, s)
  BY <1>1, <1>4, <1>6, AtQuiet
<1>8. UNCHANGED <<job, attempt, request, claim, prepared, stream, controls, mutations, stage, wire>>
  BY DEF ConfirmResidence
<1>9. LaneTypeOK'
  BY <1>3, LaneSame
<1>10. Update(d, s)
  BY <1>2 DEF s
<1> QED BY <1>3, <1>6, <1>7, <1>8, <1>9, <1>10, QuietStep

(* HandleResidenceCompletion keeps the invariant.                            *)
LEMMA HandleResidenceStep ==
    ASSUME CustodyInv, NEW d \in Registered, HandleResidenceCompletion(d)
    PROVE  CustodyInv'
<1> DEFINE r == dispatches[d]
<1>1. r \in DispatchRecord /\ EffectOwned(r)
  BY RecordTyped
<1>2. PICK e \in {NoEffect, Begin("Activation")} : Update(d, [r EXCEPT !.effect = e])
  BY DEF HandleResidenceCompletion
<1> DEFINE s == [r EXCEPT !.effect = e]
<1>3. r.effect.kind = "Residence" /\ worker' = worker /\ lane' = lane
  BY DEF HandleResidenceCompletion
<1>4. e \in Effect
  BY DEF Effect, Begin, Kinds
<1>5. s \in DispatchRecord /\ Kept(r, s) /\ s.own = r.own /\ s.life = r.life /\ s.effect = e
  BY <1>1, <1>4, EffectSet
<1> HIDE DEF s
<1>6. r.own = "MayOwn"
  BY <1>1, <1>3 DEF EffectOwned
<1>7. EffectOwned(s)
  BY <1>5, <1>6 DEF EffectOwned, NoEffect, Begin
<1>8. Quiet(r, s)
  BY <1>5, <1>6, <1>7, OwnedQuiet DEF Kept
<1>9. UNCHANGED <<job, attempt, request, claim, prepared, stream, controls, mutations, stage, wire>>
  BY DEF HandleResidenceCompletion
<1>10. LaneTypeOK'
  BY <1>3, LaneSame
<1>11. Update(d, s)
  BY <1>2 DEF s
<1> QED BY <1>3, <1>5, <1>8, <1>9, <1>10, <1>11, QuietStep

(* A transition that the database lane fails keeps the invariant.            *)
LEMMA CoordinationIoFailsStep ==
    ASSUME CustodyInv, NEW d \in Registered, CoordinationIoFails(d)
    PROVE  CustodyInv'
<1> DEFINE r == dispatches[d]
           s == [r EXCEPT !.effect.at = "failed"]
<1>1. r \in DispatchRecord /\ EffectOwned(r)
  BY RecordTyped
<1>2. Update(d, s) /\ worker' = worker /\ lane' = lane
  BY DEF CoordinationIoFails
<1>3. r.effect # NoEffect /\ r.effect.kind \in {"Activation", "MarkDraining", "Release"}
  BY DEF CoordinationIoFails, Begin, NoEffect
<1> HIDE DEF r
<1>4. LET t == [r EXCEPT !.effect.at = "failed"] IN
      /\ t \in DispatchRecord /\ Kept(r, t) /\ t.own = r.own /\ t.life = r.life
      /\ t.effect = [kind |-> r.effect.kind, at |-> "failed"]
  <2>1. "failed" \in {"queued", "retry", "written", "unwritten", "unknown"} \cup Outcomes
    BY DEF Outcomes
  <2> QED BY <1>1, <1>3, <2>1, EffectAtSet
<1> USE DEF r
<1>5. /\ s \in DispatchRecord /\ Kept(r, s) /\ s.own = r.own /\ s.life = r.life
      /\ s.effect.kind = r.effect.kind
  BY <1>4
<1> HIDE DEF s
<1>6. Quiet(r, s)
  BY <1>1, <1>3, <1>5, AtQuiet
<1>7. UNCHANGED <<job, attempt, request, claim, prepared, stream, controls, mutations, stage, wire>>
  BY DEF CoordinationIoFails
<1>8. LaneTypeOK'
  BY <1>2, LaneSame
<1> QED BY <1>2, <1>5, <1>6, <1>7, <1>8, QuietStep

(* The retry of an activation keeps the invariant.                           *)
LEMMA RetryActivationStep ==
    ASSUME CustodyInv, NEW d \in Registered, RetryActivation(d)
    PROVE  CustodyInv'
<1> DEFINE r == dispatches[d]
           e == Begin("Activation")
           s == [r EXCEPT !.effect = e]
<1>1. r \in DispatchRecord /\ EffectOwned(r)
  BY RecordTyped
<1>2. Update(d, s) /\ worker' = worker /\ lane' = lane /\ r.effect.kind = "Activation"
  BY DEF RetryActivation, Retry
<1>3. e \in Effect /\ e.kind = "Activation"
  BY DEF Effect, Begin, Kinds
<1> HIDE DEF e
<1>4. s \in DispatchRecord /\ Kept(r, s) /\ s.own = r.own /\ s.life = r.life /\ s.effect = e
  BY <1>1, <1>3, EffectSet
<1> HIDE DEF s
<1>6. Quiet(r, s)
  BY <1>1, <1>2, <1>3, <1>4, AtQuiet
<1>7. UNCHANGED <<job, attempt, request, claim, prepared, stream, controls, mutations, stage, wire>>
  BY DEF RetryActivation
<1>8. LaneTypeOK'
  BY <1>2, LaneSame
<1> QED BY <1>2, <1>4, <1>6, <1>7, <1>8, QuietStep

(* ProcessPendingDrainingTransitions keeps the invariant.                    *)
LEMMA PendingDrainingStep ==
    ASSUME CustodyInv, NEW d \in Registered, ProcessPendingDrainingTransitions(d)
    PROVE  CustodyInv'
<1> DEFINE r == dispatches[d]
           s == MarkDispatchDraining(r)
<1>1. r \in DispatchRecord /\ EffectOwned(r)
  BY RecordTyped
<1>2. Update(d, s) /\ worker' = worker /\ lane' = lane
  BY DEF ProcessPendingDrainingTransitions
<1>3. s \in DispatchRecord /\ Kept(r, s) /\ Quiet(r, s)
  BY <1>1, DrainingTyped, DrainingKeeps, DrainingQuiet
<1> HIDE DEF s
<1>4. UNCHANGED <<job, attempt, request, claim, prepared, stream, controls, mutations, stage, wire>>
  BY DEF ProcessPendingDrainingTransitions
<1>5. LaneTypeOK'
  BY <1>2, LaneSame
<1> QED BY <1>2, <1>3, <1>4, <1>5, QuietStep

(* ProcessContainment keeps the invariant.                                   *)
LEMMA ContainmentStep ==
    ASSUME CustodyInv, NEW d \in Registered, ProcessContainment(d)
    PROVE  CustodyInv'
<1> DEFINE r == dispatches[d]
           s == ContinueContainment(r)
<1>1. r \in DispatchRecord /\ EffectOwned(r)
  BY RecordTyped
<1>2. Update(d, s) /\ worker' \in {worker, Retire(worker, r.gen)} /\ lane' = lane
  BY DEF ProcessContainment
<1>3. s \in DispatchRecord /\ Kept(r, s) /\ Quiet(r, s)
  BY <1>1, ContainmentTyped, ContainmentKeeps, ContainmentQuiet
<1> HIDE DEF s
<1>4. UNCHANGED <<job, attempt, request, claim, prepared, stream, controls, mutations, stage, wire>>
  BY DEF ProcessContainment
<1>5. LaneTypeOK'
  BY <1>2, LaneSame
<1> QED BY <1>2, <1>3, <1>4, <1>5, QuietStep

(* A step that does not touch the records either. *)
LEMMA IdleStep ==
    ASSUME CustodyInv,
           UNCHANGED <<job, attempt, request, dispatches, prepared, stream, controls, mutations,
                       worker, wire>>,
           claim' \in {claim, NoClaim}
             \/ (claim' = [NoClaim EXCEPT !.at = "queued"] /\ stage = "Running" /\ stage' = stage
                 /\ \E d \in Ids : attempt[d] = "none"),
           \/ stage' \in {stage, "Quiescing"}
           \/ stage' = "WorkersStopped" /\ ~worker.up
           \/ stage' = "Recovering" /\ ~worker.up /\ claim.at = "none",
           LaneTypeOK'
    PROVE  CustodyInv'
<1>1. DispatchesKeep
  BY SameKeeps
<1>2. StoreKeeps
  <2>1. CASE claim' \in {claim, NoClaim}
    BY <2>1, StoreSame
  <2>2. CASE claim' = [NoClaim EXCEPT !.at = "queued"] /\ \E d \in Ids : attempt[d] = "none"
    BY <2>2 DEF StoreKeeps, JobKeeps, NoClaim
  <2> QED BY <2>1, <2>2
<1>3. WorkerKeeps
  BY WorkerSame
<1>5. QueuesKeep /\ (QueuesTypeOK => QueuesTypeOK')
  BY QueuesSame
<1>6. CoordinatorTypeOK
  BY DEF CustodyInv
<1>4. WorkerOK'
  <2>1. WorkerOK
    BY DEF CustodyInv
  <2>2. ASSUME stage' \in {"Recovering", "Recovered"} PROVE claim'.at = "none"
    BY <2>1, <2>2 DEF WorkerOK, NoClaim
  <2> QED BY <2>1, <2>2 DEF WorkerOK
<1>7. ActorTypeOK'
  <2>1. claim' \in [at : {"none", "queued", "done"}, items : SUBSET Items, before : SUBSET (Ids \X Kinds)]
    BY <1>6 DEF CoordinatorTypeOK, ActorTypeOK, NoClaim
  <2> QED BY <1>6, <2>1 DEF CoordinatorTypeOK, ActorTypeOK, LaneTypeOK, Registered
<1>8. StoreTypeOK' /\ WorkerTypeOK'
  BY <1>6 DEF CoordinatorTypeOK, StoreTypeOK, WorkerTypeOK
<1>9. CoordinatorTypeOK'
  BY <1>5, <1>6, <1>7, <1>8 DEF CoordinatorTypeOK
<1> QED BY <1>1, <1>2, <1>3, <1>4, <1>5, <1>9, KeepCustody

(* Scheduling a claim keeps the invariant,                                   *)
LEMMA ScheduleClaimStep ==
    ASSUME CustodyInv, ScheduleClaim
    PROVE  CustodyInv'
<1>1. stage = "Running"
  BY DEF ScheduleClaim, IsDispatchAdmissionPaused, Quiescing
<1>2. LaneTypeOK'
  BY LaneSame DEF ScheduleClaim
<1>3. UNCHANGED <<job, attempt, request, dispatches, prepared, stream, controls, mutations,
                  worker, wire, stage>> /\ claim' = [NoClaim EXCEPT !.at = "queued"]
      /\ \E d \in Ids : attempt[d] = "none"
  BY DEF ScheduleClaim
<1> QED BY <1>1, <1>2, <1>3, IdleStep

(* as does a claim that fails,                                               *)
LEMMA ClaimFailsStep ==
    ASSUME CustodyInv, ClaimFails
    PROVE  CustodyInv'
<1>2. LaneTypeOK'
  BY LaneSame DEF ClaimFails
<1>3. UNCHANGED <<job, attempt, request, dispatches, prepared, stream, controls, mutations,
                  worker, wire, stage>> /\ claim' = NoClaim
  BY DEF ClaimFails
<1> QED BY <1>2, <1>3, IdleStep DEF NoClaim

(* an operator who resumes admission,                                        *)
LEMMA ClearPauseStep ==
    ASSUME CustodyInv, ClearInvariantPause
    PROVE  CustodyInv'
<1>2. LaneTypeOK'
  BY LaneSame DEF ClearInvariantPause
<1>3. UNCHANGED <<job, attempt, request, dispatches, prepared, stream, controls, mutations,
                  worker, wire, stage, claim>>
  BY DEF ClearInvariantPause
<1> QED BY <1>2, <1>3, IdleStep

(* a cancellation that somebody commits,                                     *)
LEMMA CommitStep ==
    ASSUME CustodyInv, NEW j \in Items, CommitCancellation(j)
    PROVE  CustodyInv'
<1>1. DispatchesKeep /\ StoreKeeps /\ WorkerKeeps
  BY SameKeeps, StoreSame, WorkerSame DEF CommitCancellation
<1>2. QueuesKeep /\ (QueuesTypeOK => QueuesTypeOK')
  BY QueuesSame DEF CommitCancellation
<1>3. CoordinatorTypeOK /\ WorkerOK
  BY DEF CustodyInv
<1>4. WorkerOK'
  BY <1>3 DEF WorkerOK, CommitCancellation
<1>5. ActorTypeOK' /\ WorkerTypeOK'
  BY <1>3 DEF CoordinatorTypeOK, ActorTypeOK, WorkerTypeOK, Registered, CommitCancellation
<1>6. StoreTypeOK'
  BY <1>3 DEF CoordinatorTypeOK, StoreTypeOK, CommitCancellation
<1>7. CoordinatorTypeOK'
  BY <1>2, <1>3, <1>5, <1>6 DEF CoordinatorTypeOK
<1> QED BY <1>1, <1>2, <1>4, <1>7, KeepCustody

(* the end of the workers at a shutdown,                                     *)
LEMMA FinishShutdownStep ==
    ASSUME CustodyInv, FinishShutdownAfterWorkersStopped
    PROVE  CustodyInv'
<1>2. LaneTypeOK'
  BY LaneSame DEF FinishShutdownAfterWorkersStopped
<1>3. UNCHANGED <<job, attempt, request, dispatches, prepared, stream, controls, mutations,
                  worker, wire, claim>> /\ stage' = "WorkersStopped" /\ ~worker.up
  BY DEF FinishShutdownAfterWorkersStopped
<1> QED BY <1>2, <1>3, IdleStep

(* and the start of the recovery.                                            *)
LEMMA ProcessShutdownStep ==
    ASSUME CustodyInv, ProcessShutdown
    PROVE  CustodyInv'
<1>2. LaneTypeOK'
  BY LaneSame DEF ProcessShutdown
<1>3. UNCHANGED <<job, attempt, request, dispatches, prepared, stream, controls, mutations,
                  worker, wire, claim>> /\ stage' = "Recovering" /\ claim.at = "none"
  BY DEF ProcessShutdown
<1>4. ~worker.up
  BY DEF ProcessShutdown, CustodyInv, WorkerOK
<1> QED BY <1>2, <1>3, <1>4, IdleStep

-----------------------------------------------------------------------------
(* Reconstruction, admission and submission *)

(* A reconstruction that succeeds keeps the invariant.                       *)
LEMMA ReconstructStep ==
    ASSUME CustodyInv, NEW d \in Registered, Reconstruct(d)
    PROVE  CustodyInv'
<1> DEFINE r == dispatches[d]
           s == [r EXCEPT !.effect = NoEffect, !.life = "Prepared"]
<1>1. r \in DispatchRecord /\ EffectOwned(r)
  BY RecordTyped
<1>2. r.effect = Begin("Reconstruction") /\ Update(d, s) /\ worker' = worker /\ lane' = lane
  BY DEF Reconstruct
<1>3. NoEffect \in Effect
  BY DEF Effect
<1>4. /\ s \in DispatchRecord /\ Bound(r, s) /\ s.own = r.own /\ s.effect = NoEffect
      /\ s.staged = r.staged /\ s.acked = r.acked
  BY <1>1, <1>3 DEF DispatchRecord, Bound
<1> HIDE DEF s
<1>5. r.own = "Coordinator" /\ ~Given(r) /\ Fresh(d)
  BY <1>1, <1>2 DEF EffectOwned, Begin, Given, Fresh, Offered
<1>6. EffectOwned(s) /\ PreparedRests(s)
  BY <1>4, <1>5 DEF EffectOwned, PreparedRests, NoEffect
<1>7. \A j \in s.staged \cup s.acked : FinishedBy(j, d)
  BY <1>4 DEF CustodyInv, AcksOK
<1>8. dispatches'[d] = s
  BY <1>2, UpdateGives
<1>9. RecordKeeps(d)
  BY <1>4, <1>5, <1>6, <1>7, <1>8 DEF RecordKeeps, Bound
<1>10. \A e \in prepared' : e = d \/ e \in prepared
  BY DEF Reconstruct
<1>11. DispatchesKeep
  BY <1>2, <1>5, <1>9, <1>10, UpdateKeeps
<1>12. RecordsTypeOK' /\ LaneTypeOK'
  BY <1>2, <1>4, RecordTypeStep, LaneSame
<1>13. UNCHANGED <<job, attempt, request, claim, stream, controls, mutations, stage, wire>>
  BY DEF Reconstruct
<1> QED BY <1>2, <1>11, <1>12, <1>13, RecordStep

(* HandleSubmissionCompletion keeps the invariant: only a submission that    *)
(* surely failed leaves the coordinator the owner.                           *)
LEMMA SubmissionCompletionStep ==
    ASSUME CustodyInv, NEW d \in Registered, HandleSubmissionCompletion(d)
    PROVE  CustodyInv'
<1> DEFINE r == dispatches[d]
           e == Begin(IF r.effect.at = "written" THEN "Activation" ELSE "Residence")
           mine == [r EXCEPT !.own = "MayOwn", !.life = "Prepared", !.effect = e]
           back == [r EXCEPT !.life = "Prepared", !.effect = NoEffect, !.gen = 0, !.suppressed = {}]
<1>1. r \in DispatchRecord /\ EffectOwned(r) /\ (d \in prepared => PreparedRests(r))
  BY RecordTyped
<1>2. r.effect.kind = "Submission" /\ r.effect.at # "queued"
  BY DEF HandleSubmissionCompletion
<1>3. r.own = "Coordinator" /\ d \notin prepared
  BY <1>1, <1>2 DEF EffectOwned, PreparedRests, NoEffect
<1>4. \A j \in r.staged \cup r.acked : FinishedBy(j, d)
  BY DEF CustodyInv, AcksOK
<1>5. UNCHANGED <<job, attempt, request, claim, stream, controls, mutations, stage, wire, worker>>
  BY DEF HandleSubmissionCompletion
<1>6. LaneTypeOK'
  BY DEF HandleSubmissionCompletion, CustodyInv, CoordinatorTypeOK, ActorTypeOK, LaneTypeOK
<1>7. CASE Update(d, mine) /\ prepared' = prepared
  <2>1. e \in Effect /\ e.kind \in {"Activation", "Residence"} /\ e # NoEffect
    BY DEF Effect, Begin, Kinds, NoEffect
  <2> HIDE DEF e
  <2>2. /\ mine \in DispatchRecord /\ Bound(r, mine) /\ mine.own = "MayOwn" /\ mine.effect = e
        /\ mine.staged = r.staged /\ mine.acked = r.acked
    BY <1>1, <2>1 DEF DispatchRecord, Bound
  <2> HIDE DEF mine
  <2>3. EffectOwned(mine) /\ Given(mine) /\ ~Offered(mine)
    BY <2>1, <2>2 DEF EffectOwned, Given, Offered, Begin
  <2>4. dispatches'[d] = mine
    BY <1>7, UpdateGives
  <2>5. RecordKeeps(d)
    BY <1>3, <1>4, <1>7, <2>2, <2>3, <2>4 DEF RecordKeeps, Bound
  <2>6. ~Fresh(d)'
    BY <1>3, <1>7, <2>3, <2>4 DEF Fresh
  <2>7. DispatchesKeep
    BY <1>7, <2>5, <2>6, UpdateKeeps
  <2>8. RecordsTypeOK'
    BY <1>7, <2>2, RecordTypeStep
  <2> QED BY <1>5, <1>6, <2>7, <2>8, RecordStep
<1>8. CASE Update(d, back) /\ prepared' = prepared \cup {d} /\ r.effect.at = "unwritten"
  <2>1. NoEffect \in Effect
    BY DEF Effect
  <2>2. /\ back \in DispatchRecord /\ back.items = r.items /\ back.own = "Coordinator" /\ back.effect = NoEffect
        /\ back.staged = r.staged /\ back.acked = r.acked
    BY <1>1, <1>3, <2>1 DEF DispatchRecord
  <2> HIDE DEF back
  <2>3. EffectOwned(back) /\ PreparedRests(back) /\ ~Given(r) /\ Fresh(d)
    BY <1>2, <1>3, <1>8, <2>2 DEF EffectOwned, Given, Offered, PreparedRests, NoEffect, Fresh
  <2>4. dispatches'[d] = back
    BY <1>8, UpdateGives
  <2>5. RecordKeeps(d)
    BY <1>4, <2>2, <2>3, <2>4 DEF RecordKeeps
  <2>6. DispatchesKeep
    BY <1>8, <2>3, <2>5, UpdateKeeps
  <2>7. RecordsTypeOK'
    BY <1>8, <2>2, RecordTypeStep
  <2> QED BY <1>5, <1>6, <2>6, <2>7, RecordStep
<1>9. \/ ClassifySubmissionOwnership(r.effect.at) = "MayOwn" /\ Update(d, mine) /\ prepared' = prepared
      \/ /\ ClassifySubmissionOwnership(r.effect.at) = "Coordinator"
         /\ Update(d, back) /\ prepared' = prepared \cup {d}
  BY DEF HandleSubmissionCompletion
<1> QED BY <1>7, <1>8, <1>9 DEF ClassifySubmissionOwnership

(* AdmitPreparedDispatch keeps the invariant.                                *)
LEMMA AdmitStep ==
    ASSUME CustodyInv, NEW d \in Registered, AdmitPreparedDispatch(d)
    PROVE  CustodyInv'
<1> DEFINE r == dispatches[d]
           frozen == r.items \cap index
           g == lane.gen
           bound == [r EXCEPT !.gen = g, !.suppressed = frozen]
           e == Begin("Submission")
           sent == [bound EXCEPT !.effect = e]
<1>1. r \in DispatchRecord /\ d \in Ids
  BY RecordTyped
<1>2. d \in prepared /\ r.own = "Coordinator" /\ r.effect = NoEffect
  BY DEF AdmitPreparedDispatch
<1>3. ~Given(r) /\ Fresh(d) /\ g \in {0} \cup Generations /\ frozen \in SUBSET Items
  BY <1>1, <1>2 DEF Given, Fresh, NoEffect, CustodyInv, CoordinatorTypeOK, ActorTypeOK, DispatchRecord
<1>4. \A j \in r.staged \cup r.acked : FinishedBy(j, d)
  BY DEF CustodyInv, AcksOK
<1>5. UNCHANGED <<job, attempt, request, claim, stream, controls, stage, wire, worker>>
      /\ prepared' = prepared \ {d}
  BY DEF AdmitPreparedDispatch
<1>6. \/ Update(d, bound) /\ lane' = lane
         /\ mutations' = mutations \cup {Mutation("sidecar", j, d) : j \in frozen}
      \/ Update(d, sent) /\ mutations' = mutations
         /\ lane' = [lane EXCEPT !.submitting = d, !.state = "Submitting"]
  BY DEF AdmitPreparedDispatch
<1>61. e \in Effect /\ e.kind = "Submission" /\ e # NoEffect
  BY DEF Effect, Begin, Kinds, NoEffect
<1> HIDE DEF frozen, g, e
<1>7. /\ bound \in DispatchRecord /\ bound.items = r.items /\ bound.own = "Coordinator"
      /\ bound.effect = NoEffect /\ bound.staged = r.staged /\ bound.acked = r.acked
  BY <1>1, <1>2, <1>3 DEF DispatchRecord
<1> HIDE DEF bound
<1>8. /\ sent \in DispatchRecord /\ sent.items = r.items /\ sent.own = "Coordinator"
      /\ sent.effect = e /\ sent.staged = r.staged /\ sent.acked = r.acked
  BY <1>61, <1>7 DEF DispatchRecord
<1> HIDE DEF sent
<1>9. LaneTypeOK'
  BY <1>1, <1>6 DEF CustodyInv, CoordinatorTypeOK, ActorTypeOK, LaneTypeOK
<1>10. EffectOwned(bound) /\ EffectOwned(sent)
  BY <1>61, <1>7, <1>8 DEF EffectOwned, NoEffect
<1>11. CASE Update(d, bound) /\ mutations' = mutations \cup {Mutation("sidecar", j, d) : j \in frozen}
  <2>1. dispatches'[d] = bound /\ d \notin prepared'
    BY <1>5, <1>11, UpdateGives
  <2>2. RecordKeeps(d)
    BY <1>3, <1>4, <1>7, <1>10, <2>1 DEF RecordKeeps
  <2>3. ~Fresh(d)'
    BY <1>7, <2>1 DEF Fresh, Offered, NoEffect, Begin
  <2>4. DispatchesKeep
    BY <1>3, <1>5, <1>11, <2>2, UpdateKeeps
  <2>5. RecordsTypeOK'
    BY <1>7, <1>11, RecordTypeStep
  <2>6. StoreKeeps /\ WorkerKeeps
    BY <1>5, StoreSame, WorkerSame
  <2>7. ~Untouched(d)'
    <3>1. attempt'[d] = "CLAIMED"
      BY <1>3, <1>5 DEF CustodyInv, FreshOK
    <3>2. ~ClaimedNow(d)'
      BY <1>5, ClaimIsNotRegistered DEF ClaimedNow
    <3> QED BY <2>3, <3>1, <3>2 DEF Untouched
  <2>8. worker.dispatch # d
    BY <1>1, <1>3 DEF CustodyInv, UnseenOK, Untouched
  <2>9. \A m \in mutations' : m.kind = "sidecar" =>
           /\ m.dispatch \in Ids
           /\ ~Untouched(m.dispatch) \/ ~Untouched(m.dispatch)'
           /\ worker.dispatch = m.dispatch => ~Executed(m.job)
    <3> SUFFICES ASSUME NEW m \in mutations', m.kind = "sidecar"
          PROVE  /\ m.dispatch \in Ids
                 /\ ~Untouched(m.dispatch) \/ ~Untouched(m.dispatch)'
                 /\ worker.dispatch = m.dispatch => ~Executed(m.job)
      OBVIOUS
    <3>1. CASE m \in mutations
      BY <3>1, OldMutations
    <3>2. CASE m \notin mutations
      <4>1. m.dispatch = d
        BY <1>11, <3>2 DEF Mutation
      <4> QED BY <1>1, <2>7, <2>8, <4>1
    <3> QED BY <3>1, <3>2
  <2>10. Sent' = Sent
    BY <1>5 DEF Sent, SentBy
  <2>11. QueuesKeep
    BY <1>5, <2>9, <2>10, OldControls, OldStreams DEF QueuesKeep
  <2>12. WorkerOK'
    BY <1>5, WorkerOKSame
  <2>13. CoordinatorTypeOK
    BY DEF CustodyInv
  <2>14. ActorTypeOK'
    BY <1>5, <1>9, <2>5, <2>13 DEF CoordinatorTypeOK, ActorTypeOK, LaneTypeOK, RecordsTypeOK
  <2>15. \A j \in frozen : Mutation("sidecar", j, d) \in
           [kind : {"sidecar", "resolved"}, job : Items, dispatch : {0} \cup Ids, at : {"queued"} \cup Outcomes]
    BY <1>1, <1>3 DEF Mutation
  <2>16. QueuesTypeOK'
    BY <1>5, <1>11, <2>13, <2>15 DEF CoordinatorTypeOK, QueuesTypeOK
  <2>17. StoreTypeOK' /\ WorkerTypeOK'
    BY <1>5, <2>13 DEF CoordinatorTypeOK, StoreTypeOK, WorkerTypeOK
  <2>18. CoordinatorTypeOK'
    BY <2>14, <2>16, <2>17 DEF CoordinatorTypeOK
  <2> QED BY <2>4, <2>6, <2>11, <2>12, <2>18, KeepCustody
<1>12. CASE Update(d, sent) /\ mutations' = mutations
  <2>1. dispatches'[d] = sent /\ d \notin prepared'
    BY <1>5, <1>12, UpdateGives
  <2>2. RecordKeeps(d)
    BY <1>3, <1>4, <1>8, <1>10, <2>1 DEF RecordKeeps
  <2>4. DispatchesKeep
    BY <1>3, <1>5, <1>12, <2>2, UpdateKeeps
  <2>5. RecordsTypeOK'
    BY <1>8, <1>12, RecordTypeStep
  <2> QED BY <1>5, <1>9, <1>12, <2>4, <2>5, RecordStep
<1> QED BY <1>6, <1>11, <1>12

(* The submission's end is known to the mailbox thread; a worker that        *)
(* accepted the workset has it from now on.                                  *)
LEMMA SubmissionEnds ==
    ASSUME CustodyInv, NEW d \in Registered, dispatches[d].effect = Begin("Submission"),
           NEW at \in {"written", "unwritten", "unknown"},
           Update(d, [dispatches[d] EXCEPT !.effect.at = at]), prepared' = prepared
    PROVE  /\ DispatchesKeep /\ RecordsTypeOK'
           /\ d \in Registered' /\ Bound(dispatches[d], dispatches'[d])
           /\ at # "unwritten" => ~Fresh(d)' /\ Given(dispatches'[d])
<1> DEFINE r == dispatches[d]
           s == [r EXCEPT !.effect.at = at]
<1>1. r \in DispatchRecord /\ EffectOwned(r) /\ (d \in prepared => PreparedRests(r))
  BY RecordTyped
<1>2. r.effect # NoEffect /\ r.effect.kind = "Submission" /\ r.effect.at = "queued"
  BY DEF Begin, NoEffect
<1> HIDE DEF r
<1>3. LET t == [r EXCEPT !.effect.at = at] IN
      /\ t \in DispatchRecord /\ Kept(r, t) /\ t.own = r.own /\ t.life = r.life
      /\ t.effect = [kind |-> r.effect.kind, at |-> at]
  BY <1>1, <1>2, EffectAtSet
<1> USE DEF r
<1>4. /\ s \in DispatchRecord /\ Kept(r, s) /\ s.own = r.own /\ s.life = r.life
      /\ s.effect = [kind |-> "Submission", at |-> at]
  BY <1>2, <1>3
<1>5. Update(d, s)
  OBVIOUS
<1> HIDE DEF s
<1>6. r.own = "Coordinator" /\ ~Given(r) /\ Fresh(d) /\ d \notin prepared
  BY <1>1, <1>2 DEF EffectOwned, Given, Fresh, Offered, PreparedRests, NoEffect
<1>7. EffectOwned(s)
  BY <1>4, <1>6 DEF EffectOwned
<1>8. dispatches'[d] = s /\ Registered' = Registered
  BY <1>5, UpdateGives
<1>9. \A j \in s.staged \cup s.acked : FinishedBy(j, d)
  BY <1>4 DEF CustodyInv, AcksOK, Kept
<1>10. RecordKeeps(d)
  BY <1>4, <1>6, <1>7, <1>8, <1>9 DEF RecordKeeps, Kept
<1>11. DispatchesKeep
  BY <1>5, <1>6, <1>10, UpdateKeeps
<1>12. RecordsTypeOK'
  BY <1>4, <1>5, RecordTypeStep
<1>13. at # "unwritten" => ~Fresh(d)' /\ Given(s)
  BY <1>4, <1>6, <1>8 DEF Fresh, Offered, Given, Begin
<1>14. Bound(r, s)
  BY <1>4, KeptBound
<1> QED BY <1>8, <1>11, <1>12, <1>13, <1>14

(* A worker that accepts a workset is a worker.                              *)
LEMMA AcceptedTyped ==
    ASSUME CoordinatorTypeOK, NEW d \in Ids
    PROVE  LET w == AcceptWorkset(d) IN
           /\ w \in [gen : Generations, up : BOOLEAN, retire : BOOLEAN, dispatch : {0} \cup Ids,
                     items : [Items -> ItemStates], done : BOOLEAN]
           /\ w.dispatch = d /\ w.gen = worker.gen /\ w.up = worker.up
           /\ \A j \in Items :
                /\ w.items[j] # "acked"
                /\ w.items[j] \in {"waiting", "running"} =>
                     j \in dispatches[d].items \ dispatches[d].suppressed
<1> DEFINE items == [j \in Items |-> IF j \notin dispatches[d].items THEN "none"
                                     ELSE IF j \in dispatches[d].suppressed THEN "suppressed"
                                     ELSE "waiting"]
           w == AcceptWorkset(d)
<1>1. /\ items \in [Items -> ItemStates]
      /\ \A j \in Items :
           /\ items[j] # "acked"
           /\ items[j] \in {"waiting", "running"} =>
                j \in dispatches[d].items \ dispatches[d].suppressed
  BY DEF ItemStates
<1>2. w = [worker EXCEPT !.dispatch = d, !.done = FALSE, !.items = items]
  BY DEF AcceptWorkset
<1> HIDE DEF items, w
<1>3. w \in [gen : Generations, up : BOOLEAN, retire : BOOLEAN, dispatch : {0} \cup Ids,
             items : [Items -> ItemStates], done : BOOLEAN]
      /\ w.dispatch = d /\ w.gen = worker.gen /\ w.up = worker.up /\ w.items = items
  BY <1>1, <1>2 DEF CoordinatorTypeOK, WorkerTypeOK
<1> QED BY <1>1, <1>3 DEF w

(* A worker that accepts the submission keeps the invariant.                 *)
LEMMA AcceptStep ==
    ASSUME CustodyInv, NEW d \in Registered, dispatches[d].effect = Begin("Submission"),
           NEW at \in {"written", "unknown"},
           Update(d, [dispatches[d] EXCEPT !.effect.at = at]),
           worker.up, worker.gen = dispatches[d].gen, worker.dispatch = 0,
           worker' = AcceptWorkset(d), LaneTypeOK',
           UNCHANGED <<job, attempt, request, claim, prepared, stream, controls, mutations, stage, wire>>
    PROVE  CustodyInv'
<1>1. CoordinatorTypeOK /\ d \in Ids /\ dispatches[d] \in DispatchRecord
  BY RecordTyped DEF CustodyInv
<1>2. /\ DispatchesKeep /\ RecordsTypeOK'
      /\ d \in Registered' /\ Bound(dispatches[d], dispatches'[d])
      /\ ~Fresh(d)' /\ Given(dispatches'[d])
  BY SubmissionEnds
<1>3. /\ WorkerTypeOK'
      /\ worker'.dispatch = d /\ worker'.gen = worker.gen /\ worker'.up = worker.up
      /\ \A j \in Items : worker'.items[j] # "acked"
      /\ \A j \in Items : Executed(j)' => j \in dispatches[d].items \ dispatches[d].suppressed
  BY <1>1, AcceptedTyped DEF WorkerTypeOK, CoordinatorTypeOK, Executed
<1>4. StoreKeeps
  BY StoreSame
<1>5. QueuesKeep /\ (QueuesTypeOK => QueuesTypeOK')
  BY QueuesSame
<1>6. CoordinatorTypeOK'
  BY <1>1, <1>2, <1>3, <1>5
     DEF CoordinatorTypeOK, StoreTypeOK, ActorTypeOK, RecordsTypeOK, LaneTypeOK
<1>7. Fresh(d)
  BY DEF Fresh, Offered, Begin
<1>8. attempt[d] = "CLAIMED" /\ \A j \in dispatches[d].items : Taken(j, d)
  BY <1>7 DEF CustodyInv, FreshOK
<1>9. /\ \A e \in Sent : e.dispatch # d
      /\ \A m \in mutations : m.kind = "sidecar" => m.dispatch # d
  BY <1>1, <1>7 DEF CustodyInv, UnseenOK, Untouched
<1>10. Sent' = Sent
  BY DEF Sent, SentBy
<1>11. RecordsOK' /\ JobsOK' /\ ClaimOK' /\ FreshOK'
  BY <1>2, <1>4, <1>6, KeepJobs
<1>12. PersistOK' /\ AcksOK'
  BY <1>2, <1>4, <1>5, <1>6, KeepPersisting, KeepDurable
<1>13. WorkerOK'
  BY <1>1, <1>3 DEF CustodyInv, WorkerOK, Ids
<1>14. ExecutedKnown'
  <2> SUFFICES ASSUME NEW j \in Items, Executed(j)'
      PROVE  /\ d \in Registered'
             /\ Given(dispatches'[d]) /\ dispatches'[d].gen = worker'.gen
             /\ j \in dispatches'[d].items \ dispatches'[d].suppressed
             /\ job'[j].dispatch = d /\ job'[j].state \in {"CLAIMED", "RUNNING"}
    BY <1>3 DEF ExecutedKnown
  <2>1. j \in dispatches[d].items \ dispatches[d].suppressed
    BY <1>3
  <2> QED BY <1>2, <1>3, <1>8, <2>1 DEF Bound, Taken
<1>15. ~Untouched(d)'
  <2>1. ~ClaimedNow(d)'
    BY ClaimIsNotRegistered DEF ClaimedNow
  <2> QED BY <1>2, <1>8, <2>1 DEF Untouched
<1>16. UnseenOK'
  <2> SUFFICES ASSUME NEW e \in Ids, Untouched(e)'
      PROVE  /\ worker'.dispatch # e
             /\ \A x \in Sent' : x.dispatch # e
             /\ stream'[e].events = <<>>
             /\ \A m \in mutations' : m.kind = "sidecar" => m.dispatch # e
    BY DEF UnseenOK
  <2>1. Untouched(e)
    BY <1>2, <1>4, UntouchedBefore
  <2> QED BY <1>3, <1>10, <1>15, <2>1 DEF CustodyInv, UnseenOK
<1>17. ReportsOK'
  <2> SUFFICES ASSUME NEW e \in Sent
      PROVE  ReportOK(e)'
    BY <1>10 DEF ReportsOK
  <2>1. ReportOK(e)
    BY DEF CustodyInv, ReportsOK
  <2>2. ASSUME e.type = "Terminal", e.gen = worker'.gen
        PROVE  ~Executed(e.job)'
    <3> SUFFICES ASSUME Executed(e.job)' PROVE FALSE
      OBVIOUS
    <3>1. e.job \in Items /\ job[e.job].dispatch = e.dispatch
      BY <1>3, <2>1, <2>2 DEF ReportOK
    <3>2. job[e.job].dispatch = d
      BY <1>3, <1>8, <3>1 DEF Taken
    <3> QED BY <1>9, <3>1, <3>2
  <2>3. e.dispatch \in Registered' /\ e.dispatch \in Registered /\ worker.up /\ Given(dispatches[e.dispatch])
           => Given(dispatches'[e.dispatch])
    BY <1>2 DEF DispatchesKeep, RecordKeeps
  <2>4. Registered' \subseteq Registered
    BY <1>2 DEF DispatchesKeep
  <2> QED BY <1>3, <2>1, <2>2, <2>3, <2>4 DEF ReportOK
<1>18. SidecarsOK'
  BY <1>3, <1>9 DEF CustodyInv, SidecarsOK
<1>19. AckedIsDurable'
  BY <1>3 DEF AckedIsDurable
<1> QED BY <1>6, <1>11, <1>12, <1>13, <1>14, <1>16, <1>17, <1>18, <1>19 DEF CustodyInv

(* The mailbox thread's submission, whatever its end, keeps the invariant.   *)
LEMMA SubmitStep ==
    ASSUME CustodyInv, NEW d \in Registered, SubmitWorksetToWorker(d)
    PROVE  CustodyInv'
<1> DEFINE ends(at) == Update(d, [dispatches[d] EXCEPT !.effect.at = at])
           takes == worker.up /\ ~worker.retire /\ worker.gen = dispatches[d].gen /\ worker.dispatch = 0
<1>1. dispatches[d].effect = Begin("Submission")
  BY DEF SubmitWorksetToWorker
<1>2. UNCHANGED <<job, attempt, request, claim, prepared, stream, controls, mutations, stage, wire>>
  BY DEF SubmitWorksetToWorker
<1>3. LaneTypeOK'
  BY LaneSame DEF SubmitWorksetToWorker
<1>4. \/ takes /\ worker' = AcceptWorkset(d) /\ ends("written")
      \/ ends("unwritten") /\ worker' = worker
      \/ ends("unknown") /\ takes /\ worker' = AcceptWorkset(d)
      \/ ends("unknown") /\ worker' = worker
  BY DEF SubmitWorksetToWorker
<1>5. CASE takes /\ worker' = AcceptWorkset(d) /\ ends("written")
  BY <1>1, <1>2, <1>3, <1>5, AcceptStep
<1>6. CASE takes /\ worker' = AcceptWorkset(d) /\ ends("unknown")
  BY <1>1, <1>2, <1>3, <1>6, AcceptStep
<1>7. CASE ends("unwritten") /\ worker' = worker
  <2>1. DispatchesKeep /\ RecordsTypeOK'
    BY <1>1, <1>2, <1>7, SubmissionEnds
  <2> QED BY <1>2, <1>3, <1>7, <2>1, RecordStep
<1>8. CASE ends("unknown") /\ worker' = worker
  <2>1. DispatchesKeep /\ RecordsTypeOK'
    BY <1>1, <1>2, <1>8, SubmissionEnds
  <2> QED BY <1>2, <1>3, <1>8, <2>1, RecordStep
<1> QED BY <1>4, <1>5, <1>6, <1>7, <1>8

-----------------------------------------------------------------------------
(* The store's dispatch transitions and their completions *)

(* The store's answer to a transition ends no more than the effect.          *)
LEMMA IoEnds ==
    ASSUME CustodyInv, NEW d \in Registered,
           dispatches[d].effect.kind \in {"Activation", "MarkDraining", "Release"},
           NEW at \in {"applied", "rejected", "failed"},
           Update(d, [dispatches[d] EXCEPT !.effect.at = at]), prepared' = prepared
    PROVE  DispatchesKeep /\ RecordsTypeOK'
<1> DEFINE r == dispatches[d]
           s == [r EXCEPT !.effect.at = at]
<1>1. r \in DispatchRecord /\ EffectOwned(r)
  BY RecordTyped
<1>2. r.effect # NoEffect
  BY DEF NoEffect
<1>21. at \in {"queued", "retry", "written", "unwritten", "unknown"} \cup Outcomes
  BY DEF Outcomes
<1> HIDE DEF r
<1>3. LET t == [r EXCEPT !.effect.at = at] IN
      /\ t \in DispatchRecord /\ Kept(r, t) /\ t.own = r.own /\ t.life = r.life
      /\ t.effect = [kind |-> r.effect.kind, at |-> at]
  BY <1>1, <1>2, <1>21, EffectAtSet
<1> USE DEF r
<1>4. /\ s \in DispatchRecord /\ Kept(r, s) /\ s.own = r.own /\ s.life = r.life
      /\ s.effect.kind = r.effect.kind
  BY <1>3
<1>5. Update(d, s)
  OBVIOUS
<1> HIDE DEF s
<1>6. Quiet(r, s)
  BY <1>1, <1>4, AtQuiet
<1>7. Durable(d, s)
  BY <1>4 DEF Durable, Kept, CustodyInv, AcksOK
<1> QED BY <1>4, <1>5, <1>6, <1>7, QuietUpdate, RecordTypeStep

(* Returned jobs are either interrupted or queued again. *)
LEMMA Returned ==
    ASSUME StoreTypeOK, NEW D \in SUBSET Ids
    PROVE  LET new == ReturnJobs(D) IN
           /\ new \in [Items -> [state : JobStates, dispatch : {0} \cup Ids]]
           /\ \A j \in Items :
                \/ new[j] = job[j]
                \/ /\ job[j].state \in {"CLAIMED", "RUNNING"} /\ job[j].dispatch \in D
                   /\ \/ new[j] = [state |-> "QUEUED", dispatch |-> 0]
                      \/ new[j].state = "INTERRUPTED" /\ new[j].dispatch = job[j].dispatch
<1> DEFINE new == ReturnJobs(D)
<1>1. ASSUME NEW j \in Items
      PROVE  /\ new[j] \in [state : JobStates, dispatch : {0} \cup Ids]
             /\ \/ new[j] = job[j]
                \/ /\ job[j].state \in {"CLAIMED", "RUNNING"} /\ job[j].dispatch \in D
                   /\ \/ new[j] = [state |-> "QUEUED", dispatch |-> 0]
                      \/ new[j].state = "INTERRUPTED" /\ new[j].dispatch = job[j].dispatch
  <2>1. job[j] \in [state : JobStates, dispatch : {0} \cup Ids]
    BY DEF StoreTypeOK
  <2>2. CASE j \notin UNION {Holds(d) : d \in D}
    BY <2>1, <2>2 DEF ReturnJobs
  <2>3. CASE j \in UNION {Holds(d) : d \in D}
    <3>1. PICK d \in D : j \in Holds(d)
      BY <2>3
    <3>2. job[j].state \in {"CLAIMED", "RUNNING"} /\ job[j].dispatch \in D
      BY <3>1 DEF Holds
    <3>3. \/ new[j] = [state |-> "QUEUED", dispatch |-> 0]
          \/ new[j] = [job[j] EXCEPT !.state = "INTERRUPTED"]
      BY <2>3 DEF ReturnJobs
    <3> QED BY <2>1, <3>2, <3>3 DEF JobStates
  <2> QED BY <2>2, <2>3
<1>2. new = [j \in Items |-> new[j]]
  BY DEF ReturnJobs
<1> HIDE DEF new
<1> QED BY <1>1, <1>2 DEF new

(* The store's transitions keep the invariant.                               *)
LEMMA CoordinationIoStep ==
    ASSUME CustodyInv, NEW d \in Registered, CoordinationIo(d)
    PROVE  CustodyInv'
<1> DEFINE r == dispatches[d]
<1>1. r \in DispatchRecord /\ EffectOwned(r) /\ d \in Ids /\ StoreTypeOK
  BY RecordTyped DEF CustodyInv, CoordinatorTypeOK
<1>2. PICK at \in {"applied", "rejected", "failed"} : Update(d, [r EXCEPT !.effect.at = at])
  BY DEF CoordinationIo
<1>3. UNCHANGED <<claim, prepared, lane, stream, controls, mutations, stage, wire, worker>>
  BY DEF CoordinationIo
<1>4. \/ r.effect.kind = "Activation" /\ MarkWorksetActive(d)
      \/ r.effect.kind = "MarkDraining" /\ MarkWorksetDraining(d)
      \/ r.effect.kind = "Release" /\ ReleaseWorksetDispatch(d)
  BY DEF CoordinationIo, Begin
<1>5. DispatchesKeep /\ RecordsTypeOK'
  BY <1>2, <1>3, <1>4, IoEnds
<1>6. ~Untouched(d)
  BY <1>4, WorkingIsTouched
<1>7. /\ \A e \in Ids : e # d => attempt'[e] = attempt[e]
      /\ attempt' \in [Ids -> AttemptStates] /\ request' = request
      /\ attempt'[d] = "none" => attempt[d] = "none"
  BY <1>1, <1>4 DEF MarkWorksetActive, MarkWorksetDraining, ReleaseWorksetDispatch, StoreTypeOK,
                    AttemptStates
<1>8. /\ job' \in [Items -> [state : JobStates, dispatch : {0} \cup Ids]]
      /\ \A j \in Items : JobKeeps(j)
  <2>1. CASE job' = job
    BY <1>1, <2>1 DEF StoreTypeOK, JobKeeps
  <2>2. CASE r.effect.kind = "Release" /\ job' = ReturnJobs({d})
    <3>1. /\ job' \in [Items -> [state : JobStates, dispatch : {0} \cup Ids]]
          /\ \A j \in Items :
                \/ job'[j] = job[j]
                \/ /\ job[j].state \in {"CLAIMED", "RUNNING"} /\ job[j].dispatch = d
                   /\ \/ job'[j] = [state |-> "QUEUED", dispatch |-> 0]
                      \/ job'[j].state = "INTERRUPTED" /\ job'[j].dispatch = job[j].dispatch
      BY <1>1, <2>2, Returned
    <3>2. ~Given(r)
      BY <1>1, <2>2 DEF EffectOwned, Given
    <3>3. \A j \in Items : Executed(j) => worker.dispatch # d
      BY <3>2, NotGivenIsIdle
    <3>4. \A j \in Items : Executed(j) => worker.dispatch = job[j].dispatch
      BY DEF CustodyInv, ExecutedKnown
    <3>5. d # 0
      BY <1>1 DEF Ids
    <3>6. ASSUME NEW j \in Items
          PROVE  JobKeeps(j)
      <4>1. CASE job'[j] = job[j]
        BY <4>1 DEF JobKeeps
      <4>2. CASE job'[j] # job[j]
        BY <1>6, <3>1, <3>2, <3>3, <3>4, <3>5, <4>2 DEF JobKeeps
      <4> QED BY <4>1, <4>2
    <3> QED BY <3>1, <3>6
  <2> QED BY <1>4, <2>1, <2>2 DEF MarkWorksetActive, MarkWorksetDraining, ReleaseWorksetDispatch
<1>9. StoreKeeps
  BY <1>3, <1>6, <1>7, <1>8 DEF StoreKeeps, CustodyInv, ClaimOK
<1>10. StoreTypeOK'
  BY <1>1, <1>7, <1>8 DEF StoreTypeOK
<1>11. WorkerKeeps /\ WorkerOK'
  BY <1>3, WorkerSame, WorkerOKSame
<1>12. QueuesKeep /\ (QueuesTypeOK => QueuesTypeOK')
  BY <1>3, QueuesSame
<1>13. CoordinatorTypeOK'
  BY <1>3, <1>5, <1>10, <1>12
     DEF CustodyInv, CoordinatorTypeOK, ActorTypeOK, RecordsTypeOK, WorkerTypeOK
<1> QED BY <1>5, <1>9, <1>11, <1>12, <1>13, KeepCustody

(* MaybeRetire of a record on which a handler only takes notes. *)
LEMMA RetireStep ==
    ASSUME CustodyInv, NEW d \in Registered, NEW s \in DispatchRecord, MaybeRetire(d, s),
           Quiet(dispatches[d], s), s.staged = dispatches[d].staged, s.acked = dispatches[d].acked,
           UNCHANGED <<job, attempt, request, claim, prepared, stream, controls, mutations, stage, wire,
                       worker>>
    PROVE  CustodyInv'
<1>1. Durable(d, s)
  BY DEF Durable, CustodyInv, AcksOK
<1>2. DispatchesKeep /\ LaneTypeOK' /\ RecordsTypeOK'
  BY <1>1, MaybeRetireKeeps
<1> QED BY <1>2, RecordStep

(* HandleDrainingIoCompletion keeps the invariant.                           *)
LEMMA DrainingCompletionStep ==
    ASSUME CustodyInv, NEW d \in Registered, HandleDrainingIoCompletion(d)
    PROVE  CustodyInv'
<1> DEFINE r == dispatches[d]
           idle == [r EXCEPT !.effect = NoEffect]
           e == Retry("MarkDraining")
           again == [r EXCEPT !.effect = e]
           b == r.drained \/ (r.own = "Worker" /\ r.life = "Draining")
           marked == [idle EXCEPT !.drained = b]
<1>1. r \in DispatchRecord /\ EffectOwned(r)
  BY RecordTyped
<1>2. r.effect.kind = "MarkDraining"
  BY DEF HandleDrainingIoCompletion
<1>3. UNCHANGED <<job, attempt, request, claim, prepared, stream, controls, mutations, stage, wire,
                  worker>>
  BY DEF HandleDrainingIoCompletion
<1>4. NoEffect \in Effect /\ e \in Effect /\ e.kind = "MarkDraining" /\ b \in BOOLEAN
  BY <1>1 DEF Effect, Retry, Kinds, DispatchRecord
<1>5. \/ Update(d, again) /\ lane' = lane
      \/ MaybeRetire(d, [idle EXCEPT !.drained = @ \/ (r.own = "Worker" /\ r.life = "Draining")])
      \/ Update(d, idle) /\ lane' = lane
  BY DEF HandleDrainingIoCompletion
<1>6. \/ Update(d, again) /\ lane' = lane
      \/ MaybeRetire(d, marked)
      \/ Update(d, idle) /\ lane' = lane
  <2>1. idle.drained = r.drained
    BY <1>1 DEF DispatchRecord
  <2>2. [idle EXCEPT !.drained = @ \/ (r.own = "Worker" /\ r.life = "Draining")] = marked
    BY <1>1, <2>1 DEF DispatchRecord
  <2> QED BY <1>5, <2>2
<1> HIDE DEF e, b
<1>7. idle \in DispatchRecord /\ Kept(r, idle) /\ idle.own = r.own /\ idle.effect = NoEffect
  BY <1>1, <1>4, EffectSet
<1>8. /\ again \in DispatchRecord /\ Kept(r, again) /\ again.own = r.own /\ again.life = r.life
      /\ again.effect = e
  BY <1>1, <1>4, EffectSet
<1> HIDE DEF idle, again
<1>9. Quiet(r, idle) /\ Quiet(r, again)
  BY <1>1, <1>2, <1>4, <1>7, <1>8, KeptBound, EndsQuiet, AtQuiet
<1>10. /\ marked \in DispatchRecord /\ Bound(idle, marked) /\ marked.own = idle.own
       /\ marked.effect = NoEffect /\ marked.staged = idle.staged /\ marked.acked = idle.acked
  BY <1>4, <1>7 DEF DispatchRecord, Bound
<1> HIDE DEF marked
<1>11. Quiet(r, marked)
  BY <1>1, <1>2, <1>7, <1>10, EndsQuiet DEF Kept, Bound
<1>12. CASE MaybeRetire(d, marked)
  BY <1>3, <1>7, <1>10, <1>11, <1>12, RetireStep DEF Kept
<1>13. CASE Update(d, again) /\ lane' = lane
  BY <1>3, <1>8, <1>9, <1>13, LaneSame, QuietStep
<1>14. CASE Update(d, idle) /\ lane' = lane
  BY <1>3, <1>7, <1>9, <1>14, LaneSame, QuietStep
<1> QED BY <1>6, <1>12, <1>13, <1>14

(* HandleReleaseIoCompletion keeps the invariant: a released dispatch is one *)
(* no worker has.                                                            *)
LEMMA ReleaseCompletionStep ==
    ASSUME CustodyInv, NEW d \in Registered, HandleReleaseIoCompletion(d)
    PROVE  CustodyInv'
<1> DEFINE r == dispatches[d]
           e == Retry("Release")
           again == [r EXCEPT !.effect = e]
           closed == [r EXCEPT !.own = "Closed", !.effect = NoEffect, !.released = TRUE, !.contain = "none"]
<1>1. r \in DispatchRecord /\ EffectOwned(r)
  BY RecordTyped
<1>2. r.effect.kind = "Release" /\ r.own = "Coordinator" /\ ~Given(r)
  BY <1>1 DEF HandleReleaseIoCompletion, EffectOwned, Given
<1>3. UNCHANGED <<job, attempt, request, claim, stream, controls, mutations, stage, wire, worker>>
  BY DEF HandleReleaseIoCompletion
<1>4. NoEffect \in Effect /\ e \in Effect /\ e.kind = "Release"
  BY DEF Effect, Retry, Kinds
<1>5. \/ Update(d, again) /\ lane' = lane /\ prepared' = prepared
      \/ /\ lane' = ClearWorkerIdentity(r, d) /\ prepared' = prepared \ {d}
         /\ Update(d, closed) \/ RemoveDispatch(d)
  BY DEF HandleReleaseIoCompletion
<1> HIDE DEF e
<1>6. CASE Update(d, again) /\ lane' = lane /\ prepared' = prepared
  <2>1. /\ again \in DispatchRecord /\ Kept(r, again) /\ again.own = r.own /\ again.life = r.life
        /\ again.effect = e
    BY <1>1, <1>4, EffectSet
  <2> HIDE DEF again
  <2>2. Quiet(r, again)
    BY <1>1, <1>2, <1>4, <2>1, AtQuiet
  <2> QED BY <1>3, <1>6, <2>1, <2>2, LaneSame, QuietStep
<1>7. CASE lane' = ClearWorkerIdentity(r, d) /\ prepared' = prepared \ {d} /\ Update(d, closed)
  <2>1. /\ closed \in DispatchRecord /\ Bound(r, closed) /\ closed.own = "Closed"
        /\ closed.effect = NoEffect /\ closed.staged = r.staged /\ closed.acked = r.acked
    BY <1>1, <1>4 DEF DispatchRecord, Bound
  <2> HIDE DEF closed
  <2>2. dispatches'[d] = closed /\ d \notin prepared'
    BY <1>7, UpdateGives
  <2>3. EffectOwned(closed) /\ ~Offered(closed)
    BY <2>1 DEF EffectOwned, Offered, NoEffect, Begin
  <2>4. \A j \in closed.staged \cup closed.acked : FinishedBy(j, d)
    BY <2>1 DEF CustodyInv, AcksOK
  <2>5. RecordKeeps(d)
    BY <1>2, <2>1, <2>2, <2>3, <2>4 DEF RecordKeeps, Bound
  <2>6. ~Fresh(d)'
    BY <2>2, <2>3 DEF Fresh
  <2>7. DispatchesKeep
    BY <1>7, <2>5, <2>6, UpdateKeeps
  <2>8. RecordsTypeOK' /\ LaneTypeOK'
    BY <1>7, <2>1, RecordTypeStep, LaneCleared
  <2> QED BY <1>3, <2>7, <2>8, RecordStep
<1>8. CASE lane' = ClearWorkerIdentity(r, d) /\ prepared' = prepared \ {d} /\ RemoveDispatch(d)
  <2>1. DispatchesKeep
    BY <1>2, <1>8, NotGivenIsIdle, RemoveKeeps
  <2>2. RecordsTypeOK' /\ LaneTypeOK'
    BY <1>8, RecordsLeftTyped, LaneCleared DEF RecordsTypeOK, CustodyInv, CoordinatorTypeOK
  <2> QED BY <1>3, <2>1, <2>2, RecordStep
<1> QED BY <1>5, <1>6, <1>7, <1>8

(* ApplyFaultDispatch keeps the invariant.                                   *)
LEMMA FaultStep ==
    ASSUME CustodyInv, NEW d \in Ids, ApplyFaultDispatch(d)
    PROVE  CustodyInv'
<1>1. UNCHANGED <<job, attempt, request, claim, prepared, lane, controls, stream, mutations, stage, wire>>
  BY DEF ApplyFaultDispatch
<1>2. LaneTypeOK'
  BY <1>1, LaneSame
<1>3. CASE d \notin Registered
  <2>1. dispatches' = dispatches /\ worker' = worker
    BY <1>3 DEF ApplyFaultDispatch
  <2>2. DispatchesKeep
    BY <1>1, <2>1, SameKeeps
  <2>3. RecordsTypeOK'
    BY <2>1 DEF RecordsTypeOK, Registered, CustodyInv, CoordinatorTypeOK, ActorTypeOK
  <2> QED BY <1>1, <1>2, <2>1, <2>2, <2>3, RecordStep
<1>4. CASE d \in Registered
  <2> DEFINE r == dispatches[d]
             retire == r.own \in {"MayOwn", "Worker"}
             c == IF retire THEN "retire" ELSE "release"
             f == [r EXCEPT !.life = "Faulted", !.keep = retire, !.contain = c]
             s == ContinueContainment(f)
  <2>1. r \in DispatchRecord /\ EffectOwned(r)
    BY <1>4, RecordTyped
  <2>2. Update(d, s) /\ worker' \in {worker, Retire(worker, r.gen)}
    BY <1>4 DEF ApplyFaultDispatch
  <2>3. retire \in BOOLEAN /\ c \in {"retire", "release"}
    OBVIOUS
  <2> HIDE DEF retire, c
  <2>4. f \in DispatchRecord /\ f.own = r.own /\ f.effect = r.effect /\ f.life = "Faulted"
        /\ f.items = r.items /\ f.gen = r.gen /\ f.suppressed = r.suppressed
        /\ f.staged = r.staged /\ f.acked = r.acked
        /\ f.persisted = r.persisted /\ f.drained = r.drained /\ f.pending = r.pending
    BY <2>1, <2>3 DEF DispatchRecord
  <2> HIDE DEF f
  <2>5. EffectOwned(f)
    BY <2>1, <2>4 DEF EffectOwned
  <2>6. Quiet(r, f)
    BY <2>4, <2>5 DEF Quiet, Given, Offered, PreparedRests
  <2>7. s \in DispatchRecord /\ Kept(f, s) /\ Quiet(f, s)
    BY <2>4, <2>5, ContainmentTyped, ContainmentKeeps, ContainmentQuiet
  <2> HIDE DEF s
  <2>8. Quiet(r, s) /\ Kept(r, s)
    BY <2>4, <2>6, <2>7, QuietQuiet DEF Kept
  <2> QED BY <1>1, <1>2, <1>4, <2>2, <2>7, <2>8, QuietStep
<1> QED BY <1>3, <1>4

(* EnqueuePersistence keeps the first event of the stream, and adds no other *)
(* than the given ones.                                                      *)
LEMMA EnqueueGives ==
    ASSUME NEW s \in StreamRecord, NEW es \in Seq(EventRecord)
    PROVE  LET t == Enqueue(s, es) IN
           /\ t \in StreamRecord /\ t.buffered = s.buffered /\ t.io = s.io
           /\ Range(t.events) \subseteq Range(s.events) \cup Range(es)
           /\ s.events # <<>> => t.events # <<>> /\ Head(t.events) = Head(s.events)
<1> DEFINE a == s.events
           q == a \o es
           n == IF Overflows(s, es) THEN EvidenceLimit ELSE Len(q)
           u == SubSeq(q, 1, n)
           t == Enqueue(s, es)
<1>1. a \in Seq(EventRecord)
  BY DEF StreamRecord
<1>2. /\ q \in Seq(EventRecord) /\ Len(q) = Len(a) + Len(es)
      /\ \A i \in 1 .. Len(a) : q[i] = a[i]
      /\ \A i \in Len(a) + 1 .. Len(q) : q[i] = es[i - Len(a)]
  BY <1>1
<1>3. n \in 0 .. Len(q) /\ (Len(a) > 0 => n > 0)
  BY <1>1, <1>2, DispatchAssumption DEF Overflows
<1>4. t = [s EXCEPT !.events = u]
  BY DEF Enqueue
<1> HIDE DEF q, n
<1>5. /\ u \in Seq(EventRecord) /\ Len(u) = n
      /\ \A i \in 1 .. n : u[i] = q[i]
  BY <1>2, <1>3
<1> HIDE DEF u, t
<1>6. t \in StreamRecord /\ t.buffered = s.buffered /\ t.io = s.io /\ t.events = u
  BY <1>4, <1>5 DEF StreamRecord
<1>7. ASSUME NEW x \in Range(u)
      PROVE  x \in Range(a) \cup Range(es)
  <2>1. PICK i \in 1 .. n : x = u[i]
    BY <1>3, <1>5 DEF Range
  <2>2. x = q[i] /\ i \in 1 .. Len(q)
    BY <1>2, <1>3, <1>5, <2>1
  <2>3. CASE i \in 1 .. Len(a)
    BY <1>1, <1>2, <2>2, <2>3 DEF Range
  <2>4. CASE i \in Len(a) + 1 .. Len(q)
    <3>1. i - Len(a) \in 1 .. Len(es) /\ x = es[i - Len(a)]
      BY <1>1, <1>2, <2>2, <2>4
    <3> QED BY <3>1 DEF Range
  <2> QED BY <1>1, <1>2, <2>2, <2>3, <2>4
<1>8. a # <<>> => u # <<>> /\ Head(u) = Head(a)
  <2> SUFFICES ASSUME a # <<>> PROVE u # <<>> /\ Head(u) = Head(a)
    OBVIOUS
  <2>1. Len(a) > 0
    BY <1>1
  <2>2. n > 0 /\ u[1] = a[1]
    BY <1>1, <1>2, <1>3, <1>5, <2>1
  <2> QED BY <1>1, <1>5, <2>1, <2>2
<1> QED BY <1>6, <1>7, <1>8 DEF t

(* Flushing the buffered evidence adds only that evidence, behind what       *)
(* waits.                                                                    *)
LEMMA FlushGives ==
    ASSUME NEW s \in StreamRecord
    PROVE  LET t == FlushBufferedEvidence(s) IN
           /\ t \in StreamRecord /\ t.io = s.io
           /\ Range(t.events) \cup Range(t.buffered) \subseteq Range(s.events) \cup Range(s.buffered)
           /\ s.events # <<>> => t.events # <<>> /\ Head(t.events) = Head(s.events)
<1> DEFINE q == Enqueue(s, s.buffered)
           t == FlushBufferedEvidence(s)
<1>1. s.buffered \in Seq(EventRecord)
  BY DEF StreamRecord
<1>2. /\ q \in StreamRecord /\ q.io = s.io
      /\ Range(q.events) \subseteq Range(s.events) \cup Range(s.buffered)
      /\ s.events # <<>> => q.events # <<>> /\ Head(q.events) = Head(s.events)
  BY <1>1, EnqueueGives
<1>3. t = [q EXCEPT !.buffered = <<>>]
  BY DEF FlushBufferedEvidence
<1> DEFINE none == <<>>
<1>31. none \in Seq(EventRecord) /\ Range(none) = {}
  BY DEF Range
<1>32. t = [q EXCEPT !.buffered = none]
  BY <1>3
<1> HIDE DEF q, t, none
<1>4. t \in StreamRecord /\ t.io = q.io /\ t.events = q.events /\ t.buffered = none
  BY <1>2, <1>31, <1>32 DEF StreamRecord
<1> QED BY <1>2, <1>31, <1>4 DEF t

(* A stream that changes only for dispatches that have left the coordinator, *)
(* without losing what its store call is for.                                *)
LEMMA StreamChanged ==
    ASSUME CustodyInv, NEW d \in Ids, NEW t \in StreamRecord, stream' = [stream EXCEPT ![d] = t],
           ~Untouched(d) \/ t.events = stream[d].events
    PROVE  /\ stream' \in [Ids -> StreamRecord]
           /\ \A e \in Ids : Untouched(e) => stream'[e].events = <<>>
           /\ \A e \in Ids : e # d /\ stream'[e].io # "none" => StreamKeeps(e)
           /\ \A e \in Ids : e # d => SentBy(e)' = SentBy(e)
           /\ SentBy(d)' = Range(t.events) \cup Range(t.buffered)
           /\ stream'[d] = t
<1>1. stream \in [Ids -> StreamRecord]
  BY DEF CustodyInv, CoordinatorTypeOK, QueuesTypeOK
<1>2. /\ stream' \in [Ids -> StreamRecord] /\ stream'[d] = t
      /\ \A e \in Ids : e # d => stream'[e] = stream[e]
  BY <1>1
<1>3. \A e \in Ids : stream[e].io # "none" => stream[e].events # <<>>
  BY DEF CustodyInv, PersistOK, Persisting, HasEvidence
<1>4. \A e \in Ids : Untouched(e) => stream[e].events = <<>>
  BY DEF CustodyInv, UnseenOK
<1> QED BY <1>2, <1>3, <1>4 DEF SentBy, StreamKeeps

(* An activation that was applied keeps the invariant.                       *)
LEMMA ActivatedStep ==
    ASSUME CustodyInv, NEW d \in Registered, dispatches[d].effect.kind = "Activation",
           dispatches[d].life # "Faulted", Activated(d),
           UNCHANGED <<job, attempt, request, claim, prepared, stage, wire>>
    PROVE  CustodyInv'
<1> DEFINE r == dispatches[d]
           life == IF r.observed THEN "Draining" ELSE "Active"
           active == [r EXCEPT !.own = "Worker", !.effect = NoEffect, !.pending = {}, !.life = life]
           flushed == IF Overflows(stream[d], stream[d].buffered) THEN ReleaseDispatch(active, FALSE)
                      ELSE active
           after == IF r.observed THEN MarkDispatchDraining(flushed) ELSE flushed
           s == ContinueContainment(after)
           t == FlushBufferedEvidence(stream[d])
<1>1. r \in DispatchRecord /\ EffectOwned(r) /\ d \in Ids /\ stream[d] \in StreamRecord
  BY RecordTyped DEF CustodyInv, CoordinatorTypeOK, QueuesTypeOK
<1>2. r.own = "MayOwn" /\ ~Untouched(d)
  BY <1>1, WorkingIsTouched DEF EffectOwned
<1>3. /\ Update(d, s) /\ stream' = [stream EXCEPT ![d] = FlushBufferedEvidence(@)]
      /\ mutations' = mutations \cup {Mutation("sidecar", j, d) : j \in r.suppressed}
      /\ controls' \subseteq controls \cup {Control("cancel", d, j) : j \in r.pending}
      /\ worker' = worker
  BY DEF Activated, EnqueueControls
<1>4. LaneTypeOK'
  BY <1>1 DEF Activated, CustodyInv, CoordinatorTypeOK, ActorTypeOK, LaneTypeOK
<1>5. NoEffect \in Effect /\ life \in {"Draining", "Active"}
  BY DEF Effect
<1> HIDE DEF life
<1>6. /\ active \in DispatchRecord /\ active.own = "Worker" /\ active.effect = NoEffect
      /\ Bound(r, active) /\ active.staged = r.staged /\ active.acked = r.acked
  BY <1>1, <1>5 DEF DispatchRecord, Bound
<1> HIDE DEF active
<1>7. EffectOwned(active)
  BY <1>6 DEF EffectOwned, NoEffect
<1>8. Quiet(r, active)
  BY <1>2, <1>6, <1>7, OwnedQuiet DEF Bound
<1>9. flushed \in DispatchRecord /\ Kept(active, flushed) /\ EffectOwned(flushed) /\ Quiet(r, flushed)
  <2>1. CASE flushed = active
    BY <1>6, <1>7, <1>8, <2>1 DEF Kept
  <2>2. CASE flushed = ReleaseDispatch(active, FALSE)
    BY <1>6, <1>7, <1>8, <2>2, ReleaseTyped, ReleaseKeeps, ReleaseQuiet, QuietQuiet DEF Quiet
  <2> QED BY <2>1, <2>2
<1> HIDE DEF flushed
<1>10. after \in DispatchRecord /\ Kept(active, after) /\ EffectOwned(after) /\ Quiet(r, after)
  <2>1. CASE after = flushed
    BY <1>9, <2>1
  <2>2. CASE after = MarkDispatchDraining(flushed)
    BY <1>9, <2>2, DrainingTyped, DrainingKeeps, DrainingQuiet, QuietQuiet, KeptKept DEF Quiet
  <2> QED BY <2>1, <2>2
<1> HIDE DEF after
<1>11. s \in DispatchRecord /\ Kept(active, s) /\ Quiet(r, s)
  BY <1>10, ContainmentTyped, ContainmentKeeps, ContainmentQuiet, QuietQuiet, KeptKept
<1> HIDE DEF s
<1>12. Durable(d, s)
  BY <1>6, <1>11 DEF Durable, Kept, CustodyInv, AcksOK
<1>13. DispatchesKeep /\ RecordsTypeOK'
  BY <1>3, <1>11, <1>12, QuietUpdate, RecordTypeStep
<1>14. StoreKeeps /\ WorkerKeeps /\ WorkerOK'
  BY <1>3, StoreSame, WorkerSame, WorkerOKSame
<1>15. /\ t \in StreamRecord /\ t.io = stream[d].io
       /\ Range(t.events) \cup Range(t.buffered) \subseteq SentBy(d)
       /\ stream[d].events # <<>> => t.events # <<>> /\ Head(t.events) = Head(stream[d].events)
  BY <1>1, FlushGives DEF SentBy
<1>16. stream' = [stream EXCEPT ![d] = t]
  BY <1>1, <1>3 DEF CustodyInv, CoordinatorTypeOK, QueuesTypeOK
<1> HIDE DEF t
<1>17. /\ stream' \in [Ids -> StreamRecord]
       /\ \A e \in Ids : Untouched(e) => stream'[e].events = <<>>
       /\ \A e \in Ids : e # d /\ stream'[e].io # "none" => StreamKeeps(e)
       /\ \A e \in Ids : e # d => SentBy(e)' = SentBy(e)
       /\ SentBy(d)' = Range(t.events) \cup Range(t.buffered)
       /\ stream'[d] = t
  BY <1>1, <1>2, <1>15, <1>16, StreamChanged
<1>18. Sent' \subseteq Sent
  <2>1. \A e \in Ids : SentBy(e)' \subseteq SentBy(e)
    BY <1>15, <1>17
  <2> QED BY <2>1 DEF Sent
<1>19. stream'[d].io # "none" => StreamKeeps(d)
  BY <1>1, <1>15, <1>17 DEF StreamKeeps, CustodyInv, PersistOK, Persisting, HasEvidence
<1>20. \A m \in mutations' : m.kind = "sidecar" =>
           /\ m.dispatch \in Ids
           /\ ~Untouched(m.dispatch) \/ ~Untouched(m.dispatch)'
           /\ worker.dispatch = m.dispatch => ~Executed(m.job)
  <2>1. ASSUME NEW j \in r.suppressed
        PROVE  worker.dispatch = d => ~Executed(j)
    <3>1. j \in Items
      BY <1>1 DEF DispatchRecord
    <3> QED BY <3>1 DEF CustodyInv, ExecutedKnown
  <2>2. ASSUME NEW m \in mutations', m.kind = "sidecar", m \notin mutations
        PROVE  m.dispatch = d /\ m.job \in r.suppressed
    BY <1>3, <2>2 DEF Mutation
  <2> QED BY <1>1, <1>2, <2>1, <2>2, OldMutations
<1>21. \A c \in controls' : c.kind = "ack" => FinishedBy(c.job, c.dispatch)
  BY <1>3, OldControls DEF Control
<1>22. QueuesKeep
  BY <1>17, <1>18, <1>19, <1>20, <1>21 DEF QueuesKeep
<1>23. QueuesTypeOK'
  <2>1. QueuesTypeOK /\ r.suppressed \subseteq Items /\ r.pending \subseteq Items
    BY <1>1 DEF CustodyInv, CoordinatorTypeOK, DispatchRecord
  <2>2. \A j \in r.suppressed : Mutation("sidecar", j, d) \in
           [kind : {"sidecar", "resolved"}, job : Items, dispatch : {0} \cup Ids, at : {"queued"} \cup Outcomes]
    BY <1>1, <2>1 DEF Mutation
  <2>3. \A j \in r.pending : Control("cancel", d, j) \in
           [kind : {"ack", "cancel"}, dispatch : Ids, job : Items, at : {"queued", "done"}]
    BY <1>1, <2>1 DEF Control
  <2>4. controls' \subseteq [kind : {"ack", "cancel"}, dispatch : Ids, job : Items, at : {"queued", "done"}]
    BY <1>3, <2>1, <2>3 DEF QueuesTypeOK
  <2>5. \A c \in controls' : c.at = "done" => c.kind = "ack"
    BY <1>3, <2>1 DEF QueuesTypeOK, Control
  <2> QED BY <1>3, <1>17, <2>1, <2>2, <2>4, <2>5 DEF QueuesTypeOK
<1>24. CoordinatorTypeOK'
  BY <1>3, <1>4, <1>13, <1>23
     DEF CustodyInv, CoordinatorTypeOK, StoreTypeOK, ActorTypeOK, RecordsTypeOK, LaneTypeOK, WorkerTypeOK
<1> QED BY <1>13, <1>14, <1>22, <1>24, KeepCustody

(* HandleActivationIoCompletion keeps the invariant.                         *)
LEMMA ActivationCompletionStep ==
    ASSUME CustodyInv, NEW d \in Registered, HandleActivationIoCompletion(d)
    PROVE  CustodyInv'
<1> DEFINE r == dispatches[d]
           idle == [r EXCEPT !.effect = NoEffect]
           s == ContinueContainment(idle)
           e == Retry("Activation")
           again == [r EXCEPT !.effect = e]
<1>1. r \in DispatchRecord /\ EffectOwned(r)
  BY RecordTyped
<1>2. r.effect.kind = "Activation"
      /\ UNCHANGED <<job, attempt, request, claim, prepared, stage, wire>>
  BY DEF HandleActivationIoCompletion
<1>3. NoEffect \in Effect /\ e \in Effect /\ e.kind = "Activation"
  BY DEF Effect, Retry, Kinds
<1>4. \/ /\ Update(d, s) /\ worker' \in {worker, Retire(worker, r.gen)}
         /\ UNCHANGED <<stream, lane, mutations, controls>>
      \/ Update(d, again) /\ UNCHANGED <<stream, lane, mutations, controls, worker>>
      \/ r.life # "Faulted" /\ Activated(d)
  BY DEF HandleActivationIoCompletion
<1> HIDE DEF e
<1>5. idle \in DispatchRecord /\ Kept(r, idle) /\ idle.own = r.own /\ idle.effect = NoEffect
  BY <1>1, <1>3, EffectSet
<1>6. again \in DispatchRecord /\ Kept(r, again) /\ again.own = r.own /\ again.life = r.life
      /\ again.effect = e
  BY <1>1, <1>3, EffectSet
<1> HIDE DEF idle, again
<1>7. Quiet(r, idle) /\ Quiet(r, again)
  BY <1>1, <1>2, <1>3, <1>5, <1>6, KeptBound, EndsQuiet, AtQuiet
<1>8. s \in DispatchRecord /\ Kept(r, s) /\ Quiet(r, s)
  BY <1>5, <1>7, ContainmentTyped, ContainmentKeeps, ContainmentQuiet, QuietQuiet, KeptKept DEF Quiet
<1> HIDE DEF s
<1>9. CASE Update(d, s) /\ worker' \in {worker, Retire(worker, r.gen)}
           /\ UNCHANGED <<stream, lane, mutations, controls>>
  BY <1>2, <1>8, <1>9, LaneSame, QuietStep
<1>10. CASE Update(d, again) /\ UNCHANGED <<stream, lane, mutations, controls, worker>>
  BY <1>2, <1>6, <1>7, <1>10, LaneSame, QuietStep
<1>11. CASE r.life # "Faulted" /\ Activated(d)
  BY <1>2, <1>11, ActivatedStep
<1> QED BY <1>4, <1>9, <1>10, <1>11

-----------------------------------------------------------------------------
(* The claim *)

(* The id of the attempt a claim makes is one that was not made. *)
LEMMA NextIdIsNew ==
    ASSUME NEW d \in Ids, attempt[d] = "none"
    PROVE  NextId \in Ids /\ attempt[NextId] = "none"
<1> DEFINE S == {e \in Ids : attempt[e] = "none"}
<1>1. S \subseteq Nat /\ S # {}
  BY DispatchAssumption DEF Ids
<1>2. PICK n \in S : \A m \in S : n <= m
  BY <1>1, LeastNat
<1>3. \A e \in 1 .. n - 1 : attempt[e] # "none"
  BY <1>1, <1>2, DispatchAssumption DEF Ids
<1>4. \E e \in Ids : attempt[e] = "none" /\ \A f \in 1 .. e - 1 : attempt[f] # "none"
  BY <1>2, <1>3
<1> QED BY <1>4 DEF NextId

(* The claim's transaction keeps the invariant: it takes queued jobs, for an *)
(* attempt not made before.                                                  *)
LEMMA ClaimIoStep ==
    ASSUME CustodyInv, ClaimIo
    PROVE  CustodyInv'
<1> DEFINE d == NextId
<1>0. CoordinatorTypeOK
  BY DEF CustodyInv
<1>1. PICK S \in SUBSET {j \in Items : job[j].state = "QUEUED"} :
         /\ S # {}
         /\ claim' = [at |-> "done", items |-> S, before |-> Completed]
         /\ job' = [j \in Items |-> IF j \in S THEN [state |-> "CLAIMED", dispatch |-> d] ELSE job[j]]
         /\ attempt' = [attempt EXCEPT ![d] = "CLAIMED"]
  BY DEF ClaimIo
<1>2. claim.at = "queued"
      /\ UNCHANGED <<request, dispatches, prepared, lane, controls, stream, mutations, stage, worker, wire>>
  BY DEF ClaimIo
<1>3. d \in Ids /\ attempt[d] = "none"
  BY <1>2, NextIdIsNew DEF CustodyInv, ClaimOK
<1> HIDE DEF d
<1>4. \A j \in S : job[j].state = "QUEUED" /\ job[j].dispatch = 0 /\ job'[j] = [state |-> "CLAIMED", dispatch |-> d]
  BY <1>1 DEF CustodyInv, JobsOK
<1>5. \A j \in Items : j \notin S => job'[j] = job[j]
  BY <1>1
<1>6. attempt'[d] = "CLAIMED" /\ \A e \in Ids : e # d => attempt'[e] = attempt[e]
  BY <1>0, <1>1, <1>3 DEF CoordinatorTypeOK, StoreTypeOK
<1>7. d \notin Registered \cup prepared /\ \A j \in Items : job[j].dispatch # d
  BY <1>3 DEF CustodyInv, JobsOK
<1>8. Registered' = Registered /\ \A e : Fresh(e)' = Fresh(e)
  BY <1>2 DEF Registered, Fresh
<1>9. d # 0 /\ d \in {0} \cup Ids
  BY <1>3 DEF Ids
<1>10. CoordinatorTypeOK'
  <2>1. StoreTypeOK'
    BY <1>0, <1>1, <1>2, <1>9 DEF CoordinatorTypeOK, StoreTypeOK, JobStates, AttemptStates
  <2>2. Completed \in SUBSET (Ids \X Kinds)
    BY <1>0 DEF Completed, CoordinatorTypeOK, ActorTypeOK
  <2>3. ActorTypeOK'
    BY <1>0, <1>1, <1>2, <1>8, <2>2 DEF CoordinatorTypeOK, ActorTypeOK
  <2> QED BY <1>0, <1>2, <2>1, <2>3 DEF CoordinatorTypeOK, QueuesTypeOK, WorkerTypeOK
<1>11. RecordsOK'
  BY <1>2, <1>8 DEF CustodyInv, RecordsOK
<1>12. WorkerOK'
  BY <1>2 DEF CustodyInv, WorkerOK
<1>13. ASSUME NEW j \in Items, job[j].state # "QUEUED"
       PROVE  job'[j] = job[j]
  BY <1>4, <1>5, <1>13
<1>14. ExecutedKnown'
  BY <1>2, <1>8, <1>13 DEF CustodyInv, ExecutedKnown, Executed
<1>15. JobsOK'
  <2>1. ASSUME NEW e \in Ids, attempt'[e] = "none"
        PROVE  e \notin (Registered \cup prepared)' /\ \A j \in Items : job'[j].dispatch # e
    <3>1. e # d /\ attempt[e] = "none"
      BY <1>6, <2>1
    <3> QED BY <1>2, <1>4, <1>5, <1>8, <3>1 DEF CustodyInv, JobsOK
  <2>2. \A j \in Items : job'[j].state = "QUEUED" <=> job'[j].dispatch = 0
    BY <1>4, <1>5, <1>9 DEF CustodyInv, JobsOK
  <2> QED BY <2>1, <2>2 DEF JobsOK
<1>16. ClaimOK'
  BY <1>1, <1>2, <1>3, <1>4, <1>6, <1>7, <1>8 DEF ClaimOK, Taken
<1>17. FreshOK'
  <2> SUFFICES ASSUME NEW e \in Registered, Fresh(e)
      PROVE  attempt'[e] = "CLAIMED" /\ \A j \in dispatches[e].items : Taken(j, e)'
    BY <1>2, <1>8 DEF FreshOK
  <2>1. attempt[e] = "CLAIMED" /\ \A j \in dispatches[e].items : Taken(j, e)
    BY DEF CustodyInv, FreshOK
  <2>2. e \in Ids /\ dispatches[e].items \subseteq Items
    BY RecordTyped DEF DispatchRecord
  <2> QED BY <1>6, <1>7, <1>13, <2>1, <2>2 DEF Taken
<1>18. ASSUME NEW e \in Ids, Untouched(e)'
       PROVE  Untouched(e)
  <2>1. CASE e = d
    BY <1>3, <2>1 DEF Untouched
  <2>2. CASE e # d
    <3>1. ~ClaimedNow(e)'
      BY <1>1, <1>4, <2>2 DEF ClaimedNow
    <3> QED BY <1>6, <1>8, <1>18, <2>2, <3>1 DEF Untouched
  <2> QED BY <2>1, <2>2
<1>19. Sent' = Sent
  BY <1>2 DEF Sent, SentBy
<1>20. UnseenOK'
  BY <1>2, <1>18, <1>19 DEF CustodyInv, UnseenOK
<1>21. ReportsOK'
  <2> SUFFICES ASSUME NEW e \in Sent PROVE ReportOK(e)'
    BY <1>19 DEF ReportsOK
  <2>1. ReportOK(e)
    BY DEF CustodyInv, ReportsOK
  <2>2. ASSUME e.type \in {"Started", "Terminal"}, e.gen = worker.gen, worker.up
        PROVE  job'[e.job].dispatch = e.dispatch
    <3>1. e.job \in Items /\ job[e.job].dispatch = e.dispatch /\ e.dispatch \in Ids
      BY <2>1, <2>2 DEF ReportOK
    <3>2. job[e.job].dispatch # 0
      BY <3>1 DEF Ids
    <3> QED BY <1>4, <1>5, <3>1, <3>2
  <2> QED BY <1>2, <1>8, <2>1, <2>2 DEF ReportOK, Executed
<1>22. ASSUME NEW j \in Items, NEW e, FinishedBy(j, e)
       PROVE  FinishedBy(j, e)'
  BY <1>13, <1>22 DEF FinishedBy
<1>23. AcksOK'
  <2>1. \A e \in Registered : dispatches[e].staged \cup dispatches[e].acked \subseteq Items
    BY RecordTyped DEF DispatchRecord
  <2>2. \A c \in controls : c.job \in Items
    BY <1>0 DEF CoordinatorTypeOK, QueuesTypeOK
  <2> QED BY <1>2, <1>8, <1>22, <2>1, <2>2 DEF CustodyInv, AcksOK
<1>24. PersistOK'
  <2> SUFFICES ASSUME NEW e \in Ids, stream[e].io # "none" PROVE Persisting(e)'
    BY <1>2 DEF PersistOK
  <2>1. Persisting(e)
    BY DEF CustodyInv, PersistOK
  <2>2. ASSUME stream[e].io = "applied", EvidenceOf(e).type = "Terminal"
        PROVE  job'[EvidenceOf(e).job] = [state |-> "FINISHED", dispatch |-> e]
    <3>1. FinishedBy(EvidenceOf(e).job, e)
      BY <2>1, <2>2 DEF Persisting
    <3>2. EvidenceOf(e) \in Sent
      <4>1. stream[e].events # <<>> /\ stream[e].events \in Seq(EventRecord)
        BY <1>0, <2>1 DEF Persisting, HasEvidence, CoordinatorTypeOK, QueuesTypeOK, StreamRecord
      <4>2. 1 \in DOMAIN stream[e].events /\ EvidenceOf(e) = stream[e].events[1]
        BY <4>1 DEF EvidenceOf
      <4>3. EvidenceOf(e) \in Range(stream[e].events)
        BY <4>2 DEF Range
      <4> QED BY <4>3 DEF Sent, SentBy
    <3>3. EvidenceOf(e).job \in Items
      BY <2>2, <3>2 DEF CustodyInv, ReportsOK, ReportOK
    <3> QED BY <1>22, <3>1, <3>3 DEF FinishedBy
  <2>3. EvidenceOf(e)' = EvidenceOf(e) /\ HasEvidence(e, {"Started", "Terminal"})'
    BY <1>2, <2>1 DEF EvidenceOf, HasEvidence, Persisting
  <2> QED BY <1>2, <1>8, <2>1, <2>2, <2>3 DEF Persisting, FinishedBy
<1>25. SidecarsOK'
  BY <1>2 DEF CustodyInv, SidecarsOK, Executed
<1>26. AckedIsDurable'
  <2>1. \A j \in Items : worker.items[j] = "acked" => FinishedBy(j, worker.dispatch)
    BY DEF CustodyInv, AckedIsDurable, FinishedBy
  <2> QED BY <1>2, <1>22, <2>1 DEF AckedIsDurable, FinishedBy
<1> QED BY <1>10, <1>11, <1>12, <1>14, <1>15, <1>16, <1>17, <1>20, <1>21, <1>23, <1>24, <1>25, <1>26
        DEF CustodyInv

(* The record of a claimed dispatch is typed.                                *)
LEMMA NewDispatchTyped ==
    ASSUME NEW S \in SUBSET Items
    PROVE  /\ NewDispatch(S) \in DispatchRecord
           /\ NewDispatch(S).items = S /\ NewDispatch(S).own = "Coordinator"
           /\ NewDispatch(S).effect = NoEffect
           /\ NewDispatch(S).staged = {} /\ NewDispatch(S).acked = {}
<1>1. NoEffect \in Effect
  BY DEF Effect
<1> QED BY <1>1 DEF NewDispatch, DispatchRecord

(* HandleClaimIoCompletion keeps the invariant.                              *)
LEMMA ClaimCompletionStep ==
    ASSUME CustodyInv, HandleClaimIoCompletion
    PROVE  CustodyInv'
<1> DEFINE d == job[CHOOSE j \in claim.items : TRUE].dispatch
           new == NewDispatch(claim.items)
           e == Begin("Reconstruction")
           rebuilt == [new EXCEPT !.effect = e]
           back == ReleaseDispatch(new, FALSE)
           s == IF IsDispatchAdmissionPaused THEN back ELSE rebuilt
<1>0. CoordinatorTypeOK /\ claim.items \subseteq Items
  BY DEF CustodyInv, CoordinatorTypeOK, ActorTypeOK
<1>1. /\ claim.at = "done" /\ claim' = NoClaim
      /\ dispatches' = [x \in Registered \cup {d} |-> IF x # d THEN dispatches[x] ELSE s]
      /\ UNCHANGED <<job, attempt, request, prepared, lane, controls, stream, mutations, stage, worker, wire>>
  BY DEF HandleClaimIoCompletion
<1>2. PICK x \in Ids : /\ x \notin Registered \cup prepared
                       /\ attempt[x] = "CLAIMED"
                       /\ \A j \in claim.items : Taken(j, x)
  BY <1>1 DEF CustodyInv, ClaimOK
<1>3. claim.items # {}
  BY <1>1 DEF CustodyInv, ClaimOK
<1>4. PICK i \in claim.items : i = (CHOOSE j \in claim.items : TRUE)
  BY <1>3
<1>5. d = x /\ ClaimedNow(x) /\ d \in Ids
  BY <1>1, <1>2, <1>4 DEF Taken, ClaimedNow
<1> HIDE DEF d
<1>6. /\ d \notin Registered \cup prepared /\ attempt[d] = "CLAIMED" /\ Untouched(d)
      /\ \A j \in claim.items : Taken(j, d)
  BY <1>2, <1>5 DEF Untouched
<1>7. /\ new \in DispatchRecord /\ new.items = claim.items /\ new.own = "Coordinator"
      /\ new.effect = NoEffect /\ new.staged = {} /\ new.acked = {}
  BY <1>0, NewDispatchTyped
<1>8. e \in Effect /\ e.kind = "Reconstruction"
  BY DEF Effect, Begin, Kinds
<1> HIDE DEF new, e
<1>9. rebuilt \in DispatchRecord /\ Kept(new, rebuilt) /\ rebuilt.own = new.own /\ rebuilt.effect = e
  BY <1>7, <1>8, EffectSet
<1>10. EffectOwned(new) /\ EffectOwned(rebuilt)
  BY <1>7, <1>8, <1>9 DEF EffectOwned, NoEffect
<1> HIDE DEF rebuilt
<1>11. back \in DispatchRecord /\ Kept(new, back) /\ EffectOwned(back)
  BY <1>7, <1>10, ReleaseTyped, ReleaseKeeps, ReleaseQuiet DEF Quiet
<1> HIDE DEF back
<1>12. /\ s \in DispatchRecord /\ EffectOwned(s)
       /\ s.items = claim.items /\ s.staged = {} /\ s.acked = {}
  BY <1>7, <1>9, <1>10, <1>11 DEF Kept
<1> HIDE DEF s
<1>13. /\ Registered' = Registered \cup {d} /\ dispatches'[d] = s
       /\ \A x2 \in Registered : dispatches'[x2] = dispatches[x2] /\ x2 # d
  BY <1>1, <1>6 DEF Registered
<1>14. CoordinatorTypeOK'
  <2>1. ActorTypeOK'
    BY <1>0, <1>1, <1>5, <1>12, <1>13 DEF CoordinatorTypeOK, ActorTypeOK, NoClaim
  <2> QED BY <1>0, <1>1, <2>1 DEF CoordinatorTypeOK, StoreTypeOK, QueuesTypeOK, WorkerTypeOK
<1>15. RecordsOK'
  BY <1>1, <1>6, <1>12, <1>13 DEF CustodyInv, RecordsOK
<1>16. WorkerOK'
  BY <1>1 DEF CustodyInv, WorkerOK, NoClaim
<1>17. ExecutedKnown'
  BY <1>1, <1>13 DEF CustodyInv, ExecutedKnown, Executed
<1>18. JobsOK'
  BY <1>1, <1>6, <1>13 DEF CustodyInv, JobsOK
<1>19. ClaimOK'
  BY <1>1 DEF ClaimOK, NoClaim
<1>20. \A x2 \in Registered : Fresh(x2)' => Fresh(x2)
  BY <1>1, <1>13 DEF Fresh
<1>21. FreshOK'
  BY <1>1, <1>6, <1>12, <1>13, <1>20 DEF CustodyInv, FreshOK, Taken
<1>22. ASSUME NEW x2 \in Ids, Untouched(x2)'
       PROVE  Untouched(x2)
  <2>1. CASE x2 = d
    BY <1>6, <2>1
  <2>2. CASE x2 # d
    <3>1. ~ClaimedNow(x2)'
      BY <1>1 DEF ClaimedNow, NoClaim
    <3>2. Fresh(x2)' => Fresh(x2)
      BY <1>13, <1>20, <2>2 DEF Fresh
    <3> QED BY <1>1, <1>22, <3>1, <3>2 DEF Untouched
  <2> QED BY <2>1, <2>2
<1>23. Sent' = Sent
  BY <1>1 DEF Sent, SentBy
<1>24. UnseenOK'
  BY <1>1, <1>22, <1>23 DEF CustodyInv, UnseenOK
<1>25. ReportsOK'
  <2> SUFFICES ASSUME NEW y \in Sent PROVE ReportOK(y)'
    BY <1>23 DEF ReportsOK
  <2>1. ReportOK(y) /\ y.dispatch # d
    BY <1>5, <1>6 DEF CustodyInv, ReportsOK, UnseenOK
  <2> QED BY <1>1, <1>13, <2>1 DEF ReportOK, Executed
<1>26. AcksOK'
  BY <1>1, <1>12, <1>13 DEF CustodyInv, AcksOK, FinishedBy
<1>27. PersistOK'
  <2> SUFFICES ASSUME NEW y \in Ids, stream[y].io # "none" PROVE Persisting(y)'
    BY <1>1 DEF PersistOK
  <2>1. Persisting(y)
    BY DEF CustodyInv, PersistOK
  <2>2. y # d
    BY <1>5, <1>6, <2>1 DEF Persisting, HasEvidence, CustodyInv, UnseenOK
  <2>3. EvidenceOf(y)' = EvidenceOf(y) /\ HasEvidence(y, {"Started", "Terminal"})'
    BY <1>1, <2>1 DEF EvidenceOf, HasEvidence, Persisting
  <2> QED BY <1>1, <1>13, <2>1, <2>2, <2>3 DEF Persisting, FinishedBy
<1>28. SidecarsOK' /\ AckedIsDurable'
  BY <1>1 DEF CustodyInv, SidecarsOK, AckedIsDurable, Executed
<1> QED BY <1>14, <1>15, <1>16, <1>17, <1>18, <1>19, <1>21, <1>24, <1>25, <1>26, <1>27, <1>28
        DEF CustodyInv

-----------------------------------------------------------------------------
(* The worker's process *)

(* A worker's event is appended to the wire. *)
LEMMA EventSent ==
    ASSUME CustodyInv, NEW e \in EventRecord, wire' = Append(wire, e), UNCHANGED stream
    PROVE  /\ wire' \in Seq(EventRecord)
           /\ Range(wire)' = Range(wire) \cup {e}
           /\ Sent' = Sent \cup {e}
<1>1. wire \in Seq(EventRecord)
  BY DEF CustodyInv, CoordinatorTypeOK, WorkerTypeOK
<1>2. wire' \in Seq(EventRecord) /\ Len(wire') = Len(wire) + 1
      /\ \A i \in 1 .. Len(wire) : wire'[i] = wire[i]
      /\ wire'[Len(wire) + 1] = e
  BY <1>1
<1>3. Range(wire)' = Range(wire) \cup {e}
  <2>1. ASSUME NEW x \in Range(wire)'
        PROVE  x \in Range(wire) \cup {e}
    <3>1. PICK i \in 1 .. Len(wire) + 1 : x = wire'[i]
      BY <1>1, <1>2, <2>1 DEF Range
    <3> QED BY <1>1, <1>2, <3>1 DEF Range
  <2>2. ASSUME NEW x \in Range(wire) \cup {e}
        PROVE  x \in Range(wire)'
    <3>1. CASE x = e
      <4>1. Len(wire) + 1 \in DOMAIN wire'
        BY <1>1, <1>2
      <4> QED BY <1>2, <3>1, <4>1 DEF Range
    <3>2. CASE x \in Range(wire)
      <4>1. PICK i \in 1 .. Len(wire) : x = wire[i]
        BY <1>1, <3>2 DEF Range
      <4>2. i \in DOMAIN wire' /\ x = wire'[i]
        BY <1>1, <1>2, <4>1
      <4> QED BY <4>2 DEF Range
    <3> QED BY <2>2, <3>1, <3>2
  <2> QED BY <2>1, <2>2
<1> QED BY <1>2, <1>3 DEF Sent, SentBy

(* A step of the worker that sends an event. *)
LEMMA WorkerReports ==
    ASSUME CustodyInv, UNCHANGED <<job, attempt, request, dispatches, claim, prepared, lane, stream,
                                   mutations, stage>>,
           controls' \subseteq controls, WorkerTypeOK', WorkerKeeps, WorkerOK',
           NEW e \in EventRecord, wire' = Append(wire, e),
           ReportOK(e)', e.dispatch \in Ids => ~Untouched(e.dispatch)
    PROVE  CustodyInv'
<1>1. DispatchesKeep /\ StoreKeeps
  BY SameKeeps, StoreSame
<1>2. Sent' = Sent \cup {e}
  BY EventSent
<1>3. QueuesKeep
  BY <1>2, OldControls, OldMutations, OldStreams DEF QueuesKeep
<1>4. CoordinatorTypeOK'
  BY DEF CustodyInv, CoordinatorTypeOK, StoreTypeOK, ActorTypeOK, QueuesTypeOK, Registered
<1> QED BY <1>1, <1>3, <1>4, KeepCustody

(* What a worker executes has left the coordinator. *)
LEMMA ExecutedIsTouched ==
    ASSUME CustodyInv, worker.dispatch \in Ids
    PROVE  ~Untouched(worker.dispatch)
BY DEF CustodyInv, UnseenOK

(* An item is started or ended, and reported. *)
LEMMA ItemStep ==
    ASSUME CustodyInv, NEW j \in Items, Executed(j),
           NEW type \in {"Started", "Terminal"}, NEW x \in {"running", "ended"},
           type = "Terminal" => x = "ended",
           NEW unstarted, unstarted \in BOOLEAN,
           worker' = [worker EXCEPT !.items[j] = x],
           wire' = Append(wire, Event(type, j, unstarted)), controls' \subseteq controls,
           UNCHANGED <<job, attempt, request, dispatches, claim, prepared, lane, stream, mutations, stage>>
    PROVE  CustodyInv'
<1>1. worker.up /\ worker.dispatch \in Ids
  BY ExecutedIsUp DEF CustodyInv
<1>2. WorkerTypeOK
  BY DEF CustodyInv, CoordinatorTypeOK
<1>3. /\ worker' \in [gen : Generations, up : BOOLEAN, retire : BOOLEAN, dispatch : {0} \cup Ids,
                      items : [Items -> ItemStates], done : BOOLEAN]
      /\ worker'.gen = worker.gen /\ worker'.up = worker.up /\ worker'.dispatch = worker.dispatch
      /\ worker'.items[j] = x
      /\ \A i \in Items : i # j => worker'.items[i] = worker.items[i]
  BY <1>2 DEF WorkerTypeOK, ItemStates
<1>40. Event(type, j, unstarted) \in EventRecord
  BY <1>1, <1>2 DEF Event, EventRecord, WorkerTypeOK
<1>41. PICK e \in EventRecord : e = Event(type, j, unstarted) /\ wire' = Append(wire, e)
  BY <1>40
<1>4. e.type = type /\ e.gen = worker.gen /\ e.dispatch = worker.dispatch /\ e.job = j
  BY <1>41 DEF Event
<1>5. WorkerTypeOK'
  BY <1>2, <1>3, <1>4, <1>41, EventSent DEF WorkerTypeOK
<1>6. \A i \in Items : Executed(i)' => Executed(i)
  BY <1>3 DEF Executed
<1>7. \A i \in Items : worker'.items[i] = "acked" => FinishedBy(i, worker'.dispatch)
  BY <1>3 DEF CustodyInv, AckedIsDurable, FinishedBy
<1>8. WorkerKeeps
  BY <1>3, <1>6, <1>7 DEF WorkerKeeps
<1>9. WorkerOK'
  <2>1. Range(wire)' = Range(wire) \cup {e}
    BY <1>4, <1>41, EventSent
  <2>2. worker'.dispatch # 0
    BY <1>1, <1>3 DEF Ids
  <2> QED BY <1>1, <1>3, <1>4, <2>1, <2>2 DEF CustodyInv, WorkerOK
<1>10. ReportOK(e)'
  <2>1. job[j].dispatch = worker.dispatch /\ Given(dispatches[worker.dispatch])
    BY DEF CustodyInv, ExecutedKnown
  <2>2. type = "Terminal" => ~Executed(j)'
    BY <1>3 DEF Executed
  <2>3. worker'.gen \in Nat
    BY <1>3, DispatchAssumption DEF Generations
  <2> QED BY <1>1, <1>3, <1>4, <2>1, <2>2, <2>3 DEF ReportOK
<1>11. ~Untouched(e.dispatch)
  BY <1>1, <1>4, ExecutedIsTouched
<1> QED BY <1>4, <1>41, <1>5, <1>8, <1>9, <1>10, <1>11, WorkerReports

(* The constants of the two reports. *)
LEMMA Reported == FALSE \in BOOLEAN /\ TRUE \in BOOLEAN
OBVIOUS

(* The start of an item keeps the invariant,                                 *)
LEMMA StartItemStep ==
    ASSUME CustodyInv, NEW j \in Items, StartItem(j)
    PROVE  CustodyInv'
<1>1. PICK x \in {"running", "ended"} : x = "running" /\ worker' = [worker EXCEPT !.items[j] = x]
  BY DEF StartItem
<1>2. PICK type \in {"Started", "Terminal"} :
        type = "Started" /\ wire' = Append(wire, Event(type, j, FALSE))
  BY DEF StartItem, Send
<1>3. Executed(j)
      /\ UNCHANGED <<job, attempt, request, dispatches, claim, prepared, lane, stream, mutations, stage, controls>>
  BY DEF StartItem, coordinatorVars, Executed
<1>4. type = "Terminal" => x = "ended"
  BY <1>2
<1> QED BY <1>1, <1>2, <1>3, <1>4, Reported, ItemStep

(* its end too,                                                              *)
LEMMA EndItemStep ==
    ASSUME CustodyInv, NEW j \in Items, EndItem(j)
    PROVE  CustodyInv'
<1>1. Executed(j) /\ worker' = [worker EXCEPT !.items[j] = "ended"]
      /\ wire' = Append(wire, Event("Terminal", j, FALSE))
  BY DEF EndItem, Executed, Send
<1>2. UNCHANGED <<job, attempt, request, dispatches, claim, prepared, lane, stream, mutations, stage, controls>>
  BY DEF EndItem, coordinatorVars
<1> QED BY <1>1, <1>2, Reported, ItemStep

(* and its cancellation, which leaves it unexecuted.                         *)
LEMMA CancelItemStep ==
    ASSUME CustodyInv, NEW c \in controls, CancelWorksetItem(c)
    PROVE  CustodyInv'
<1>1. UNCHANGED <<job, attempt, request, dispatches, claim, prepared, lane, stream, mutations, stage>>
      /\ controls' \subseteq controls
  BY DEF CancelWorksetItem
<1>2. c.job \in Items /\ CoordinatorTypeOK
  BY DEF CustodyInv, CoordinatorTypeOK, QueuesTypeOK
<1>3. CASE worker.items[c.job] = "waiting" /\ worker' = [worker EXCEPT !.items[c.job] = "ended"]
           /\ wire' = Append(wire, Event("Terminal", c.job, TRUE))
  BY <1>1, <1>2, <1>3, Reported, ItemStep DEF Executed
<1>4. CASE UNCHANGED workerVars
  <2>0. worker' = worker /\ wire' = wire
    BY <1>4 DEF workerVars
  <2>1. DispatchesKeep /\ StoreKeeps /\ WorkerKeeps /\ WorkerOK'
    BY <1>1, <2>0, SameKeeps, StoreSame, WorkerSame, WorkerOKSame
  <2>2. Sent' = Sent
    BY <1>1, <2>0 DEF Sent, SentBy
  <2>3. QueuesKeep
    BY <1>1, <2>2, OldControls, OldMutations, OldStreams DEF QueuesKeep
  <2>4. CoordinatorTypeOK'
    BY <1>1, <1>2, <2>0
       DEF CoordinatorTypeOK, StoreTypeOK, ActorTypeOK, QueuesTypeOK, WorkerTypeOK, Registered
  <2> QED BY <2>1, <2>3, <2>4, KeepCustody
<1> QED BY <1>3, <1>4 DEF CancelWorksetItem, Send

(* A worker without a workset executes nothing.                              *)
LEMMA NoItemTyped == NoItem \in [Items -> ItemStates] /\ \A j \in Items : NoItem[j] = "none"
BY DEF NoItem, ItemStates

(* The completion of a workset keeps the invariant.                          *)
LEMMA CompleteStep ==
    ASSUME CustodyInv, CompleteWorkset
    PROVE  CustodyInv'
<1>1. /\ worker' = [worker EXCEPT !.done = TRUE]
      /\ wire' = Append(wire, Event("Completed", 0, FALSE)) /\ worker.dispatch # 0
      /\ UNCHANGED <<job, attempt, request, dispatches, claim, prepared, lane, stream, mutations, stage, controls>>
  BY DEF CompleteWorkset, Send, coordinatorVars
<1>2. WorkerTypeOK /\ WorkerOK
  BY DEF CustodyInv, CoordinatorTypeOK
<1>3. /\ worker' \in [gen : Generations, up : BOOLEAN, retire : BOOLEAN, dispatch : {0} \cup Ids,
                      items : [Items -> ItemStates], done : BOOLEAN]
      /\ worker'.gen = worker.gen /\ worker'.up = worker.up /\ worker'.dispatch = worker.dispatch
      /\ worker'.items = worker.items
  BY <1>1, <1>2 DEF WorkerTypeOK
<1>40. Event("Completed", 0, FALSE) \in EventRecord
  BY <1>2 DEF Event, EventRecord, WorkerTypeOK
<1>41. PICK e \in EventRecord : e = Event("Completed", 0, FALSE) /\ wire' = Append(wire, e)
  BY <1>1, <1>40
<1>4. e.type = "Completed" /\ e.gen = worker.gen /\ e.dispatch = worker.dispatch
  BY <1>41 DEF Event
<1>5. WorkerTypeOK' /\ Range(wire)' = Range(wire) \cup {e}
  BY <1>1, <1>3, <1>41, EventSent DEF WorkerTypeOK
<1>6. WorkerKeeps
  BY <1>3 DEF WorkerKeeps, Executed, CustodyInv, AckedIsDurable, FinishedBy
<1>7. WorkerOK'
  BY <1>1, <1>2, <1>3, <1>4, <1>5 DEF WorkerOK
<1>8. ReportOK(e)'
  BY <1>3, <1>4, DispatchAssumption DEF ReportOK, Generations
<1>9. e.dispatch \in Ids => ~Untouched(e.dispatch)
  BY <1>4, ExecutedIsTouched
<1> QED BY <1>1, <1>41, <1>5, <1>6, <1>7, <1>8, <1>9, WorkerReports

(* The process drops all it has. *)
LEMMA DropStep ==
    ASSUME CustodyInv, NEW e \in EventRecord, WorkerTypeOK',
           worker'.gen = worker.gen, worker'.up => worker.up, worker'.dispatch = 0,
           worker'.items = NoItem, ~worker'.done, wire' = Append(wire, e),
           UNCHANGED <<job, attempt, request, dispatches, claim, prepared, lane, stream, mutations, stage, controls>>,
           e.dispatch = worker.dispatch, e.gen = worker.gen,
           e.type \in {"Unavailable", "Summary"}, e.type = "Unavailable" => ~worker'.up,
           e.type = "Summary" => worker.dispatch \in Ids
    PROVE  CustodyInv'
<1>2. WorkerTypeOK /\ WorkerOK
  BY DEF CustodyInv, CoordinatorTypeOK
<1>5. Range(wire)' = Range(wire) \cup {e}
  BY EventSent
<1>6. WorkerKeeps
  BY NoItemTyped DEF WorkerKeeps, Executed
<1>7. WorkerOK'
  BY <1>2, <1>5 DEF WorkerOK
<1>79. worker.gen \in Generations
  BY <1>2 DEF WorkerTypeOK
<1>80. worker'.gen \in Nat
  <2>1. \A g \in Generations : g \in Nat
    BY DispatchAssumption DEF Generations
  <2> QED BY <1>79, <2>1
<1>8. ReportOK(e)'
  BY <1>80 DEF ReportOK
<1>9. e.dispatch \in Ids => ~Untouched(e.dispatch)
  BY ExecutedIsTouched
<1> QED BY <1>6, <1>7, <1>8, <1>9, WorkerReports

(* What is left of a process that dropped all it had. *)
LEMMA Dropped ==
    ASSUME CustodyInv, NEW e \in EventRecord, wire' = Append(wire, e), UNCHANGED stream,
           NEW w, w = [worker EXCEPT !.dispatch = 0, !.items = NoItem, !.done = FALSE],
           worker' = w \/ worker' = [w EXCEPT !.up = FALSE]
    PROVE  /\ WorkerTypeOK' /\ worker'.gen = worker.gen /\ worker'.dispatch = 0
           /\ worker'.items = NoItem /\ ~worker'.done
           /\ worker' = w => worker'.up = worker.up
           /\ worker' = [w EXCEPT !.up = FALSE] => ~worker'.up
<1>1. WorkerTypeOK
  BY DEF CustodyInv, CoordinatorTypeOK
<1> DEFINE Process == [gen : Generations, up : BOOLEAN, retire : BOOLEAN, dispatch : {0} \cup Ids,
                       items : [Items -> ItemStates], done : BOOLEAN]
<1>2. w \in Process /\ w.gen = worker.gen /\ w.dispatch = 0 /\ w.items = NoItem /\ ~w.done
      /\ w.up = worker.up
  BY <1>1, NoItemTyped DEF WorkerTypeOK
<1>3. LET v == [w EXCEPT !.up = FALSE] IN
      v \in Process /\ v.gen = worker.gen /\ v.dispatch = 0 /\ v.items = NoItem /\ ~v.done /\ ~v.up
  BY <1>2
<1>4. worker' \in Process /\ worker'.gen = worker.gen /\ worker'.dispatch = 0
      /\ worker'.items = NoItem /\ ~worker'.done
  BY <1>2, <1>3
<1>5. wire' \in Seq(EventRecord)
  BY EventSent
<1> QED BY <1>2, <1>3, <1>4, <1>5 DEF WorkerTypeOK

(* The summary keeps the invariant: the worker then has nothing left.        *)
LEMMA SummariseStep ==
    ASSUME CustodyInv, SummariseWorkset
    PROVE  CustodyInv'
<1>1. /\ worker.done /\ wire' = Append(wire, Event("Summary", 0, FALSE))
      /\ UNCHANGED <<job, attempt, request, dispatches, claim, prepared, lane, stream, mutations, stage, controls>>
  BY DEF SummariseWorkset, Send, coordinatorVars
<1>2. WorkerTypeOK /\ WorkerOK
  BY DEF CustodyInv, CoordinatorTypeOK
<1>3. worker.dispatch \in Ids
  BY <1>1, <1>2 DEF WorkerTypeOK, WorkerOK
<1>4. PICK w : w = [worker EXCEPT !.dispatch = 0, !.items = NoItem, !.done = FALSE] /\ worker' = w
  BY DEF SummariseWorkset
<1>40. Event("Summary", 0, FALSE) \in EventRecord
  BY <1>2 DEF Event, EventRecord, WorkerTypeOK
<1>41. PICK e \in EventRecord : e = Event("Summary", 0, FALSE) /\ wire' = Append(wire, e)
  BY <1>1, <1>40
<1>5. e.type = "Summary" /\ e.gen = worker.gen /\ e.dispatch = worker.dispatch
  BY <1>41 DEF Event
<1>6. /\ WorkerTypeOK' /\ worker'.gen = worker.gen /\ worker'.dispatch = 0
      /\ worker'.items = NoItem /\ ~worker'.done /\ worker'.up = worker.up
  BY <1>1, <1>4, <1>41, Dropped
<1>7. e.type \in {"Unavailable", "Summary"} /\ e.type # "Unavailable"
  BY <1>5
<1> QED BY <1>1, <1>3, <1>41, <1>5, <1>6, <1>7, DropStep

(* A worker that dies keeps the invariant: its loss is on the wire behind    *)
(* all it reported.                                                          *)
LEMMA WorkerDiesStep ==
    ASSUME CustodyInv, WorkerDies
    PROVE  CustodyInv'
<1>1. /\ wire' = Append(wire, Event("Unavailable", 0, FALSE))
      /\ UNCHANGED <<job, attempt, request, dispatches, claim, prepared, lane, stream, mutations, stage, controls>>
  BY DEF WorkerDies, Send, coordinatorVars
<1>2. WorkerTypeOK
  BY DEF CustodyInv, CoordinatorTypeOK
<1>4. PICK w : w = [worker EXCEPT !.dispatch = 0, !.items = NoItem, !.done = FALSE]
  OBVIOUS
<1>30. worker' = [worker EXCEPT !.up = FALSE, !.dispatch = 0, !.items = NoItem, !.done = FALSE]
  BY DEF WorkerDies
<1>3. worker' = [w EXCEPT !.up = FALSE]
  BY <1>2, <1>4, <1>30 DEF WorkerTypeOK
<1>40. Event("Unavailable", 0, FALSE) \in EventRecord
  BY <1>2 DEF Event, EventRecord, WorkerTypeOK
<1>41. PICK e \in EventRecord : e = Event("Unavailable", 0, FALSE) /\ wire' = Append(wire, e)
  BY <1>1, <1>40
<1>5. e.type = "Unavailable" /\ e.gen = worker.gen /\ e.dispatch = worker.dispatch
  BY <1>41 DEF Event
<1>6. /\ WorkerTypeOK' /\ worker'.gen = worker.gen /\ worker'.dispatch = 0
      /\ worker'.items = NoItem /\ ~worker'.done /\ ~worker'.up
  BY <1>1, <1>3, <1>4, <1>41, Dropped
<1>7. e.type \in {"Unavailable", "Summary"} /\ e.type # "Summary"
  BY <1>5
<1> QED BY <1>1, <1>41, <1>5, <1>6, <1>7, DropStep

(* The slot's next process starts empty, and nothing is reported of it yet. *)
LEMMA WorkerReadyStep ==
    ASSUME CustodyInv, HandleWorkerReady
    PROVE  CustodyInv'
<1> DEFINE g == worker.gen + 1
<1>0. CoordinatorTypeOK /\ WorkerOK
  BY DEF CustodyInv
<1>1. /\ ~worker.up /\ wire = <<>> /\ stage = "Running" /\ worker.gen < MaxGenerations
      /\ worker' = [worker EXCEPT !.gen = g, !.up = TRUE, !.retire = FALSE]
      /\ lane' = ReadyLane(g)
      /\ UNCHANGED <<job, attempt, request, dispatches, claim, prepared, controls, stream, mutations, stage, wire>>
  BY DEF HandleWorkerReady, Quiescing
<1>2. g \in Generations /\ worker.gen \in Nat
  BY <1>0, <1>1, DispatchAssumption DEF CoordinatorTypeOK, WorkerTypeOK, Generations
<1>3. /\ worker' \in [gen : Generations, up : BOOLEAN, retire : BOOLEAN, dispatch : {0} \cup Ids,
                      items : [Items -> ItemStates], done : BOOLEAN]
      /\ worker'.gen = g /\ worker'.up /\ worker'.dispatch = worker.dispatch
      /\ worker'.items = worker.items /\ worker'.done = worker.done
  BY <1>0, <1>1, <1>2 DEF CoordinatorTypeOK, WorkerTypeOK
<1>4. worker.dispatch = 0 /\ worker.items = NoItem
  BY <1>0, <1>1 DEF WorkerOK
<1>5. \A j \in Items : ~Executed(j)'
  BY <1>3, <1>4, NoItemTyped DEF Executed
<1>6. LaneTypeOK'
  BY <1>1, <1>2 DEF LaneTypeOK, ReadyLane
<1>7. CoordinatorTypeOK'
  BY <1>0, <1>1, <1>3, <1>6
     DEF CoordinatorTypeOK, StoreTypeOK, ActorTypeOK, QueuesTypeOK, WorkerTypeOK, Registered, LaneTypeOK
<1>8. Registered' = Registered /\ Sent' = Sent /\ \A d \in Ids : Untouched(d)' <=> Untouched(d)
  BY <1>1 DEF Registered, Sent, SentBy, Untouched, ClaimedNow, Fresh
<1>9. RecordsOK' /\ JobsOK' /\ ClaimOK' /\ AcksOK'
  BY <1>1, <1>8 DEF CustodyInv, RecordsOK, JobsOK, ClaimOK, AcksOK, Taken, FinishedBy
<1>10. FreshOK'
  BY <1>1, <1>8 DEF CustodyInv, FreshOK, Taken, Fresh
<1>11. WorkerOK'
  <2>1. \A e \in Range(wire)' : FALSE
    BY <1>1 DEF Range
  <2> QED BY <1>0, <1>1, <1>3, <1>4, <2>1 DEF WorkerOK
<1>12. ExecutedKnown' /\ SidecarsOK'
  <2>1. \A m \in mutations : m.job \in Items
    BY <1>0 DEF CoordinatorTypeOK, QueuesTypeOK
  <2> QED BY <1>1, <1>5, <2>1 DEF ExecutedKnown, SidecarsOK, CustodyInv
<1>13. UnseenOK'
  BY <1>1, <1>3, <1>8 DEF CustodyInv, UnseenOK
<1>14. ReportsOK'
  <2> SUFFICES ASSUME NEW e \in Sent PROVE ReportOK(e)'
    BY <1>8 DEF ReportsOK
  <2>1. ReportOK(e)
    BY DEF CustodyInv, ReportsOK
  <2>2. e.gen \in Nat
    <3>1. e \in EventRecord
      <4>1. CASE e \in Range(wire)
        BY <1>0, <4>1 DEF CoordinatorTypeOK, WorkerTypeOK, Range
      <4>2. ASSUME NEW d \in Ids, e \in SentBy(d)
            PROVE  e \in EventRecord
        <5>1. stream[d].events \in Seq(EventRecord) /\ stream[d].buffered \in Seq(EventRecord)
          BY <1>0 DEF CoordinatorTypeOK, QueuesTypeOK, StreamRecord
        <5> QED BY <4>2, <5>1 DEF SentBy, Range
      <4> QED BY <4>1, <4>2 DEF Sent
    <3> QED BY <3>1 DEF EventRecord, Generations
  <2>3. e.gen <= g /\ e.gen # g
    BY <1>2, <2>1, <2>2 DEF ReportOK
  <2> QED BY <1>3, <2>1, <2>3 DEF ReportOK
<1>15. PersistOK'
  BY <1>1, <1>8 DEF CustodyInv, PersistOK, Persisting, HasEvidence, EvidenceOf, FinishedBy
<1>16. AckedIsDurable'
  BY <1>3, <1>4, NoItemTyped DEF AckedIsDurable
<1> QED BY <1>7, <1>9, <1>10, <1>11, <1>12, <1>13, <1>14, <1>15, <1>16 DEF CustodyInv

-----------------------------------------------------------------------------
(* The worker's events, and their persistence *)

(* The first event of a stream. *)
LEMMA EvidenceKnown ==
    ASSUME CustodyInv, NEW d \in Ids, stream[d].events # <<>>
    PROVE  /\ EvidenceOf(d) \in EventRecord /\ EvidenceOf(d) \in Sent /\ ReportOK(EvidenceOf(d))
           /\ ~Untouched(d)
<1>1. stream[d].events \in Seq(EventRecord)
  BY DEF CustodyInv, CoordinatorTypeOK, QueuesTypeOK, StreamRecord
<1>2. 1 \in DOMAIN stream[d].events /\ EvidenceOf(d) = stream[d].events[1]
  BY <1>1 DEF EvidenceOf
<1>3. EvidenceOf(d) \in Range(stream[d].events) /\ EvidenceOf(d) \in EventRecord
  BY <1>1, <1>2 DEF Range
<1>4. EvidenceOf(d) \in Sent
  BY <1>3 DEF Sent, SentBy
<1> QED BY <1>3, <1>4 DEF CustodyInv, ReportsOK, UnseenOK

(* The first event on the wire, and the others. *)
LEMMA ArrivalKnown ==
    ASSUME CustodyInv, wire # <<>>
    PROVE  /\ Head(wire) \in EventRecord /\ Head(wire) \in Range(wire)
           /\ Head(wire) \in Sent /\ ReportOK(Head(wire))
           /\ Tail(wire) \in Seq(EventRecord) /\ Range(Tail(wire)) \subseteq Range(wire)
<1>1. wire \in Seq(EventRecord)
  BY DEF CustodyInv, CoordinatorTypeOK, WorkerTypeOK
<1>2. 1 \in DOMAIN wire /\ Head(wire) = wire[1]
  BY <1>1
<1>3. Head(wire) \in Range(wire) /\ Head(wire) \in EventRecord
  BY <1>1, <1>2 DEF Range
<1>4. Tail(wire) \in Seq(EventRecord) /\ Len(Tail(wire)) = Len(wire) - 1
      /\ \A i \in 1 .. Len(wire) - 1 : Tail(wire)[i] = wire[i + 1]
  BY <1>1
<1>5. ASSUME NEW x \in Range(Tail(wire))
      PROVE  x \in Range(wire)
  <2>1. PICK i \in 1 .. Len(wire) - 1 : x = wire[i + 1]
    BY <1>1, <1>4 DEF Range
  <2>2. i + 1 \in DOMAIN wire
    BY <1>1, <2>1
  <2> QED BY <2>1, <2>2 DEF Range
<1> QED BY <1>3, <1>4, <1>5 DEF Sent, CustodyInv, ReportsOK

(* The wire stays, or its first event has arrived. *)
WireKeeps == wire' = wire \/ (wire # <<>> /\ wire' = Tail(wire))

(* What is on the wire behind the first event was on it before.              *)
LEMMA WireLeft ==
    ASSUME CustodyInv, WireKeeps
    PROVE  wire' \in Seq(EventRecord) /\ Range(wire)' \subseteq Range(wire)
<1>1. CASE wire' = wire
  BY <1>1 DEF CustodyInv, CoordinatorTypeOK, WorkerTypeOK
<1>2. CASE wire # <<>> /\ wire' = Tail(wire)
  BY <1>2, ArrivalKnown
<1> QED BY <1>1, <1>2 DEF WireKeeps

(* A handler that tells nobody anything new leaves the rest as it was. *)
ControlsTypeOK ==
    /\ controls \subseteq [kind : {"ack", "cancel"}, dispatch : Ids, job : Items, at : {"queued", "done"}]
    /\ \A c \in controls : c.at = "done" => c.kind = "ack"
MutationsTypeOK ==
    mutations \subseteq [kind : {"sidecar", "resolved"}, job : Items, dispatch : {0} \cup Ids,
                         at : {"queued"} \cup Outcomes]
Acknowledged(c) == c.kind = "ack" => FinishedBy(c.job, c.dispatch)

(* A handler of the actor that tells nobody anything new keeps the           *)
(* invariant.                                                                *)
LEMMA ActorStep ==
    ASSUME CustodyInv, DispatchesKeep, StoreKeeps, RecordsTypeOK', LaneTypeOK', StoreTypeOK',
           UNCHANGED <<claim, stage, worker>>, WireKeeps,
           ControlsTypeOK', \A c \in controls' : Acknowledged(c),
           MutationsTypeOK', \A m \in mutations' : m \in mutations \/ m.kind # "sidecar",
           stream' \in [Ids -> StreamRecord], UNION {SentBy(d)' : d \in Ids} \subseteq Sent,
           \A d \in Ids : Untouched(d) => stream'[d].events = <<>>,
           \A d \in Ids : stream'[d].io # "none" => StreamKeeps(d) \/ Persisting(d)'
    PROVE  CustodyInv'
<1>1. WorkerKeeps
  BY WorkerSame
<1>2. wire' \in Seq(EventRecord) /\ Range(wire)' \subseteq Range(wire)
  BY WireLeft
<1>3. WorkerOK'
  BY <1>2, WorkerOKSame
<1>4. Sent' \subseteq Sent
  BY <1>2 DEF Sent
<1>5. QueuesKeep
  BY <1>4, OldMutations DEF QueuesKeep, Acknowledged
<1>6. CoordinatorTypeOK'
  BY <1>2 DEF CustodyInv, CoordinatorTypeOK, ActorTypeOK, RecordsTypeOK, LaneTypeOK, QueuesTypeOK,
              ControlsTypeOK, MutationsTypeOK, WorkerTypeOK
<1> QED BY <1>1, <1>3, <1>5, <1>6, KeepCustody

(* What the handlers that touch neither the store nor the streams nor the    *)
(* cancellations have in common.                                             *)
LEMMA SameQueues ==
    ASSUME CustodyInv
    PROVE  /\ UNCHANGED controls => ControlsTypeOK' /\ \A c \in controls' : Acknowledged(c)
           /\ UNCHANGED mutations =>
                MutationsTypeOK' /\ \A m \in mutations' : m \in mutations \/ m.kind # "sidecar"
           /\ UNCHANGED <<job, attempt, request>> => StoreTypeOK'
           /\ UNCHANGED dispatches => RecordsTypeOK'
           /\ UNCHANGED stream =>
                /\ stream' \in [Ids -> StreamRecord] /\ UNION {SentBy(d)' : d \in Ids} \subseteq Sent
                /\ \A d \in Ids : Untouched(d) => stream'[d].events = <<>>
                /\ \A d \in Ids : stream'[d].io # "none" => StreamKeeps(d) \/ Persisting(d)'
<1>0. CoordinatorTypeOK
  BY DEF CustodyInv
<1>1. UNCHANGED controls => ControlsTypeOK' /\ \A c \in controls' : Acknowledged(c)
  BY <1>0, OldControls DEF CoordinatorTypeOK, QueuesTypeOK, ControlsTypeOK, Acknowledged
<1>2. UNCHANGED mutations => MutationsTypeOK'
  BY <1>0 DEF CoordinatorTypeOK, QueuesTypeOK, MutationsTypeOK
<1>3. UNCHANGED <<job, attempt, request>> => StoreTypeOK'
  BY <1>0 DEF CoordinatorTypeOK, StoreTypeOK
<1>4. UNCHANGED dispatches => RecordsTypeOK'
  BY <1>0 DEF CoordinatorTypeOK, ActorTypeOK, RecordsTypeOK, Registered
<1>5. ASSUME UNCHANGED stream
      PROVE  stream' \in [Ids -> StreamRecord] /\ UNION {SentBy(d)' : d \in Ids} \subseteq Sent
  BY <1>0, <1>5 DEF CoordinatorTypeOK, QueuesTypeOK, SentBy, Sent
<1> QED BY <1>1, <1>2, <1>3, <1>4, <1>5, OldStreams

(* One stream changes. *)
LEMMA StreamSet ==
    ASSUME CustodyInv, NEW d \in Ids, NEW t \in StreamRecord, stream' = [stream EXCEPT ![d] = t],
           ~Untouched(d) \/ t.events = stream[d].events,
           Range(t.events) \cup Range(t.buffered) \subseteq Sent,
           t.io # "none" => StreamKeeps(d) \/ Persisting(d)'
    PROVE  /\ stream' \in [Ids -> StreamRecord] /\ UNION {SentBy(e)' : e \in Ids} \subseteq Sent
           /\ \A e \in Ids : Untouched(e) => stream'[e].events = <<>>
           /\ \A e \in Ids : stream'[e].io # "none" => StreamKeeps(e) \/ Persisting(e)'
<1>1. /\ stream' \in [Ids -> StreamRecord]
      /\ \A e \in Ids : Untouched(e) => stream'[e].events = <<>>
      /\ \A e \in Ids : e # d /\ stream'[e].io # "none" => StreamKeeps(e)
      /\ \A e \in Ids : e # d => SentBy(e)' = SentBy(e)
      /\ SentBy(d)' = Range(t.events) \cup Range(t.buffered)
      /\ stream'[d] = t
  BY StreamChanged
<1>2. \A e \in Ids : SentBy(e)' \subseteq Sent
  BY <1>1 DEF Sent
<1>3. stream'[d].io # "none" => StreamKeeps(d) \/ Persisting(d)'
  BY <1>1
<1>4. \A e \in Ids : stream'[e].io # "none" => StreamKeeps(e) \/ Persisting(e)'
  BY <1>1, <1>3
<1>5. UNION {SentBy(e)' : e \in Ids} \subseteq Sent
  BY <1>2
<1> QED BY <1>1, <1>4, <1>5

(* RoutePersistenceEvent keeps the invariant.                                *)
LEMMA RouteStep ==
    ASSUME CustodyInv, RoutePersistenceEvent
    PROVE  CustodyInv'
<1> DEFINE e == Head(wire)
<1>1. /\ wire # <<>> /\ WireKeeps /\ e.type \in {"Started", "Terminal", "Summary"}
      /\ UNCHANGED <<job, attempt, request, claim, prepared, lane, controls, mutations, stage, worker>>
  BY DEF RoutePersistenceEvent, Arrives, WireKeeps
<1>2. e \in EventRecord /\ e \in Sent /\ ReportOK(e)
  BY <1>1, ArrivalKnown
<1>3. e.dispatch \in Ids /\ ~Untouched(e.dispatch)
  BY <1>1, <1>2 DEF ReportOK, CustodyInv, UnseenOK
<1>4. StoreKeeps /\ LaneTypeOK' /\ CoordinatorTypeOK
  BY <1>1, StoreSame, LaneSame DEF CustodyInv
<1>5. /\ StoreTypeOK' /\ ControlsTypeOK' /\ MutationsTypeOK' /\ \A c \in controls' : Acknowledged(c)
      /\ \A m \in mutations' : m \in mutations \/ m.kind # "sidecar"
  BY <1>1, SameQueues
<1>6. CASE IsBuffered(e)
  <2>1. PICK d \in Ids : d = lane.submitting
    BY <1>4, <1>6 DEF IsBuffered, CoordinatorTypeOK, ActorTypeOK
  <2> DEFINE s == stream[d]
             b == Append(s.buffered, e)
             t == [s EXCEPT !.buffered = b]
  <2>2. s \in StreamRecord /\ SentBy(d) \subseteq Sent
    BY <1>4 DEF CoordinatorTypeOK, QueuesTypeOK, Sent
  <2>3. s.buffered \in Seq(EventRecord)
    BY <2>2 DEF StreamRecord
  <2>4. b \in Seq(EventRecord) /\ Range(b) \subseteq Range(s.buffered) \cup {e}
    BY <1>2, <2>3 DEF Range
  <2>5. stream' = [stream EXCEPT ![d] = t] /\ dispatches' = dispatches
    BY <1>4, <1>6, <2>1, <2>2 DEF RoutePersistenceEvent, CoordinatorTypeOK, QueuesTypeOK
  <2> HIDE DEF b
  <2>6. t \in StreamRecord /\ t.events = s.events /\ t.io = s.io /\ t.buffered = b
    BY <2>2, <2>4 DEF StreamRecord
  <2>61. stream'[d] = t
    BY <1>4, <2>5 DEF CoordinatorTypeOK, QueuesTypeOK
  <2> HIDE DEF t
  <2>7. Range(t.events) \cup Range(t.buffered) \subseteq Sent
    BY <1>2, <2>2, <2>4, <2>6 DEF SentBy
  <2>8. t.io # "none" => StreamKeeps(d)
    BY <2>6, <2>61 DEF StreamKeeps, CustodyInv, PersistOK, Persisting, HasEvidence
  <2>9. /\ stream' \in [Ids -> StreamRecord] /\ UNION {SentBy(x)' : x \in Ids} \subseteq Sent
        /\ \A x \in Ids : Untouched(x) => stream'[x].events = <<>>
        /\ \A x \in Ids : stream'[x].io # "none" => StreamKeeps(x) \/ Persisting(x)'
    BY <2>5, <2>6, <2>7, <2>8, StreamSet
  <2>10. DispatchesKeep /\ RecordsTypeOK'
    BY <1>1, <2>5, SameKeeps, SameQueues
  <2> QED BY <1>1, <1>4, <1>5, <2>9, <2>10, ActorStep
<1>7. CASE ~IsBuffered(e)
  <2>1. PICK d \in Ids : d = e.dispatch
    BY <1>3
  <2> DEFINE s == stream[d]
             t == Enqueue(s, <<e>>)
  <2>2. s \in StreamRecord /\ SentBy(d) \subseteq Sent
    BY <1>4 DEF CoordinatorTypeOK, QueuesTypeOK, Sent
  <2>3. <<e>> \in Seq(EventRecord) /\ Range(<<e>>) = {e}
    BY <1>2 DEF Range
  <2>4. /\ t \in StreamRecord /\ t.buffered = s.buffered /\ t.io = s.io
        /\ Range(t.events) \subseteq Range(s.events) \cup {e}
        /\ s.events # <<>> => t.events # <<>> /\ Head(t.events) = Head(s.events)
    BY <2>2, <2>3, EnqueueGives
  <2>5. stream' = [stream EXCEPT ![d] = t]
    BY <1>4, <1>7, <2>1 DEF RoutePersistenceEvent, CoordinatorTypeOK, QueuesTypeOK
  <2>51. \/ dispatches' = dispatches
         \/ d \in Registered /\ Update(d, ReleaseDispatch(dispatches[d], FALSE))
    BY <1>7, <2>1 DEF RoutePersistenceEvent
  <2>61. stream'[d] = t
    BY <1>4, <2>5 DEF CoordinatorTypeOK, QueuesTypeOK
  <2> HIDE DEF t
  <2>7. Range(t.events) \cup Range(t.buffered) \subseteq Sent
    BY <1>2, <2>2, <2>4 DEF SentBy
  <2>8. t.io # "none" => StreamKeeps(d)
    BY <2>4, <2>61 DEF StreamKeeps, CustodyInv, PersistOK, Persisting, HasEvidence
  <2>9. /\ stream' \in [Ids -> StreamRecord] /\ UNION {SentBy(x)' : x \in Ids} \subseteq Sent
        /\ \A x \in Ids : Untouched(x) => stream'[x].events = <<>>
        /\ \A x \in Ids : stream'[x].io # "none" => StreamKeeps(x) \/ Persisting(x)'
    BY <1>3, <2>1, <2>4, <2>5, <2>7, <2>8, StreamSet
  <2>10. DispatchesKeep /\ RecordsTypeOK'
    <3>1. CASE dispatches' = dispatches
      BY <1>1, <3>1, SameKeeps, SameQueues
    <3>2. CASE d \in Registered /\ Update(d, ReleaseDispatch(dispatches[d], FALSE))
      <4> DEFINE r == dispatches[d]
                 k == ReleaseDispatch(r, FALSE)
      <4>1. r \in DispatchRecord /\ EffectOwned(r)
        BY <3>2, RecordTyped
      <4>2. k \in DispatchRecord /\ Kept(r, k) /\ Quiet(r, k)
        BY <4>1, Reported, ReleaseTyped, ReleaseKeeps, ReleaseQuiet
      <4> HIDE DEF k
      <4>3. Durable(d, k)
        BY <3>2, <4>2 DEF Durable, Kept, CustodyInv, AcksOK
      <4>4. Update(d, k)
        BY <3>2 DEF k
      <4> QED BY <1>1, <3>2, <4>2, <4>3, <4>4, QuietUpdate, RecordTypeStep
    <3> QED BY <2>51, <3>1, <3>2
  <2> QED BY <1>1, <1>4, <1>5, <2>9, <2>10, ActorStep
<1> QED BY <1>6, <1>7

(* HandleWorksetState keeps the invariant.                                   *)
LEMMA WorksetStateStep ==
    ASSUME CustodyInv, HandleWorksetState
    PROVE  CustodyInv'
<1> DEFINE d == Head(wire).dispatch
           r == dispatches[d]
           life == IF r.own = "Worker" /\ r.life = "Active" THEN "Draining" ELSE r.life
           s == [r EXCEPT !.observed = TRUE, !.life = life]
<1>1. /\ WireKeeps
      /\ UNCHANGED <<job, attempt, request, claim, prepared, stream, controls, mutations, stage, worker>>
  BY DEF HandleWorksetState, Arrives, WireKeeps
<1>2. StoreKeeps
  BY <1>1, StoreSame
<1>3. LaneTypeOK'
  BY DEF HandleWorksetState, CustodyInv, CoordinatorTypeOK, ActorTypeOK, LaneTypeOK
<1>4. (d \in Registered /\ Update(d, s)) \/ dispatches' = dispatches
  BY DEF HandleWorksetState
<1>5. DispatchesKeep /\ RecordsTypeOK'
  <2>1. CASE dispatches' = dispatches
    BY <1>1, <2>1, SameKeeps, SameQueues
  <2>2. CASE d \in Registered /\ Update(d, s)
    <3>1. r \in DispatchRecord /\ EffectOwned(r)
      BY <2>2, RecordTyped
    <3>2. life \in {"Claimed", "Prepared", "Active", "Draining", "Faulted"}
          /\ (life # r.life => r.own = "Worker")
      BY <3>1 DEF DispatchRecord
    <3> HIDE DEF life
    <3>3. /\ s \in DispatchRecord /\ Bound(r, s) /\ s.own = r.own /\ s.effect = r.effect
          /\ s.life = life /\ s.staged = r.staged /\ s.acked = r.acked
      BY <3>1, <3>2 DEF DispatchRecord, Bound
    <3> HIDE DEF s
    <3>4. EffectOwned(s)
      BY <3>1, <3>2, <3>3 DEF EffectOwned
    <3>5. Quiet(r, s)
      BY <3>3, <3>4 DEF Quiet, Bound, Given, Offered, PreparedRests
    <3>6. Durable(d, s)
      BY <2>2, <3>3 DEF Durable, CustodyInv, AcksOK
    <3> QED BY <1>1, <2>2, <3>3, <3>5, <3>6, QuietUpdate, RecordTypeStep
  <2> QED BY <1>4, <2>1, <2>2
<1> QED BY <1>1, <1>2, <1>3, <1>5, SameQueues, ActorStep

(* The record of a lost dispatch is bound as before, and its effect is its   *)
(* owner's.                                                                  *)
LEMMA LostRecord ==
    ASSUME CustodyInv, NEW d \in Registered, ~worker.up, prepared' = prepared,
           dispatches'[d] \in {dispatches[d], Lost(dispatches[d])}
    PROVE  RecordKeeps(d) /\ dispatches'[d] \in DispatchRecord /\ (d \in Registered' /\ Fresh(d)' => Fresh(d))
<1> DEFINE r == dispatches[d]
           s == dispatches'[d]
<1>1. r \in DispatchRecord /\ EffectOwned(r) /\ (d \in prepared => PreparedRests(r))
  BY RecordTyped
<1>2. \A j \in r.staged \cup r.acked : FinishedBy(j, d)
  BY DEF CustodyInv, AcksOK
<1>3. CASE s = r
  BY <1>1, <1>2, <1>3 DEF RecordKeeps, Fresh
<1>4. CASE s = Lost(r)
  <2> DEFINE e == IF r.effect.kind \in {"Submission", "Residence"} THEN NoEffect ELSE r.effect
  <2>1. /\ s \in DispatchRecord /\ Kept(r, s) /\ s.own = "Coordinator" /\ s.life = "Faulted"
        /\ s.effect = e \/ (Waits(e, "Release") /\ s.effect = Begin("Release"))
    BY <1>1, <1>4, LostTyped, LostKeeps
  <2>2. e.kind \notin {"Submission", "Residence"} /\ (e # r.effect => e = NoEffect /\ r.effect.kind \in {"Submission", "Residence"})
    BY DEF NoEffect
  <2> HIDE DEF e
  <2>3. EffectOwned(s)
    <3>1. CASE s.effect = r.effect
      <4>1. s.effect.kind \notin {"Submission", "Residence"}
        BY <2>1, <2>2, <3>1 DEF Waits, NoEffect, Retry, Begin
      <4> QED BY <1>1, <2>1, <3>1, <4>1 DEF EffectOwned
    <3>2. CASE s.effect = NoEffect
      BY <2>1, <3>2 DEF EffectOwned, NoEffect
    <3>3. CASE s.effect = Begin("Release")
      BY <2>1, <3>3 DEF EffectOwned, Begin
    <3> QED BY <2>1, <2>2, <3>1, <3>2, <3>3
  <2>4. d \in prepared => PreparedRests(s) /\ (s.effect = NoEffect => r.effect = NoEffect)
    BY <1>1, <2>1, <2>2 DEF PreparedRests, NoEffect, Begin
  <2>5. Offered(s) => Offered(r)
    BY <2>1, <2>2 DEF Offered, Begin, NoEffect
  <2> QED BY <1>2, <2>1, <2>3, <2>4, <2>5 DEF RecordKeeps, Fresh, Kept
<1> QED BY <1>3, <1>4

(* HandleWorkerUnavailable keeps the invariant: the lost worker executes     *)
(* nothing of what becomes the coordinator's.                                *)
LEMMA UnavailableStep ==
    ASSUME CustodyInv, HandleWorkerUnavailable
    PROVE  CustodyInv'
<1> DEFINE g == Head(wire).gen
<1>1. /\ wire # <<>> /\ WireKeeps /\ Head(wire).type = "Unavailable"
      /\ dispatches' = [d \in Registered |->
                          IF dispatches[d].gen = g THEN Lost(dispatches[d]) ELSE dispatches[d]]
      /\ controls' \subseteq controls
      /\ UNCHANGED <<job, attempt, request, claim, prepared, stream, mutations, stage, worker>>
  BY DEF HandleWorkerUnavailable, Arrives, WireKeeps
<1>2. ~worker.up
  BY <1>1, ArrivalKnown DEF CustodyInv, WorkerOK
<1>3. LaneTypeOK'
  BY DEF HandleWorkerUnavailable, NoLane, CustodyInv, CoordinatorTypeOK, ActorTypeOK, LaneTypeOK
<1>4. StoreKeeps
  BY <1>1, StoreSame
<1>5. Registered' = Registered
      /\ \A d \in Registered : dispatches'[d] \in {dispatches[d], Lost(dispatches[d])}
  BY <1>1 DEF Registered
<1>6. \A d \in Registered : RecordKeeps(d) /\ dispatches'[d] \in DispatchRecord /\ (Fresh(d)' => Fresh(d))
  BY <1>1, <1>2, <1>5, LostRecord
<1>7. DispatchesKeep
  <2>1. \A j \in Items : Executed(j) => worker.dispatch \in Registered'
    BY <1>5 DEF CustodyInv, ExecutedKnown
  <2> QED BY <1>1, <1>5, <1>6, <2>1 DEF DispatchesKeep
<1>8. RecordsTypeOK'
  BY <1>5, <1>6 DEF RecordsTypeOK, CustodyInv, CoordinatorTypeOK, ActorTypeOK
<1>9. ControlsTypeOK' /\ \A c \in controls' : Acknowledged(c)
  BY <1>1, OldControls DEF ControlsTypeOK, Acknowledged, CustodyInv, CoordinatorTypeOK, QueuesTypeOK
<1> QED BY <1>1, <1>3, <1>4, <1>7, <1>8, <1>9, SameQueues, ActorStep

-----------------------------------------------------------------------------
(* The handlers of a stream's first event *)

(* What ActorStep asks of the streams. *)
StreamsKeep ==
    /\ stream' \in [Ids -> StreamRecord] /\ UNION {SentBy(d)' : d \in Ids} \subseteq Sent
    /\ \A d \in Ids : Untouched(d) => stream'[d].events = <<>>
    /\ \A d \in Ids : stream'[d].io # "none" => StreamKeeps(d) \/ Persisting(d)'

(* A stream whose first event is consumed keeps the others.                  *)
LEMMA ConsumeGives ==
    ASSUME CustodyInv, NEW d \in Ids, stream[d].events # <<>>, Consume(d)
    PROVE  StreamsKeep
<1> DEFINE s == stream[d]
           rest == Tail(s.events)
           t == [s EXCEPT !.events = rest, !.io = "none"]
<1>1. s \in StreamRecord /\ stream \in [Ids -> StreamRecord] /\ SentBy(d) \subseteq Sent
  BY DEF CustodyInv, CoordinatorTypeOK, QueuesTypeOK, Sent
<1>2. s.events \in Seq(EventRecord)
  BY <1>1 DEF StreamRecord
<1>3. rest \in Seq(EventRecord) /\ Len(rest) = Len(s.events) - 1
      /\ \A i \in 1 .. Len(s.events) - 1 : rest[i] = s.events[i + 1]
  BY <1>2
<1>4. ASSUME NEW x \in Range(rest)
      PROVE  x \in Range(s.events)
  <2>1. PICK i \in 1 .. Len(s.events) - 1 : x = s.events[i + 1]
    BY <1>3, <1>4 DEF Range
  <2>2. i + 1 \in DOMAIN s.events
    BY <1>2, <2>1
  <2> QED BY <2>1, <2>2 DEF Range
<1>5. stream' = [stream EXCEPT ![d] = t]
  <2>1. stream' = [stream EXCEPT ![d].events = rest, ![d].io = "none"]
    BY DEF Consume
  <2> QED BY <1>1, <2>1
<1> HIDE DEF rest
<1>6. t \in StreamRecord /\ t.events = rest /\ t.io = "none" /\ t.buffered = s.buffered
  BY <1>1, <1>3 DEF StreamRecord
<1> HIDE DEF t
<1>7. Range(t.events) \cup Range(t.buffered) \subseteq Sent
  BY <1>1, <1>4, <1>6 DEF SentBy
<1>8. ~Untouched(d)
  BY EvidenceKnown
<1> QED BY <1>5, <1>6, <1>7, <1>8, StreamSet DEF StreamsKeep

(* The state of the store call changes. *)
LEMMA IoGives ==
    ASSUME CustodyInv, NEW d \in Ids, NEW at \in {"none", "wait"} \cup Outcomes,
           stream' = [stream EXCEPT ![d].io = at], at # "none" => Persisting(d)'
    PROVE  StreamsKeep
<1> DEFINE s == stream[d]
           t == [s EXCEPT !.io = at]
<1>1. s \in StreamRecord /\ stream \in [Ids -> StreamRecord] /\ SentBy(d) \subseteq Sent
  BY DEF CustodyInv, CoordinatorTypeOK, QueuesTypeOK, Sent
<1>2. stream' = [stream EXCEPT ![d] = t]
  BY <1>1
<1>3. t \in StreamRecord /\ t.events = s.events /\ t.io = at /\ t.buffered = s.buffered
  BY <1>1 DEF StreamRecord
<1> HIDE DEF t
<1>4. Range(t.events) \cup Range(t.buffered) \subseteq Sent
  BY <1>1, <1>3 DEF SentBy
<1> QED BY <1>2, <1>3, <1>4, StreamSet DEF StreamsKeep

(* A durable terminal is acknowledged. *)
LEMMA AckGives ==
    ASSUME CustodyInv, NEW d \in Ids, NEW j \in Items, FinishedBy(j, d), Acknowledge(d, j)
    PROVE  ControlsTypeOK' /\ \A c \in controls' : Acknowledged(c)
<1> DEFINE a == Control("ack", d, j)
<1>1. controls' \subseteq controls \cup {a}
  BY DEF Acknowledge, EnqueueControls
<1>2. a \in [kind : {"ack", "cancel"}, dispatch : Ids, job : Items, at : {"queued", "done"}]
      /\ a.kind = "ack" /\ a.dispatch = d /\ a.job = j
  BY DEF Control
<1> HIDE DEF a
<1>3. ControlsTypeOK
  BY DEF CustodyInv, CoordinatorTypeOK, QueuesTypeOK, ControlsTypeOK
<1>4. ControlsTypeOK'
  BY <1>1, <1>2, <1>3 DEF ControlsTypeOK
<1> QED BY <1>1, <1>2, <1>4, OldControls DEF Acknowledged

(* Discarded evidence keeps the invariant.                                   *)
LEMMA DiscardStep ==
    ASSUME CustodyInv, NEW d \in Ids, DiscardEvidence(d)
    PROVE  CustodyInv'
<1> DEFINE e == EvidenceOf(d)
<1>1. /\ stream[d].events # <<>> /\ Consume(d) /\ WireKeeps
      /\ UNCHANGED <<job, attempt, request, dispatches, claim, prepared, lane, mutations, stage, worker>>
  BY DEF DiscardEvidence, HasEvidence, WireKeeps
<1>2. DispatchesKeep /\ StoreKeeps /\ LaneTypeOK'
  BY <1>1, SameKeeps, StoreSame, LaneSame
<1>3. StreamsKeep
  BY <1>1, ConsumeGives
<1>4. ControlsTypeOK' /\ \A c \in controls' : Acknowledged(c)
  <2>1. CASE UNCHANGED controls
    BY <2>1, SameQueues
  <2>2. CASE RoutedToOwner(d) /\ IsStaged(d) /\ Acknowledge(d, e.job)
    <3>1. d \in Registered /\ e.job \in dispatches[d].staged
      BY <2>2 DEF RoutedToOwner, IsStaged
    <3>2. FinishedBy(e.job, d)
      BY <3>1 DEF CustodyInv, AcksOK
    <3>3. e.job \in Items
      BY <3>1, RecordTyped DEF DispatchRecord
    <3> QED BY <2>2, <3>2, <3>3, AckGives
  <2> QED BY <2>1, <2>2 DEF DiscardEvidence
<1> QED BY <1>1, <1>2, <1>3, <1>4, SameQueues, ActorStep DEF StreamsKeep

(* The start of a store call keeps the invariant.                            *)
LEMMA BeginPersistenceStep ==
    ASSUME CustodyInv, NEW d \in Ids, BeginPersistence(d)
    PROVE  CustodyInv'
<1>1. /\ WireKeeps /\ HasEvidence(d, {"Started", "Terminal"}) /\ RoutedToOwner(d)
      /\ stream' = [stream EXCEPT ![d].io = "wait"]
      /\ UNCHANGED <<job, attempt, request, dispatches, claim, prepared, lane, controls, mutations, stage, worker>>
  BY DEF BeginPersistence, WireKeeps
<1>2. DispatchesKeep /\ StoreKeeps /\ LaneTypeOK'
  BY <1>1, SameKeeps, StoreSame, LaneSame
<1>3. stream'[d].events = stream[d].events /\ stream'[d].io = "wait"
  BY <1>1 DEF CustodyInv, CoordinatorTypeOK, QueuesTypeOK, StreamRecord
<1>4. Persisting(d)'
  BY <1>1, <1>3 DEF Persisting, HasEvidence, EvidenceOf, RoutedToOwner
<1>5. StreamsKeep
  BY <1>1, <1>4, IoGives
<1> QED BY <1>1, <1>2, <1>5, SameQueues, ActorStep DEF StreamsKeep

(* What the store call of a stream is for. *)
LEMMA PersistingKnown ==
    ASSUME CustodyInv, NEW d \in Ids, stream[d].io # "none"
    PROVE  LET e == EvidenceOf(d) IN
           /\ Persisting(d) /\ e \in EventRecord /\ e.type \in {"Started", "Terminal"} /\ e.job \in Items
           /\ stream[d].events # <<>> /\ ~Untouched(d)
           /\ e.type = "Terminal" /\ job[e.job].dispatch = d => ~Executed(e.job)
<1> DEFINE e == EvidenceOf(d)
<1>1. Persisting(d)
  BY DEF CustodyInv, PersistOK
<1>2. stream[d].events # <<>> /\ e.type \in {"Started", "Terminal"}
  BY <1>1 DEF Persisting, HasEvidence
<1>3. e \in EventRecord /\ ReportOK(e) /\ ~Untouched(d)
  BY <1>2, EvidenceKnown
<1>4. e.job \in Items
  BY <1>2, <1>3 DEF ReportOK
<1>5. ASSUME e.type = "Terminal", job[e.job].dispatch = d, Executed(e.job)
      PROVE  FALSE
  <2>1. d \in Registered /\ dispatches[d].gen = worker.gen
    BY <1>4, <1>5 DEF CustodyInv, ExecutedKnown
  <2>2. e.gen = worker.gen
    BY <1>1, <2>1 DEF Persisting
  <2> QED BY <1>3, <1>5, <2>2 DEF ReportOK
<1> QED BY <1>1, <1>2, <1>3, <1>4, <1>5

(* The store call for an event keeps the invariant.                          *)
LEMMA PersistStep ==
    ASSUME CustodyInv, NEW d \in Ids, PersistWorkerEvent(d)
    PROVE  CustodyInv'
<1> DEFINE e == EvidenceOf(d)
           write == IF e.type = "Started" THEN MarkWorksetJobStarted(d, e) ELSE StageWorkerTerminal(d, e)
<1>1. /\ WireKeeps
      /\ UNCHANGED <<dispatches, claim, prepared, lane, controls, mutations, stage, worker>>
  BY DEF PersistWorkerEvent, WireKeeps
<1>2. stream[d].io = "wait"
  BY DEF PersistWorkerEvent
<1>3. /\ Persisting(d) /\ e.type \in {"Started", "Terminal"} /\ e.job \in Items
      /\ stream[d].events # <<>> /\ ~Untouched(d)
      /\ e.type = "Terminal" /\ job[e.job].dispatch = d => ~Executed(e.job)
  BY <1>2, PersistingKnown
<1>4. StoreTypeOK /\ d # 0
  BY DEF CustodyInv, CoordinatorTypeOK, Ids
<1>5. DispatchesKeep /\ LaneTypeOK'
  BY <1>1, SameKeeps, LaneSame
<1>6. PICK at \in Outcomes :
        /\ stream' = [stream EXCEPT ![d].io = at]
        /\ \/ /\ at = "applied" /\ write.allowed
              /\ job' = [job EXCEPT ![e.job].state = write.state]
              /\ attempt' = [attempt EXCEPT ![d] = IF write.closes THEN "CLOSED" ELSE @]
              /\ request' = write.request
           \/ at = "applied" /\ job[e.job] = [state |-> write.state, dispatch |-> d] /\ UNCHANGED storeVars
           \/ at # "applied" /\ UNCHANGED storeVars
  BY DEF PersistWorkerEvent, Outcomes
<1>7. stream'[d].events = stream[d].events /\ stream'[d].io = at
  BY <1>6 DEF CustodyInv, CoordinatorTypeOK, QueuesTypeOK, StreamRecord
<1>8. \/ /\ e.type = "Started" /\ write = MarkWorksetJobStarted(d, e)
      \/ /\ e.type = "Terminal" /\ write = StageWorkerTerminal(d, e)
  BY <1>3
<1>9. write.state = (IF e.type = "Started" THEN "RUNNING" ELSE "FINISHED")
  BY <1>8 DEF MarkWorksetJobStarted, StageWorkerTerminal
<1>10. write.request \in [Items -> {"NONE", "ACTIVE", "RESOLVED"}]
  BY <1>4, <1>8 DEF MarkWorksetJobStarted, StageWorkerTerminal, StoreTypeOK
<1>11. write.allowed => job[e.job].state \in {"CLAIMED", "RUNNING"} /\ job[e.job].dispatch = d
  <2>1. MarkWorksetJobStarted(d, e).allowed => job[e.job] = [state |-> "CLAIMED", dispatch |-> d]
    BY DEF MarkWorksetJobStarted
  <2>2. StageWorkerTerminal(d, e).allowed =>
          job[e.job] = [state |-> IF e.unstarted THEN "CLAIMED" ELSE "RUNNING", dispatch |-> d]
    BY DEF StageWorkerTerminal
  <2> QED BY <1>8, <2>1, <2>2
<1> HIDE DEF write
<1>12. StoreKeeps /\ StoreTypeOK' /\ (at = "applied" => job'[e.job] = [state |-> write.state, dispatch |-> d])
  <2>1. CASE UNCHANGED storeVars /\ (at = "applied" => job[e.job] = [state |-> write.state, dispatch |-> d])
    BY <1>1, <1>4, <2>1, StoreSame DEF storeVars, StoreTypeOK
  <2>2. CASE /\ write.allowed
             /\ job' = [job EXCEPT ![e.job].state = write.state]
             /\ attempt' = [attempt EXCEPT ![d] = IF write.closes THEN "CLOSED" ELSE @]
             /\ request' = write.request
    <3>1. job[e.job] \in [state : JobStates, dispatch : {0} \cup Ids]
      BY <1>3, <1>4 DEF StoreTypeOK
    <3>2. /\ job'[e.job] = [state |-> write.state, dispatch |-> d]
          /\ \A j \in Items : j # e.job => job'[j] = job[j]
      BY <1>3, <1>4, <1>11, <2>2, <3>1 DEF StoreTypeOK
    <3>3. job' \in [Items -> [state : JobStates, dispatch : {0} \cup Ids]]
      <4>1. [state |-> write.state, dispatch |-> d] \in [state : JobStates, dispatch : {0} \cup Ids]
        BY <1>9 DEF JobStates
      <4>2. job' = [job EXCEPT ![e.job] = [state |-> write.state, dispatch |-> d]]
        <5>1. [job[e.job] EXCEPT !.state = write.state] = [state |-> write.state, dispatch |-> d]
          BY <1>11, <2>2, <3>1
        <5>2. job' = [job EXCEPT ![e.job] = [job[e.job] EXCEPT !.state = write.state]]
          BY <2>2
        <5> QED BY <5>1, <5>2
      <4> QED BY <1>4, <4>1, <4>2 DEF StoreTypeOK
    <3>4. attempt' \in [Ids -> AttemptStates] /\ \A c \in Ids : c # d => attempt'[c] = attempt[c]
      BY <1>4, <2>2 DEF StoreTypeOK, AttemptStates
    <3>5. attempt'[d] = "none" => attempt[d] = "none"
      BY <1>4, <2>2 DEF StoreTypeOK, AttemptStates
    <3>6. JobKeeps(e.job)
      BY <1>3, <1>4, <1>9, <1>11, <2>2, <3>2 DEF JobKeeps
    <3>7. \A j \in Items : JobKeeps(j)
      BY <3>2, <3>6 DEF JobKeeps
    <3>8. StoreKeeps
      BY <1>1, <1>3, <3>4, <3>5, <3>7 DEF StoreKeeps, CustodyInv, ClaimOK
    <3> QED BY <1>10, <2>2, <3>2, <3>3, <3>4, <3>8 DEF StoreTypeOK
  <2> QED BY <1>6, <2>1, <2>2
<1>13. Persisting(d)'
  <2>1. EvidenceOf(d)' = e
    BY <1>7 DEF EvidenceOf
  <2>2. HasEvidence(d, {"Started", "Terminal"})'
    BY <1>3, <1>7, <2>1 DEF HasEvidence
  <2>3. d \in Registered' => dispatches'[d].gen = e.gen
    BY <1>1, <1>3 DEF Persisting, Registered
  <2>4. at = "applied" /\ e.type = "Terminal" => job'[e.job] = [state |-> "FINISHED", dispatch |-> d]
    BY <1>9, <1>12
  <2> QED BY <1>7, <2>1, <2>2, <2>3, <2>4 DEF Persisting, FinishedBy
<1>14. StreamsKeep
  BY <1>6, <1>13, IoGives
<1> QED BY <1>1, <1>5, <1>12, <1>14, SameQueues, ActorStep DEF StreamsKeep

(* The first event of a stream whose record is changed, with MaybeRetire. *)
LEMMA NotedRetire ==
    ASSUME CustodyInv, NEW d \in Registered, NEW s \in DispatchRecord, MaybeRetire(d, s),
           prepared' = prepared, Bound(dispatches[d], s), s.own = dispatches[d].own,
           s.life = dispatches[d].life, s.effect = dispatches[d].effect, Durable(d, s)
    PROVE  DispatchesKeep /\ LaneTypeOK' /\ RecordsTypeOK'
<1>1. EffectOwned(dispatches[d])
  BY RecordTyped
<1>2. Quiet(dispatches[d], s)
  BY <1>1, SameEffectQuiet
<1> QED BY <1>2, MaybeRetireKeeps

(* HandlePersisted keeps the invariant: only a durable terminal is           *)
(* acknowledged.                                                             *)
LEMMA PersistedStep ==
    ASSUME CustodyInv, NEW d \in Ids, HandlePersisted(d)
    PROVE  CustodyInv'
<1> DEFINE e == EvidenceOf(d)
           r == dispatches[d]
           x == r.staged \cup {e.job}
           s == [r EXCEPT !.staged = x]
<1>1. /\ WireKeeps /\ d \in Registered /\ stream[d].io \in Outcomes
      /\ UNCHANGED <<job, attempt, request, claim, prepared, stage, worker>>
  BY DEF HandlePersisted, WireKeeps, RoutedToOwner
<1>2. stream[d].io # "none"
  BY <1>1 DEF Outcomes
<1>3. /\ Persisting(d) /\ e.type \in {"Started", "Terminal"} /\ e.job \in Items
      /\ stream[d].events # <<>> /\ ~Untouched(d)
  BY <1>2, PersistingKnown
<1>4. r \in DispatchRecord /\ \A j \in r.staged \cup r.acked : FinishedBy(j, d)
  BY <1>1, RecordTyped DEF CustodyInv, AcksOK
<1>5. StoreKeeps
  BY <1>1, StoreSame
<1>6. CASE UNCHANGED <<dispatches, lane, controls, mutations>>
           /\ (Consume(d) \/ stream' = [stream EXCEPT ![d].io = "none"])
  <2>1. DispatchesKeep /\ LaneTypeOK'
    BY <1>1, <1>6, SameKeeps, LaneSame
  <2>2. StreamsKeep
    BY <1>3, <1>6, ConsumeGives, IoGives
  <2> QED BY <1>1, <1>5, <1>6, <2>1, <2>2, SameQueues, ActorStep DEF StreamsKeep
<1>7. CASE /\ stream[d].io = "applied" /\ e.type # "Started" /\ Consume(d)
           /\ mutations' = mutations \cup {Mutation("resolved", j, d) : j \in {e.job} \cap index}
           /\ Acknowledge(d, e.job)
           /\ MaybeRetire(d, s)
  <2>1. FinishedBy(e.job, d)
    BY <1>3, <1>7 DEF Persisting
  <2>2. x \in SUBSET Items
    BY <1>3, <1>4 DEF DispatchRecord
  <2>3. \A j \in x : FinishedBy(j, d)
    BY <1>4, <2>1
  <2> HIDE DEF x
  <2>4. /\ s \in DispatchRecord /\ Bound(r, s) /\ s.own = r.own /\ s.life = r.life
        /\ s.effect = r.effect /\ s.staged = x /\ s.acked = r.acked
    BY <1>4, <2>2 DEF DispatchRecord, Bound
  <2>5. MaybeRetire(d, s)
    BY <1>7
  <2> HIDE DEF s
  <2>6. Durable(d, s)
    BY <1>4, <2>3, <2>4 DEF Durable
  <2>7. DispatchesKeep /\ LaneTypeOK' /\ RecordsTypeOK'
    BY <1>1, <2>4, <2>5, <2>6, NotedRetire
  <2>8. StreamsKeep
    BY <1>3, <1>7, ConsumeGives
  <2>9. ControlsTypeOK' /\ \A c \in controls' : Acknowledged(c)
    BY <1>3, <1>7, <2>1, AckGives
  <2>10. MutationsTypeOK' /\ \A m \in mutations' : m \in mutations \/ m.kind # "sidecar"
    <3>1. LET m == Mutation("resolved", e.job, d) IN
          /\ m.kind # "sidecar"
          /\ m \in [kind : {"sidecar", "resolved"}, job : Items, dispatch : {0} \cup Ids,
                     at : {"queued"} \cup Outcomes]
      BY <1>3 DEF Mutation
    <3>2. MutationsTypeOK
      BY DEF CustodyInv, CoordinatorTypeOK, QueuesTypeOK, MutationsTypeOK
    <3> QED BY <1>7, <3>1, <3>2 DEF MutationsTypeOK
  <2> QED BY <1>1, <1>5, <2>7, <2>8, <2>9, <2>10, SameQueues, ActorStep DEF StreamsKeep
<1>8. \/ UNCHANGED <<dispatches, lane, controls, mutations>>
         /\ (Consume(d) \/ stream' = [stream EXCEPT ![d].io = "none"])
      \/ /\ stream[d].io = "applied" /\ e.type # "Started" /\ Consume(d)
         /\ mutations' = mutations \cup {Mutation("resolved", j, d) : j \in {e.job} \cap index}
         /\ Acknowledge(d, e.job)
         /\ MaybeRetire(d, s)
  BY DEF HandlePersisted
<1> QED BY <1>6, <1>7, <1>8

(* HandleWorksetSummary keeps the invariant.                                 *)
LEMMA SummaryStep ==
    ASSUME CustodyInv, NEW d \in Ids, HandleWorksetSummary(d)
    PROVE  CustodyInv'
<1> DEFINE r == dispatches[d]
           s == [r EXCEPT !.summary = TRUE]
<1>1. /\ WireKeeps /\ stream[d].events # <<>> /\ Consume(d)
      /\ UNCHANGED <<job, attempt, request, claim, prepared, controls, mutations, stage, worker>>
  BY DEF HandleWorksetSummary, WireKeeps, HasEvidence
<1>2. StoreKeeps /\ StreamsKeep
  BY <1>1, StoreSame, ConsumeGives
<1>3. UNCHANGED <<dispatches, lane>> \/ (d \in Registered /\ MaybeRetire(d, s))
  BY DEF HandleWorksetSummary
<1>4. DispatchesKeep /\ LaneTypeOK' /\ RecordsTypeOK'
  <2>1. CASE UNCHANGED <<dispatches, lane>>
    BY <1>1, <2>1, SameKeeps, LaneSame, SameQueues
  <2>2. CASE d \in Registered /\ MaybeRetire(d, s)
    <3>1. r \in DispatchRecord /\ \A j \in r.staged \cup r.acked : FinishedBy(j, d)
      BY <2>2, RecordTyped DEF CustodyInv, AcksOK
    <3>2. /\ s \in DispatchRecord /\ Bound(r, s) /\ s.own = r.own /\ s.life = r.life
          /\ s.effect = r.effect /\ s.staged = r.staged /\ s.acked = r.acked
      BY <3>1 DEF DispatchRecord, Bound
    <3>3. MaybeRetire(d, s)
      BY <2>2
    <3> HIDE DEF s
    <3>4. Durable(d, s)
      BY <3>1, <3>2 DEF Durable
    <3> QED BY <1>1, <2>2, <3>2, <3>3, <3>4, NotedRetire
  <2> QED BY <1>3, <2>1, <2>2
<1> QED BY <1>1, <1>2, <1>4, SameQueues, ActorStep DEF StreamsKeep
-----------------------------------------------------------------------------
(* Commands to the worker, and cancellation *)

(* An acknowledgement that reaches the worker is of a durable terminal.      *)
LEMMA ExecuteAcknowledgeStep ==
    ASSUME CustodyInv, NEW c \in controls, ExecuteAcknowledge(c)
    PROVE  CustodyInv'
<1> DEFINE a == [c EXCEPT !.at = "done"]
<1>1. /\ c.kind = "ack" /\ controls' = (controls \ {c}) \cup {a}
      /\ UNCHANGED <<job, attempt, request, dispatches, claim, prepared, lane, stream, mutations, stage, wire>>
  BY DEF ExecuteAcknowledge
<1>2. CoordinatorTypeOK /\ WorkerOK /\ AckedIsDurable
  BY DEF CustodyInv
<1>3. c \in [kind : {"ack", "cancel"}, dispatch : Ids, job : Items, at : {"queued", "done"}]
  BY <1>2 DEF CoordinatorTypeOK, QueuesTypeOK
<1>4. FinishedBy(c.job, c.dispatch) /\ c.dispatch # 0
  BY <1>1, <1>3, OldControls DEF Ids
<1>5. /\ a \in [kind : {"ack", "cancel"}, dispatch : Ids, job : Items, at : {"queued", "done"}]
      /\ a.kind = "ack" /\ a.dispatch = c.dispatch /\ a.job = c.job
  BY <1>1, <1>3
<1> HIDE DEF a
<1>6. DispatchesKeep /\ StoreKeeps
  BY <1>1, SameKeeps, StoreSame
<1>7. WorkerKeeps /\ WorkerOK' /\ WorkerTypeOK'
  <2>1. CASE worker' = worker
    BY <1>1, <1>2, <2>1, WorkerSame, WorkerOKSame DEF CoordinatorTypeOK, WorkerTypeOK
  <2>2. CASE worker.dispatch = c.dispatch /\ worker' = [worker EXCEPT !.items[c.job] = "acked"]
    <3>1. /\ worker' \in [gen : Generations, up : BOOLEAN, retire : BOOLEAN, dispatch : {0} \cup Ids,
                          items : [Items -> ItemStates], done : BOOLEAN]
          /\ worker'.gen = worker.gen /\ worker'.up = worker.up /\ worker'.dispatch = worker.dispatch
          /\ worker'.items[c.job] = "acked"
          /\ \A i \in Items : i # c.job => worker'.items[i] = worker.items[i]
      BY <1>2, <1>3, <2>2 DEF CoordinatorTypeOK, WorkerTypeOK, ItemStates
    <3>2. \A i \in Items : Executed(i)' => Executed(i)
      BY <3>1 DEF Executed
    <3>3. \A i \in Items : worker'.items[i] = "acked" => FinishedBy(i, worker'.dispatch)
      BY <1>2, <1>4, <2>2, <3>1 DEF AckedIsDurable, FinishedBy
    <3>4. WorkerKeeps
      BY <3>1, <3>2, <3>3 DEF WorkerKeeps
    <3>5. WorkerOK'
      BY <1>1, <1>2, <1>4, <2>2, <3>1 DEF WorkerOK
    <3>6. WorkerTypeOK'
      BY <1>1, <1>2, <3>1 DEF CoordinatorTypeOK, WorkerTypeOK
    <3> QED BY <3>4, <3>5, <3>6
  <2> QED BY <2>1, <2>2 DEF ExecuteAcknowledge
<1>8. Sent' = Sent
  BY <1>1 DEF Sent, SentBy
<1>9. \A b \in controls' : b.kind = "ack" => FinishedBy(b.job, b.dispatch)
  BY <1>1, <1>4, <1>5, OldControls
<1>10. QueuesKeep
  BY <1>1, <1>8, <1>9, OldMutations, OldStreams DEF QueuesKeep
<1>11. controls' \subseteq [kind : {"ack", "cancel"}, dispatch : Ids, job : Items, at : {"queued", "done"}]
       /\ \A b \in controls' : b.at = "done" => b.kind = "ack"
  BY <1>1, <1>2, <1>5 DEF CoordinatorTypeOK, QueuesTypeOK
<1>12. CoordinatorTypeOK'
  BY <1>1, <1>2, <1>7, <1>11 DEF CoordinatorTypeOK, StoreTypeOK, ActorTypeOK, QueuesTypeOK, Registered
<1> QED BY <1>6, <1>7, <1>10, <1>12, KeepCustody

(* HandleWorkerControlCompletion keeps the invariant.                        *)
LEMMA ControlCompletionStep ==
    ASSUME CustodyInv, NEW c \in controls, HandleWorkerControlCompletion(c)
    PROVE  CustodyInv'
<1> DEFINE d == c.dispatch
           r == dispatches[d]
           x == r.acked \cup {c.job}
           s == [r EXCEPT !.acked = x]
<1>1. /\ WireKeeps /\ controls' = controls \ {c} /\ c.at = "done"
      /\ UNCHANGED <<job, attempt, request, claim, prepared, stream, mutations, stage, worker>>
  BY DEF HandleWorkerControlCompletion, WireKeeps
<1>2. ControlsTypeOK /\ c.job \in Items
  BY DEF CustodyInv, CoordinatorTypeOK, QueuesTypeOK, ControlsTypeOK
<1>3. FinishedBy(c.job, d)
  BY <1>1, <1>2, OldControls DEF ControlsTypeOK
<1>4. StoreKeeps
  BY <1>1, StoreSame
<1>5. UNCHANGED <<dispatches, lane>> \/ (d \in Registered /\ MaybeRetire(d, s))
  BY DEF HandleWorkerControlCompletion
<1>6. DispatchesKeep /\ LaneTypeOK' /\ RecordsTypeOK'
  <2>1. CASE UNCHANGED <<dispatches, lane>>
    BY <1>1, <2>1, SameKeeps, LaneSame, SameQueues
  <2>2. CASE d \in Registered /\ MaybeRetire(d, s)
    <3>1. r \in DispatchRecord /\ \A j \in r.staged \cup r.acked : FinishedBy(j, d)
      BY <2>2, RecordTyped DEF CustodyInv, AcksOK
    <3>2. x \in SUBSET Items /\ \A j \in x : FinishedBy(j, d)
      BY <1>2, <1>3, <3>1 DEF DispatchRecord
    <3> HIDE DEF x
    <3>3. /\ s \in DispatchRecord /\ Bound(r, s) /\ s.own = r.own /\ s.life = r.life
          /\ s.effect = r.effect /\ s.staged = r.staged /\ s.acked = x
      BY <3>1, <3>2 DEF DispatchRecord, Bound
    <3>4. MaybeRetire(d, s)
      BY <2>2
    <3> HIDE DEF s
    <3>5. Durable(d, s)
      BY <3>1, <3>2, <3>3 DEF Durable
    <3> QED BY <1>1, <2>2, <3>3, <3>4, <3>5, NotedRetire
  <2> QED BY <1>5, <2>1, <2>2
<1>7. ControlsTypeOK' /\ \A b \in controls' : Acknowledged(b)
  BY <1>1, <1>2, OldControls DEF ControlsTypeOK, Acknowledged
<1> QED BY <1>1, <1>4, <1>6, <1>7, SameQueues, ActorStep

(* A cancelled job whose dispatch or whose end is known already. *)
LEMMA ResolvedGives ==
    ASSUME CustodyInv, NEW d \in {0} \cup Ids, NEW j \in Items,
           mutations' \in {mutations, mutations \cup {Mutation("resolved", j, d)}}
    PROVE  MutationsTypeOK' /\ \A m \in mutations' : m \in mutations \/ m.kind # "sidecar"
<1>1. LET m == Mutation("resolved", j, d) IN
      /\ m.kind # "sidecar"
      /\ m \in [kind : {"sidecar", "resolved"}, job : Items, dispatch : {0} \cup Ids,
                at : {"queued"} \cup Outcomes]
  BY DEF Mutation
<1>2. MutationsTypeOK
  BY DEF CustodyInv, CoordinatorTypeOK, QueuesTypeOK, MutationsTypeOK
<1> QED BY <1>1, <1>2 DEF MutationsTypeOK

(* RegisterCommittedCancellations keeps the invariant.                       *)
LEMMA RegisterStep ==
    ASSUME CustodyInv, NEW j \in Items, RegisterCommittedCancellations(j)
    PROVE  CustodyInv'
<1>1. /\ WireKeeps
      /\ UNCHANGED <<job, attempt, request, claim, prepared, lane, stream, stage, worker>>
  BY DEF RegisterCommittedCancellations, WireKeeps
<1>2. StoreKeeps /\ LaneTypeOK'
  BY <1>1, StoreSame, LaneSame
<1>3. CASE UNCHANGED <<dispatches, controls>>
           /\ mutations' \in {mutations, mutations \cup {Mutation("resolved", j, 0)}}
  <2>1. DispatchesKeep
    BY <1>1, <1>3, SameKeeps
  <2>2. MutationsTypeOK' /\ \A m \in mutations' : m \in mutations \/ m.kind # "sidecar"
    BY <1>3, ResolvedGives
  <2> QED BY <1>1, <1>2, <1>3, <2>1, <2>2, SameQueues, ActorStep
<1>4. ASSUME NEW d \in Containing(j), TellDispatch(d, j)
      PROVE  CustodyInv'
  <2> DEFINE r == dispatches[d]
             x == r.pending \cup {j}
             s == [r EXCEPT !.pending = x]
             a == Control("cancel", d, j)
  <2>1. d \in Registered /\ d \in Ids /\ r \in DispatchRecord /\ EffectOwned(r)
        /\ \A i \in r.staged \cup r.acked : FinishedBy(i, d)
    BY <1>4, RecordTyped DEF Containing, CustodyInv, AcksOK
  <2>2. dispatches' = dispatches \/ Update(d, s)
    BY <1>4 DEF TellDispatch, Update
  <2>3. x \in SUBSET Items
    BY <2>1 DEF DispatchRecord
  <2> HIDE DEF x
  <2>4. /\ s \in DispatchRecord /\ Bound(r, s) /\ s.own = r.own /\ s.life = r.life
        /\ s.effect = r.effect /\ s.staged = r.staged /\ s.acked = r.acked
    BY <2>1, <2>3 DEF DispatchRecord, Bound
  <2> HIDE DEF s
  <2>5. Quiet(r, s) /\ Durable(d, s)
    BY <2>1, <2>4, SameEffectQuiet DEF Durable
  <2>6. DispatchesKeep /\ RecordsTypeOK'
    <3>1. CASE dispatches' = dispatches
      BY <1>1, <3>1, SameKeeps, SameQueues
    <3>2. CASE Update(d, s)
      BY <1>1, <2>1, <2>4, <2>5, <3>2, QuietUpdate, RecordTypeStep
    <3> QED BY <2>2, <3>1, <3>2
  <2>7. MutationsTypeOK' /\ \A m \in mutations' : m \in mutations \/ m.kind # "sidecar"
    <3>1. mutations' \in {mutations, mutations \cup {Mutation("resolved", j, d)}}
      BY <1>4 DEF TellDispatch
    <3> QED BY <2>1, <3>1, ResolvedGives
  <2>8. ControlsTypeOK' /\ \A c \in controls' : Acknowledged(c)
    <3>1. controls' \subseteq controls \cup {a}
      BY <1>4 DEF TellDispatch, EnqueueControls
    <3>2. a \in [kind : {"ack", "cancel"}, dispatch : Ids, job : Items, at : {"queued", "done"}]
          /\ a.kind = "cancel" /\ a.at = "queued"
      BY <2>1 DEF Control
    <3> HIDE DEF a
    <3>3. ControlsTypeOK
      BY DEF CustodyInv, CoordinatorTypeOK, QueuesTypeOK, ControlsTypeOK
    <3> QED BY <3>1, <3>2, <3>3, OldControls DEF ControlsTypeOK, Acknowledged
  <2> QED BY <1>1, <1>2, <2>6, <2>7, <2>8, SameQueues, ActorStep
<1> QED BY <1>3, <1>4 DEF RegisterCommittedCancellations

(* The mutations' store call keeps the invariant: it finishes no job that a  *)
(* worker executes.                                                          *)
LEMMA MutateStep ==
    ASSUME CustodyInv, NEW m \in mutations, MutateJobCancellation(m)
    PROVE  CustodyInv'
<1> DEFINE j == m.job
           d == m.dispatch
           resolves == request' = [request EXCEPT ![j] = "RESOLVED"]
<1>1. UNCHANGED <<dispatches, claim, prepared, lane, controls, stream, stage, worker, wire>>
  BY DEF MutateJobCancellation
<1>2. CoordinatorTypeOK /\ StoreTypeOK /\ QueuesTypeOK /\ j \in Items
  BY DEF CustodyInv, CoordinatorTypeOK, QueuesTypeOK
<1>3. PICK at \in Outcomes : mutations' = (mutations \ {m}) \cup {[m EXCEPT !.at = at]}
  BY DEF MutateJobCancellation, Outcomes
<1> DEFINE n == [m EXCEPT !.at = at]
<1>4. /\ n \in [kind : {"sidecar", "resolved"}, job : Items, dispatch : {0} \cup Ids,
                at : {"queued"} \cup Outcomes]
      /\ n.kind = m.kind /\ n.dispatch = d /\ n.job = j
  BY <1>2 DEF QueuesTypeOK
<1>5. mutations' \subseteq mutations \cup {n}
  BY <1>3
<1> HIDE DEF n
<1>6. \A i \in mutations' : i.kind = "sidecar" =>
         /\ i.dispatch \in Ids
         /\ ~Untouched(i.dispatch)
         /\ worker.dispatch = i.dispatch => ~Executed(i.job)
  BY <1>4, <1>5, OldMutations
<1>7. Sent' = Sent
  BY <1>1 DEF Sent, SentBy
<1>8. QueuesKeep
  BY <1>1, <1>6, <1>7, OldControls, OldStreams DEF QueuesKeep
<1>9. StoreKeeps /\ StoreTypeOK'
  <2>1. CASE UNCHANGED storeVars
    BY <1>1, <1>2, <2>1, StoreSame DEF storeVars, StoreTypeOK
  <2>2. CASE resolves /\ UNCHANGED <<job, attempt>>
    BY <1>1, <1>2, <2>2, StoreSame DEF StoreTypeOK
  <2>3. CASE /\ d = 0 \/ job[j].dispatch = d
             /\ m.kind = "sidecar" /\ job[j].state = "CLAIMED" /\ resolves
             /\ job' = [job EXCEPT ![j].state = "CANCELED"]
             /\ attempt' = [attempt EXCEPT ![d] =
                              IF @ = "CLAIMED" /\ Holds(d) = {j} THEN "CLOSED" ELSE @]
    <3>1. d \in Ids /\ ~Untouched(d) /\ (worker.dispatch = d => ~Executed(j)) /\ d # 0
      BY <2>3, OldMutations DEF Ids
    <3>2. job[j].dispatch = d
      BY <2>3, <3>1
    <3>3. ~Executed(j)
      BY <1>2, <3>1, <3>2 DEF CustodyInv, ExecutedKnown
    <3>4. job[j] \in [state : JobStates, dispatch : {0} \cup Ids]
      BY <1>2 DEF StoreTypeOK
    <3>5. /\ job' \in [Items -> [state : JobStates, dispatch : {0} \cup Ids]]
          /\ job'[j].state = "CANCELED" /\ job'[j].dispatch = d
          /\ \A i \in Items : i # j => job'[i] = job[i]
      BY <1>2, <2>3, <3>2, <3>4 DEF StoreTypeOK, JobStates
    <3>6. JobKeeps(j)
      BY <2>3, <3>1, <3>2, <3>3, <3>5 DEF JobKeeps
    <3>7. \A i \in Items : JobKeeps(i)
      BY <3>5, <3>6 DEF JobKeeps
    <3>8. attempt' \in [Ids -> AttemptStates] /\ \A c \in Ids : c # d => attempt'[c] = attempt[c]
      BY <1>2, <2>3 DEF StoreTypeOK, AttemptStates
    <3>9. attempt'[d] = "none" => attempt[d] = "none"
      BY <1>2, <2>3, <3>1 DEF StoreTypeOK
    <3>10. StoreKeeps
      BY <1>1, <3>1, <3>7, <3>8, <3>9 DEF StoreKeeps, CustodyInv, ClaimOK
    <3> QED BY <1>2, <2>3, <3>5, <3>8, <3>10 DEF StoreTypeOK
  <2> QED BY <2>1, <2>2, <2>3 DEF MutateJobCancellation
<1>10. DispatchesKeep /\ WorkerKeeps /\ WorkerOK'
  BY <1>1, SameKeeps, WorkerSame, WorkerOKSame
<1>11. CoordinatorTypeOK'
  BY <1>1, <1>2, <1>4, <1>5, <1>9
     DEF CoordinatorTypeOK, ActorTypeOK, QueuesTypeOK, WorkerTypeOK, Registered
<1> QED BY <1>8, <1>9, <1>10, <1>11, KeepCustody

(* ApplyCancellationMutationReceipts keeps the invariant.                    *)
LEMMA ReceiptStep ==
    ASSUME CustodyInv, NEW m \in mutations, ApplyCancellationMutationReceipts(m)
    PROVE  CustodyInv'
<1> DEFINE d == m.dispatch
           r == dispatches[d]
           x == r.persisted \cup {m.job}
           s == [r EXCEPT !.persisted = x]
<1>1. /\ WireKeeps /\ mutations' = mutations \ {m}
      /\ UNCHANGED <<job, attempt, request, claim, prepared, controls, stream, stage, worker>>
  BY DEF ApplyCancellationMutationReceipts, WireKeeps
<1>2. StoreKeeps
  BY <1>1, StoreSame
<1>3. MutationsTypeOK' /\ \A n \in mutations' : n \in mutations \/ n.kind # "sidecar"
  BY <1>1 DEF CustodyInv, CoordinatorTypeOK, QueuesTypeOK, MutationsTypeOK
<1>4. \/ UNCHANGED <<dispatches, lane>>
      \/ d \in Registered /\ s.suppressed = s.items /\ RemoveDispatch(d) /\ lane' = ClearWorkerIdentity(s, d)
      \/ d \in Registered /\ MaybeRetire(d, s)
  BY DEF ApplyCancellationMutationReceipts
<1>5. DispatchesKeep /\ LaneTypeOK' /\ RecordsTypeOK'
  <2>1. CASE UNCHANGED <<dispatches, lane>>
    BY <1>1, <2>1, SameKeeps, LaneSame, SameQueues
  <2>2. ASSUME d \in Registered
        PROVE  /\ s \in DispatchRecord /\ Bound(r, s) /\ s.own = r.own /\ s.life = r.life
               /\ s.effect = r.effect /\ Durable(d, s)
    <3>1. r \in DispatchRecord /\ \A j \in r.staged \cup r.acked : FinishedBy(j, d)
      BY <2>2, RecordTyped DEF CustodyInv, AcksOK
    <3>2. x \in SUBSET Items
      BY <3>1 DEF DispatchRecord, CustodyInv, CoordinatorTypeOK, QueuesTypeOK
    <3> HIDE DEF x
    <3>3. /\ s \in DispatchRecord /\ Bound(r, s) /\ s.own = r.own /\ s.life = r.life
          /\ s.effect = r.effect /\ s.staged = r.staged /\ s.acked = r.acked
      BY <3>1, <3>2 DEF DispatchRecord, Bound
    <3> QED BY <3>1, <3>3 DEF Durable
  <2> HIDE DEF s
  <2>3. CASE d \in Registered /\ s.suppressed = s.items /\ RemoveDispatch(d) /\ lane' = ClearWorkerIdentity(s, d)
    <3>1. r.suppressed = r.items
      BY <2>2, <2>3 DEF Bound
    <3>2. \A j \in Items : Executed(j) => worker.dispatch # d
      BY <3>1 DEF CustodyInv, ExecutedKnown
    <3>3. DispatchesKeep /\ LaneTypeOK'
      BY <1>1, <2>3, <3>2, RemoveKeeps, LaneCleared
    <3> QED BY <2>3, <3>3, RecordsLeftTyped DEF RecordsTypeOK, CustodyInv, CoordinatorTypeOK
  <2>4. CASE d \in Registered /\ MaybeRetire(d, s)
    BY <1>1, <2>2, <2>4, NotedRetire
  <2> QED BY <1>4, <2>1, <2>3, <2>4
<1> QED BY <1>1, <1>2, <1>3, <1>5, SameQueues, ActorStep
-----------------------------------------------------------------------------
(* Shutdown, and the whole *)

(* The start of a shutdown keeps the invariant: it leaves every record's owner. *)
LEMMA BeginShutdownStep ==
    ASSUME CustodyInv, BeginShutdown
    PROVE  CustodyInv'
<1>1. /\ stage = "Running" /\ stage' = "Quiescing"
      /\ dispatches' = [d \in Registered |->
                          IF dispatches[d].effect = Begin("Reconstruction")
                          THEN [dispatches[d] EXCEPT !.effect = NoEffect, !.life = "Faulted"]
                          ELSE dispatches[d]]
      /\ UNCHANGED <<job, attempt, request, claim, prepared, lane, controls, stream, mutations, worker, wire>>
  BY DEF BeginShutdown
<1>2. Registered' = Registered
  BY <1>1 DEF Registered
<1>3. ASSUME NEW d \in Registered
      PROVE  RecordKeeps(d) /\ dispatches'[d] \in DispatchRecord /\ (Fresh(d)' => Fresh(d))
  <2> DEFINE r == dispatches[d]
             s == [r EXCEPT !.effect = NoEffect, !.life = "Faulted"]
  <2>1. /\ r \in DispatchRecord /\ EffectOwned(r) /\ (d \in prepared => PreparedRests(r))
        /\ \A j \in r.staged \cup r.acked : FinishedBy(j, d)
    BY RecordTyped DEF CustodyInv, AcksOK
  <2>2. CASE dispatches'[d] = r
    BY <1>1, <1>2, <2>1, <2>2 DEF RecordKeeps, Fresh
  <2>3. CASE r.effect = Begin("Reconstruction") /\ dispatches'[d] = s
    <3>1. NoEffect \in Effect
      BY DEF Effect
    <3>2. /\ s \in DispatchRecord /\ Bound(r, s) /\ s.own = r.own /\ s.effect = NoEffect
          /\ s.staged = r.staged /\ s.acked = r.acked
      BY <2>1, <3>1 DEF DispatchRecord, Bound
    <3>3. dispatches'[d] = s
      BY <2>3
    <3> HIDE DEF s
    <3>4. r.own = "Coordinator" /\ ~Given(r) /\ Fresh(d) /\ d \notin prepared
      BY <2>1, <2>3 DEF EffectOwned, Given, Begin, PreparedRests, NoEffect, Fresh, Offered
    <3>5. EffectOwned(s)
      BY <3>2 DEF EffectOwned, NoEffect
    <3> QED BY <1>1, <2>1, <3>2, <3>3, <3>4, <3>5 DEF RecordKeeps, Bound
  <2> QED BY <1>1, <2>2, <2>3
<1>4. DispatchesKeep
  <2>1. \A j \in Items : Executed(j) => worker.dispatch \in Registered'
    BY <1>2 DEF CustodyInv, ExecutedKnown
  <2> QED BY <1>1, <1>2, <1>3, <2>1 DEF DispatchesKeep
<1>5. StoreKeeps /\ WorkerKeeps
  BY <1>1, StoreSame, WorkerSame
<1>6. QueuesKeep /\ (QueuesTypeOK => QueuesTypeOK')
  BY <1>1, QueuesSame
<1>7. WorkerOK'
  BY <1>1 DEF CustodyInv, WorkerOK
<1>8. CoordinatorTypeOK'
  BY <1>1, <1>2, <1>3, <1>6 DEF CustodyInv, CoordinatorTypeOK, StoreTypeOK, ActorTypeOK, WorkerTypeOK
<1> QED BY <1>4, <1>5, <1>6, <1>7, <1>8, KeepCustody

(* The recovery returns what is still open; no worker is left that executes  *)
(* any of it.                                                                *)
LEMMA RecoveryStep ==
    ASSUME CustodyInv, ShutdownRecovery
    PROVE  CustodyInv'
<1>1. /\ stage = "Recovering" /\ stage' = "Recovered" /\ dispatches' = <<>> /\ prepared' = {}
      /\ UNCHANGED <<request, claim, lane, controls, stream, mutations, worker, wire>>
  BY DEF ShutdownRecovery
<1>2. CoordinatorTypeOK /\ WorkerOK /\ StoreTypeOK
  BY DEF CustodyInv, CoordinatorTypeOK
<1>3. ~worker.up /\ claim.at = "none" /\ worker.items = NoItem
  BY <1>1, <1>2 DEF WorkerOK
<1>4. \A j \in Items : ~Executed(j) /\ worker.items[j] # "acked"
  BY <1>3, NoItemTyped DEF Executed
<1>41. \A j \in Items : ~Executed(j)'
  BY <1>1, <1>4 DEF Executed
<1>5. Registered' = {}
  BY <1>1 DEF Registered
<1>6. /\ job' \in [Items -> [state : JobStates, dispatch : {0} \cup Ids]]
      /\ \A j \in Items :
            \/ job'[j] = job[j]
            \/ /\ job[j].state \in {"CLAIMED", "RUNNING"}
               /\ \/ job'[j] = [state |-> "QUEUED", dispatch |-> 0]
                  \/ job'[j].state = "INTERRUPTED" /\ job'[j].dispatch = job[j].dispatch
  <2>1. {d \in Ids : attempt[d] \in {"CLAIMED", "ACTIVE", "DRAINING"}} \in SUBSET Ids
    OBVIOUS
  <2>2. job' = job \/ \E D \in SUBSET Ids : job' = ReturnJobs(D)
    BY <2>1 DEF ShutdownRecovery
  <2>3. CASE job' = job
    BY <1>2, <2>3 DEF StoreTypeOK
  <2>4. CASE \E D \in SUBSET Ids : job' = ReturnJobs(D)
    BY <1>2, <2>4, Returned
  <2> QED BY <2>2, <2>3, <2>4
<1>7. attempt' \in [Ids -> AttemptStates] /\ \A d \in Ids : attempt'[d] = "none" => attempt[d] = "none"
  <2>1. \/ attempt' = attempt
        \/ \E D : attempt' = [d \in Ids |-> IF d \in D THEN "CLOSED" ELSE attempt[d]]
    BY DEF ShutdownRecovery
  <2> QED BY <1>2, <2>1 DEF StoreTypeOK, AttemptStates
<1>8. \A j \in Items : \A d : FinishedBy(j, d) => job'[j] = [state |-> "FINISHED", dispatch |-> d]
  BY <1>6 DEF FinishedBy
<1>9. CoordinatorTypeOK'
  <2>1. ActorTypeOK'
    BY <1>1, <1>2, <1>5 DEF CoordinatorTypeOK, ActorTypeOK
  <2>2. StoreTypeOK' /\ QueuesTypeOK' /\ WorkerTypeOK'
    BY <1>1, <1>2, <1>6, <1>7 DEF CoordinatorTypeOK, StoreTypeOK, QueuesTypeOK, WorkerTypeOK
  <2> QED BY <2>1, <2>2 DEF CoordinatorTypeOK
<1>10. RecordsOK' /\ FreshOK' /\ ClaimOK'
  BY <1>1, <1>3, <1>5 DEF RecordsOK, FreshOK, ClaimOK
<1>11. WorkerOK'
  BY <1>1, <1>2, <1>3 DEF WorkerOK
<1>12. ExecutedKnown' /\ AckedIsDurable'
  BY <1>1, <1>4, <1>41 DEF ExecutedKnown, AckedIsDurable
<1>13. JobsOK'
  <2>1. ASSUME NEW d \in Ids, attempt'[d] = "none"
        PROVE  \A j \in Items : job'[j].dispatch # d
    <3>1. \A j \in Items : job[j].dispatch # d
      BY <1>7, <2>1 DEF CustodyInv, JobsOK
    <3>2. d # 0
      BY DEF Ids
    <3> QED BY <1>6, <3>1, <3>2
  <2>2. ASSUME NEW j \in Items
        PROVE  job'[j].state = "QUEUED" <=> job'[j].dispatch = 0
    <3>1. job[j].state = "QUEUED" <=> job[j].dispatch = 0
      BY DEF CustodyInv, JobsOK
    <3> QED BY <1>6, <3>1
  <2> QED BY <1>1, <1>5, <2>1, <2>2 DEF JobsOK
<1>14. UnseenOK'
  <2> SUFFICES ASSUME NEW d \in Ids, Untouched(d)'
      PROVE  /\ worker'.dispatch # d
             /\ \A e \in Sent' : e.dispatch # d
             /\ stream'[d].events = <<>>
             /\ \A m \in mutations' : m.kind = "sidecar" => m.dispatch # d
    BY DEF UnseenOK
  <2>1. attempt'[d] = "none"
    BY <1>1, <1>3, <1>5 DEF Untouched, ClaimedNow, Fresh
  <2>2. Untouched(d)
    BY <1>7, <2>1 DEF Untouched
  <2> QED BY <1>1, <2>2 DEF CustodyInv, UnseenOK, Sent, SentBy
<1>15. ReportsOK'
  <2> SUFFICES ASSUME NEW e \in Sent PROVE ReportOK(e)'
    BY <1>1 DEF ReportsOK, Sent, SentBy
  <2>1. ReportOK(e)
    BY DEF CustodyInv, ReportsOK
  <2> QED BY <1>1, <1>3, <1>41, <2>1 DEF ReportOK
<1>16. PersistOK'
  <2> SUFFICES ASSUME NEW d \in Ids, stream[d].io # "none"
      PROVE  Persisting(d)'
    BY <1>1 DEF PersistOK
  <2> DEFINE e == EvidenceOf(d)
  <2>1. Persisting(d) /\ e.job \in Items
    BY PersistingKnown
  <2>2. EvidenceOf(d)' = e
    BY <1>1 DEF EvidenceOf
  <2>3. HasEvidence(d, {"Started", "Terminal"})'
    BY <1>1, <2>1, <2>2 DEF Persisting, HasEvidence
  <2> QED BY <1>1, <1>5, <1>8, <2>1, <2>2, <2>3 DEF Persisting, FinishedBy
<1>17. AcksOK'
  <2>1. \A c \in controls : c.job \in Items
    BY <1>2 DEF CoordinatorTypeOK, QueuesTypeOK
  <2>2. \A c \in controls : c.kind = "ack" =>
           job'[c.job] = [state |-> "FINISHED", dispatch |-> c.dispatch]
    BY <1>8, <2>1, OldControls
  <2> QED BY <1>1, <1>5, <2>2 DEF AcksOK, FinishedBy
<1>18. SidecarsOK'
  BY <1>1, <1>41, <1>2, OldMutations DEF SidecarsOK, CoordinatorTypeOK, QueuesTypeOK
<1> QED BY <1>9, <1>10, <1>11, <1>12, <1>13, <1>14, <1>15, <1>16, <1>17, <1>18 DEF CustodyInv

(* A stuttering step keeps the invariant.                                    *)
LEMMA StutterStep ==
    ASSUME CustodyInv, UNCHANGED vars
    PROVE  CustodyInv'
<1>1. UNCHANGED <<job, attempt, request, dispatches, prepared, stream, controls, mutations,
                  worker, wire, stage, claim, lane>>
  BY DEF vars
<1>2. LaneTypeOK'
  BY <1>1, LaneSame
<1> QED BY <1>1, <1>2, IdleStep

(* The invariant holds at the start,                                         *)
LEMMA CustodyInit == Init => CustodyInv
<1> SUFFICES ASSUME Init PROVE CustodyInv
  OBVIOUS
<1>1. 1 \in Ids /\ 1 \in Generations
  BY DispatchAssumption DEF Ids, Generations
<1>2. Registered = {} /\ wire = <<>> /\ prepared = {} /\ claim = NoClaim /\ mutations = {}
      /\ controls = {} /\ stage = "Running"
  BY DEF Init, Registered
<1>3. \A d \in Ids : stream[d] = EmptyStream
  BY DEF Init
<1>4. Sent = {}
  BY <1>2, <1>3 DEF Sent, SentBy, EmptyStream, Range
<1>5. /\ worker.gen = 1 /\ worker.up /\ ~worker.retire /\ worker.dispatch = 0
      /\ worker.items = NoItem /\ ~worker.done
  BY DEF Init
<1>6. \A j \in Items : ~Executed(j) /\ worker.items[j] # "acked"
  BY <1>5, NoItemTyped DEF Executed
<1>7. \A j \in Items : job[j] = [state |-> "QUEUED", dispatch |-> 0]
  BY DEF Init
<1>8. StoreTypeOK
  BY DEF Init, StoreTypeOK, JobStates, AttemptStates
<1>9. ActorTypeOK
  BY <1>1, <1>2 DEF Init, ActorTypeOK, NoClaim, ReadyLane
<1>10. QueuesTypeOK
  <2>1. EmptyStream \in StreamRecord
    BY DEF EmptyStream, StreamRecord
  <2> QED BY <1>2, <2>1 DEF Init, QueuesTypeOK
<1>11. WorkerTypeOK
  BY <1>1, <1>2, NoItemTyped DEF Init, WorkerTypeOK
<1>12. RecordsOK /\ FreshOK /\ ClaimOK /\ AcksOK /\ SidecarsOK /\ ReportsOK
  BY <1>2, <1>4 DEF RecordsOK, FreshOK, ClaimOK, AcksOK, SidecarsOK, ReportsOK, NoClaim
<1>13. WorkerOK
  BY <1>2, <1>5 DEF WorkerOK, Range
<1>14. ExecutedKnown /\ AckedIsDurable
  BY <1>6 DEF ExecutedKnown, AckedIsDurable
<1>15. JobsOK
  <2>1. \A d \in Ids : d # 0
    BY DEF Ids
  <2> QED BY <1>2, <1>7, <2>1 DEF JobsOK
<1>16. UnseenOK
  <2>1. \A d \in Ids : d # 0
    BY DEF Ids
  <2> QED BY <1>2, <1>3, <1>4, <1>5, <2>1 DEF UnseenOK, EmptyStream
<1>17. PersistOK
  BY <1>3 DEF PersistOK, EmptyStream
<1> QED BY <1>8, <1>9, <1>10, <1>11, <1>12, <1>13, <1>14, <1>15, <1>16, <1>17
        DEF CustodyInv, CoordinatorTypeOK

(* it is kept by every handler of a dispatch,                                *)
LEMMA DispatchStepKeeps ==
    ASSUME CustodyInv, NEW d \in Registered, DispatchStep(d)
    PROVE  CustodyInv'
BY ReconstructStep, ReconstructionFailsStep, AdmitStep, SubmitStep, SubmissionCompletionStep,
   ConfirmResidenceStep, HandleResidenceStep, CoordinationIoStep, CoordinationIoFailsStep,
   ActivationCompletionStep, RetryActivationStep, PendingDrainingStep, DrainingCompletionStep,
   ReleaseCompletionStep, ContainmentStep
   DEF DispatchStep

(* by every handler of a stream's evidence,                                  *)
LEMMA EvidenceStepKeeps ==
    ASSUME CustodyInv, NEW d \in Ids, EvidenceStep(d)
    PROVE  CustodyInv'
BY DiscardStep, BeginPersistenceStep, PersistStep, PersistedStep, SummaryStep DEF EvidenceStep

(* and by every step.                                                        *)
LEMMA CustodyNext == CustodyInv /\ [Next]_vars => CustodyInv'
<1> SUFFICES ASSUME CustodyInv, [Next]_vars PROVE CustodyInv'
  OBVIOUS
<1>1. CASE ClaimStep
  BY <1>1, ScheduleClaimStep, ClaimIoStep, ClaimFailsStep, ClaimCompletionStep DEF ClaimStep
<1>2. CASE \E d \in Registered : DispatchStep(d)
  BY <1>2, DispatchStepKeeps
<1>3. CASE \E d \in Ids : EvidenceStep(d) \/ ApplyFaultDispatch(d)
  BY <1>3, EvidenceStepKeeps, FaultStep
<1>4. CASE WorkerEventStep
  BY <1>4, RouteStep, WorksetStateStep, UnavailableStep DEF WorkerEventStep
<1>5. CASE ControlStep
  BY <1>5, ExecuteAcknowledgeStep, ControlCompletionStep, CancelItemStep DEF ControlStep
<1>6. CASE CancellationStep
  BY <1>6, RegisterStep, MutateStep, ReceiptStep DEF CancellationStep
<1>7. CASE ShutdownStep
  BY <1>7, FinishShutdownStep, ProcessShutdownStep, RecoveryStep DEF ShutdownStep
<1>8. CASE WorkerStep
  BY <1>8, StartItemStep, EndItemStep, CompleteStep, SummariseStep DEF WorkerStep
<1>9. CASE WorkerDies \/ HandleWorkerReady \/ ClearInvariantPause \/ BeginShutdown
  BY <1>9, WorkerDiesStep, WorkerReadyStep, ClearPauseStep, BeginShutdownStep
<1>10. CASE \E j \in Items : CommitCancellation(j)
  BY <1>10, CommitStep
<1>11. CASE UNCHANGED vars
  BY <1>11, StutterStep
<1> QED BY <1>1, <1>2, <1>3, <1>4, <1>5, <1>6, <1>7, <1>8, <1>9, <1>10, <1>11 DEF Next

(* The inductive invariant: from the store's claim to the worker's terminal, *)
(* the records of the coordinator, the store, the queues, the wire and the   *)
(* worker agree on who has a dispatch.                                       *)
THEOREM SpecCustodyInv == Spec => []CustodyInv
BY CustodyInit, CustodyNext, PTL DEF Spec

(* A terminal that was acknowledged to the worker, which then forgets it, is *)
(* in the store as the end of the job: HandlePersisted queues the            *)
(* acknowledgement only after the store call.                                *)
THEOREM SpecAckedIsDurable == Spec => []AckedIsDurable
<1>1. CustodyInv => AckedIsDurable
  BY DEF CustodyInv
<1> QED BY <1>1, SpecCustodyInv, PTL
-----------------------------------------------------------------------------
(* The coordinator keeps the custody of the jobs *)

AtWork == [j \in Items |-> IF Executed(j) THEN worker.dispatch ELSE 0]
CustodyStep == [Custody!Next]_(Custody!custodyVars)

(* The worker only ends what it executes, or nothing changes. *)
LEMMA EndsOnly ==
    ASSUME UNCHANGED job, \A j \in Items : Executed(j)' => Executed(j) /\ worker'.dispatch = worker.dispatch
    PROVE  CustodyStep
<1> DEFINE S == {j \in Items : ~Executed(j)'}
<1>1. AtWork' = [j \in Items |-> IF j \in S THEN 0 ELSE AtWork[j]]
  BY DEF AtWork
<1>2. Custody!End(S)
  BY <1>1 DEF Custody!End, AtWork
<1>3. S \in SUBSET Items
  OBVIOUS
<1>4. Custody!Next
  BY <1>2, <1>3 DEF Custody!Next
<1> QED BY <1>4 DEF CustodyStep

(* Asking a worker to retire gives no job away,                              *)
LEMMA RetiresOnly ==
    ASSUME CustodyInv, UNCHANGED job, NEW g, worker' \in {worker, Retire(worker, g)}
    PROVE  CustodyStep
<1>1. worker'.dispatch = worker.dispatch /\ worker'.items = worker.items
  BY DEF Retire, CustodyInv, CoordinatorTypeOK, WorkerTypeOK
<1> QED BY <1>1, EndsOnly DEF Executed

(* A store transaction that returns jobs no worker executes gives them back. *)
LEMMA ReturnGives ==
    ASSUME NEW D \in SUBSET Ids, job' = ReturnJobs(D), UNCHANGED worker,
           \A j \in UNION {Holds(d) : d \in D} : ~Executed(j)
    PROVE  CustodyStep
<1> DEFINE S == UNION {Holds(d) : d \in D}
<1>1. S \in SUBSET Items /\ \A j \in S : job[j].state \in {"CLAIMED", "RUNNING"}
  BY DEF Holds
<1>2. job' = [j \in Items |->
                IF j \notin S THEN job[j]
                ELSE IF job[j].state = "RUNNING" THEN [job[j] EXCEPT !.state = "INTERRUPTED"]
                ELSE [state |-> "QUEUED", dispatch |-> 0]]
  BY DEF ReturnJobs
<1>3. \A j \in S : ~Executed(j)
  OBVIOUS
<1> HIDE DEF S
<1>4. AtWork' = AtWork /\ \A j \in S : AtWork[j] = 0
  BY <1>1, <1>3 DEF AtWork, Executed
<1>5. Custody!Return(S)
  BY <1>1, <1>2, <1>4 DEF Custody!Return, Custody!Held, Custody!Idle, AtWork
<1>6. Custody!Next
  BY <1>1, <1>5 DEF Custody!Next
<1> QED BY <1>6 DEF CustodyStep

(* A claim takes queued jobs for a dispatch that had none. *)
LEMMA ClaimTakes ==
    ASSUME CustodyInv, ClaimIo
    PROVE  CustodyStep
<1>1. claim.at = "queued" /\ worker' = worker
  BY DEF ClaimIo
<1>11. PICK c \in Ids : attempt[c] = "none"
  BY <1>1 DEF CustodyInv, ClaimOK
<1>2. NextId \in Ids /\ attempt[NextId] = "none"
  BY <1>11, NextIdIsNew
<1>3. PICK d \in Ids : d = NextId
  BY <1>2
<1>4. PICK S \in SUBSET Items :
         /\ \A j \in S : job[j].state = "QUEUED"
         /\ job' = [j \in Items |-> IF j \in S THEN [state |-> "CLAIMED", dispatch |-> d] ELSE job[j]]
  BY <1>3 DEF ClaimIo
<1>5. \A j \in Items : job[j].dispatch # d /\ AtWork[j] # d
  <2>1. \A j \in Items : job[j].dispatch # d
    BY <1>2, <1>3 DEF CustodyInv, JobsOK
  <2>2. d # 0
    BY DEF Ids
  <2> QED BY <2>1, <2>2 DEF AtWork, CustodyInv, ExecutedKnown
<1>6. AtWork' = AtWork
  BY <1>1 DEF AtWork, Executed
<1>7. Custody!Take(S, d)
  BY <1>4, <1>5, <1>6 DEF Custody!Take, AtWork
<1>8. Custody!Next
  BY <1>7 DEF Custody!Next
<1> QED BY <1>8 DEF CustodyStep

(* A worker that accepts a workset gets jobs the dispatch holds unstarted. *)
LEMMA SubmissionGives ==
    ASSUME CustodyInv, NEW d \in Registered, SubmitWorksetToWorker(d)
    PROVE  CustodyStep
<1>1. d \in Ids /\ dispatches[d] \in DispatchRecord /\ job' = job /\ CoordinatorTypeOK
  BY RecordTyped DEF SubmitWorksetToWorker, CustodyInv
<1>2. CASE worker' = worker
  BY <1>1, <1>2, EndsOnly DEF Executed
<1>3. CASE worker.dispatch = 0 /\ worker' = AcceptWorkset(d)
  <2>1. /\ worker'.dispatch = d
        /\ \A j \in Items : Executed(j)' => j \in dispatches[d].items
    BY <1>1, <1>3, AcceptedTyped DEF Executed
  <2>2. \A j \in Items : ~Executed(j)
    BY <1>3, NoItemTyped DEF CustodyInv, WorkerOK, Executed
  <2>3. Fresh(d)
    BY DEF SubmitWorksetToWorker, Fresh, Offered, Begin
  <2>4. \A j \in dispatches[d].items : job[j] = [state |-> "CLAIMED", dispatch |-> d]
    BY <2>3 DEF CustodyInv, FreshOK, Taken
  <2> DEFINE S == {j \in Items : Executed(j)'}
  <2>5. S \in SUBSET Items /\ \A j \in S : AtWork[j] = 0 /\ job[j] = [state |-> "CLAIMED", dispatch |-> d]
    BY <2>1, <2>2, <2>4 DEF AtWork
  <2>6. AtWork' = [j \in Items |-> IF j \in S THEN d ELSE AtWork[j]]
    BY <2>1, <2>2 DEF AtWork
  <2> HIDE DEF S
  <2>7. Custody!Give(S, d)
    BY <1>1, <2>5, <2>6 DEF Custody!Give, Custody!Idle, AtWork
  <2>8. Custody!Next
    BY <1>1, <2>5, <2>7 DEF Custody!Next
  <2> QED BY <2>8 DEF CustodyStep
<1> QED BY <1>2, <1>3 DEF SubmitWorksetToWorker

(* Only a release gives jobs back, of a dispatch no worker can have. *)
LEMMA IoReturns ==
    ASSUME CustodyInv, NEW d \in Registered, CoordinationIo(d)
    PROVE  CustodyStep
<1>1. d \in Ids /\ EffectOwned(dispatches[d]) /\ worker' = worker
  BY RecordTyped DEF CoordinationIo
<1>2. CASE job' = job
  BY <1>1, <1>2, EndsOnly DEF Executed
<1>3. CASE dispatches[d].effect = Begin("Release") /\ job' = ReturnJobs({d})
  <2>1. ~Given(dispatches[d])
    BY <1>1, <1>3 DEF EffectOwned, Given, Begin
  <2>2. \A j \in Items : Executed(j) => worker.dispatch # d
    BY <2>1, NotGivenIsIdle
  <2>3. \A j \in UNION {Holds(c) : c \in {d}} : ~Executed(j)
    BY <2>2 DEF Holds, CustodyInv, ExecutedKnown
  <2> QED BY <1>1, <1>3, <2>3, ReturnGives
<1> QED BY <1>2, <1>3
        DEF CoordinationIo, MarkWorksetActive, MarkWorksetDraining, ReleaseWorksetDispatch

(* The recovery of a shutdown gives back what is still open.                 *)
LEMMA RecoveryReturns ==
    ASSUME CustodyInv, ShutdownRecovery
    PROVE  CustodyStep
<1>1. stage = "Recovering" /\ worker' = worker
  BY DEF ShutdownRecovery
<1>2. \A j \in Items : ~Executed(j)
  BY <1>1, NoItemTyped DEF CustodyInv, WorkerOK, Executed
<1>3. CASE job' = job
  BY <1>1, <1>3, EndsOnly DEF Executed
<1>4. ASSUME NEW D \in SUBSET Ids, job' = ReturnJobs(D)
      PROVE  CustodyStep
  <2>1. \A j \in UNION {Holds(c) : c \in D} : ~Executed(j)
    BY <1>2 DEF Holds
  <2> QED BY <1>1, <1>4, <2>1, ReturnGives
<1>5. {d \in Ids : attempt[d] \in {"CLAIMED", "ACTIVE", "DRAINING"}} \in SUBSET Ids
  OBVIOUS
<1> QED BY <1>3, <1>4, <1>5 DEF ShutdownRecovery

(* The evidence of a job records its start, or its end when it has ended. *)
LEMMA PersistRecords ==
    ASSUME CustodyInv, NEW d \in Ids, PersistWorkerEvent(d)
    PROVE  CustodyStep
<1> DEFINE e == EvidenceOf(d)
           write == IF e.type = "Started" THEN MarkWorksetJobStarted(d, e) ELSE StageWorkerTerminal(d, e)
<1>1. worker' = worker /\ stream[d].io = "wait"
  BY DEF PersistWorkerEvent
<1>2. /\ e.type \in {"Started", "Terminal"} /\ e.job \in Items
      /\ e.type = "Terminal" /\ job[e.job].dispatch = d => ~Executed(e.job)
  BY <1>1, PersistingKnown
<1>3. AtWork' = AtWork
  BY <1>1 DEF AtWork, Executed
<1>4. CASE job' = job
  BY <1>1, <1>4, EndsOnly DEF Executed
<1>5. CASE write.allowed /\ job' = [job EXCEPT ![e.job].state = write.state]
  <2>1. CASE e.type = "Started"
    <3>1. job[e.job] = [state |-> "CLAIMED", dispatch |-> d] /\ job' = [job EXCEPT ![e.job].state = "RUNNING"]
      BY <1>5, <2>1 DEF MarkWorksetJobStarted
    <3>2. Custody!RecordStart(e.job)
      BY <1>3, <3>1 DEF Custody!RecordStart, AtWork
    <3>3. Custody!Next
      BY <1>2, <3>2 DEF Custody!Next
    <3> QED BY <3>3 DEF CustodyStep
  <2>2. CASE e.type = "Terminal"
    <3>1. write = StageWorkerTerminal(d, e)
      BY <2>2
    <3>2. /\ job[e.job] = [state |-> IF e.unstarted THEN "CLAIMED" ELSE "RUNNING", dispatch |-> d]
          /\ job' = [job EXCEPT ![e.job].state = "FINISHED"]
      <4>1. LET w == StageWorkerTerminal(d, e) IN
            /\ w.allowed => job[e.job] = [state |-> IF e.unstarted THEN "CLAIMED" ELSE "RUNNING", dispatch |-> d]
            /\ w.state = "FINISHED"
        BY DEF StageWorkerTerminal
      <4> QED BY <1>5, <3>1, <4>1
    <3>3. AtWork[e.job] = 0
      BY <1>2, <2>2, <3>2 DEF AtWork
    <3>4. job[e.job].state \in {"CLAIMED", "RUNNING"}
      BY <3>2
    <3>5. Custody!Finish(e.job)
      BY <1>3, <3>2, <3>3, <3>4 DEF Custody!Finish, Custody!Held, Custody!Idle, AtWork
    <3>6. Custody!Next
      BY <1>2, <3>5 DEF Custody!Next
    <3> QED BY <3>6 DEF CustodyStep
  <2> QED BY <1>2, <2>1, <2>2
<1> QED BY <1>4, <1>5 DEF PersistWorkerEvent, storeVars

(* A sidecar cancels a job that waits in no worker. *)
LEMMA MutationCancels ==
    ASSUME CustodyInv, NEW m \in mutations, MutateJobCancellation(m)
    PROVE  CustodyStep
<1> DEFINE j == m.job
           d == m.dispatch
<1>1. worker' = worker /\ j \in Items
  BY DEF MutateJobCancellation, CustodyInv, CoordinatorTypeOK, QueuesTypeOK
<1>2. AtWork' = AtWork
  BY <1>1 DEF AtWork, Executed
<1>3. CASE job' = job
  BY <1>1, <1>3, EndsOnly DEF Executed
<1>4. CASE /\ d = 0 \/ job[j].dispatch = d
           /\ m.kind = "sidecar" /\ job[j].state = "CLAIMED"
           /\ job' = [job EXCEPT ![j].state = "CANCELED"]
  <2>1. d \in Ids /\ (worker.dispatch = d => ~Executed(j)) /\ d # 0
    BY <1>4, OldMutations DEF Ids
  <2>2. ~Executed(j)
    BY <1>1, <1>4, <2>1 DEF CustodyInv, ExecutedKnown
  <2>3. AtWork[j] = 0
    BY <1>1, <2>2 DEF AtWork
  <2>4. Custody!Cancel(j)
    BY <1>2, <1>4, <2>3 DEF Custody!Cancel, Custody!Idle, AtWork
  <2>5. Custody!Next
    BY <1>1, <2>4 DEF Custody!Next
  <2> QED BY <2>5 DEF CustodyStep
<1> QED BY <1>3, <1>4 DEF MutateJobCancellation, storeVars

(* A step that leaves jobs and worker alone leaves the custody alone.        *)
LEMMA SameCustody ==
    ASSUME UNCHANGED <<job, worker>>
    PROVE  CustodyStep
BY EndsOnly DEF Executed

(* Every handler of a dispatch is a step of the custody, or no step of it,   *)
LEMMA DispatchCustody ==
    ASSUME CustodyInv, NEW d \in Registered, DispatchStep(d)
    PROVE  CustodyStep
<1>1. CASE Reconstruct(d) \/ ReconstructionFails(d) \/ AdmitPreparedDispatch(d)
           \/ HandleSubmissionCompletion(d) \/ HandleResidenceCompletion(d) \/ CoordinationIoFails(d)
           \/ RetryActivation(d) \/ ProcessPendingDrainingTransitions(d)
           \/ HandleDrainingIoCompletion(d) \/ HandleReleaseIoCompletion(d)
  BY <1>1, SameCustody
     DEF Reconstruct, ReconstructionFails, AdmitPreparedDispatch, HandleSubmissionCompletion,
         HandleResidenceCompletion, CoordinationIoFails, RetryActivation,
         ProcessPendingDrainingTransitions, HandleDrainingIoCompletion, HandleReleaseIoCompletion
<1>2. CASE ConfirmResidence(d)
  BY <1>2, RetiresOnly DEF ConfirmResidence
<1>3. CASE HandleActivationIoCompletion(d)
  <2> DEFINE r == dispatches[d]
             idle == [r EXCEPT !.effect = NoEffect]
             g == r.gen
  <2>1. UNCHANGED job
    BY <1>3 DEF HandleActivationIoCompletion
  <2>2. CASE r.life = "Faulted"
    <3>1. worker' = IF RetiresWorker(idle) THEN Retire(worker, g) ELSE worker
      BY <1>3, <2>2 DEF HandleActivationIoCompletion
    <3> HIDE DEF idle, g
    <3> QED BY <2>1, <3>1, RetiresOnly
  <2>3. CASE r.life # "Faulted" /\ r.effect.at = "failed"
    <3>1. UNCHANGED worker
      BY <1>3, <2>3 DEF HandleActivationIoCompletion
    <3> QED BY <2>1, <3>1, SameCustody
  <2>4. CASE r.life # "Faulted" /\ r.effect.at # "failed"
    <3>1. Activated(d)
      BY <1>3, <2>4 DEF HandleActivationIoCompletion
    <3>2. worker' \in {worker, Retire(worker, g)}
      BY <3>1 DEF Activated
    <3> HIDE DEF g
    <3> QED BY <2>1, <3>2, RetiresOnly
  <2> QED BY <2>2, <2>3, <2>4
<1>4. CASE ProcessContainment(d)
  BY <1>4, RetiresOnly DEF ProcessContainment
<1> QED BY <1>1, <1>2, <1>3, <1>4, SubmissionGives, IoReturns DEF DispatchStep

(* and so is every handler of a stream's evidence,                           *)
LEMMA EvidenceCustody ==
    ASSUME CustodyInv, NEW d \in Ids, EvidenceStep(d) \/ ApplyFaultDispatch(d)
    PROVE  CustodyStep
<1>1. CASE DiscardEvidence(d) \/ BeginPersistence(d) \/ HandlePersisted(d) \/ HandleWorksetSummary(d)
  BY <1>1, SameCustody DEF DiscardEvidence, BeginPersistence, HandlePersisted, HandleWorksetSummary
<1>2. CASE ApplyFaultDispatch(d)
  <2> DEFINE g == dispatches[d].gen
  <2>1. UNCHANGED job /\ worker' \in {worker, Retire(worker, g)}
    BY <1>2 DEF ApplyFaultDispatch
  <2> QED BY <2>1, RetiresOnly
<1> QED BY <1>1, <1>2, PersistRecords DEF EvidenceStep

(* every step of the worker,                                                 *)
LEMMA WorkerCustody ==
    ASSUME CustodyInv, WorkerStep \/ WorkerDies \/ HandleWorkerReady
    PROVE  CustodyStep
<1>1. WorkerTypeOK
  BY DEF CustodyInv, CoordinatorTypeOK
<1>2. ASSUME NEW j \in Items, StartItem(j) \/ EndItem(j)
      PROVE  CustodyStep
  <2>1. UNCHANGED job
    BY <1>2 DEF StartItem, EndItem, coordinatorVars
  <2>2. Executed(j)
    BY <1>2 DEF StartItem, EndItem, Executed
  <2>3. PICK x : worker' = [worker EXCEPT !.items[j] = x]
    BY <1>2 DEF StartItem, EndItem
  <2>4. /\ worker'.dispatch = worker.dispatch
        /\ \A i \in Items : i # j => worker'.items[i] = worker.items[i]
    BY <1>1, <2>3 DEF WorkerTypeOK
  <2> QED BY <2>1, <2>2, <2>4, EndsOnly DEF Executed
<1>3. CASE CompleteWorkset
  <2>1. UNCHANGED job /\ worker'.dispatch = worker.dispatch /\ worker'.items = worker.items
    BY <1>1, <1>3 DEF CompleteWorkset, WorkerTypeOK, coordinatorVars
  <2> QED BY <2>1, EndsOnly DEF Executed
<1>4. CASE SummariseWorkset \/ WorkerDies
  <2>1. UNCHANGED job /\ worker'.items = NoItem
    BY <1>1, <1>4 DEF SummariseWorkset, WorkerDies, WorkerTypeOK, coordinatorVars
  <2> QED BY <2>1, NoItemTyped, EndsOnly DEF Executed
<1>5. CASE HandleWorkerReady
  <2>1. UNCHANGED job /\ worker'.dispatch = worker.dispatch /\ worker'.items = worker.items
    BY <1>1, <1>5 DEF HandleWorkerReady, WorkerTypeOK
  <2> QED BY <2>1, EndsOnly DEF Executed
<1> QED BY <1>2, <1>3, <1>4, <1>5 DEF WorkerStep

(* every command that reaches it,                                            *)
LEMMA ControlCustody ==
    ASSUME CustodyInv, ControlStep
    PROVE  CustodyStep
<1>1. PICK c \in controls :
        ExecuteAcknowledge(c) \/ HandleWorkerControlCompletion(c) \/ CancelWorksetItem(c)
  BY DEF ControlStep
<1>2. WorkerTypeOK /\ c.job \in Items
  BY DEF CustodyInv, CoordinatorTypeOK, QueuesTypeOK
<1>3. UNCHANGED job
  BY <1>1 DEF ExecuteAcknowledge, HandleWorkerControlCompletion, CancelWorksetItem
<1>4. worker' = worker \/ \E x \in {"acked", "ended"} : worker' = [worker EXCEPT !.items[c.job] = x]
  BY <1>1 DEF ExecuteAcknowledge, HandleWorkerControlCompletion, CancelWorksetItem, workerVars
<1>5. worker'.dispatch = worker.dispatch /\ \A i \in Items :
        worker'.items[i] = worker.items[i] \/ worker'.items[i] \in {"acked", "ended"}
  BY <1>2, <1>4 DEF WorkerTypeOK
<1> QED BY <1>3, <1>5, EndsOnly DEF Executed

(* and every step of the system.                                             *)
LEMMA CustodyNextStep == CustodyInv /\ [Next]_vars => CustodyStep
<1> SUFFICES ASSUME CustodyInv, [Next]_vars PROVE CustodyStep
  OBVIOUS
<1>1. CASE ClaimStep
  BY <1>1, SameCustody, ClaimTakes DEF ClaimStep, ScheduleClaim, ClaimFails, HandleClaimIoCompletion
<1>2. CASE \E d \in Registered : DispatchStep(d)
  BY <1>2, DispatchCustody
<1>3. CASE \E d \in Ids : EvidenceStep(d) \/ ApplyFaultDispatch(d)
  BY <1>3, EvidenceCustody
<1>4. CASE WorkerEventStep
  BY <1>4, SameCustody
     DEF WorkerEventStep, RoutePersistenceEvent, HandleWorksetState, HandleWorkerUnavailable
<1>5. CASE ControlStep
  BY <1>5, ControlCustody
<1>6. CASE CancellationStep
  BY <1>6, SameCustody, MutationCancels
     DEF CancellationStep, RegisterCommittedCancellations, ApplyCancellationMutationReceipts
<1>7. CASE ShutdownStep
  BY <1>7, SameCustody, RecoveryReturns
     DEF ShutdownStep, FinishShutdownAfterWorkersStopped, ProcessShutdown
<1>8. CASE WorkerStep \/ WorkerDies \/ HandleWorkerReady
  BY <1>8, WorkerCustody
<1>9. CASE ClearInvariantPause \/ BeginShutdown \/ \E j \in Items : CommitCancellation(j)
  BY <1>9, SameCustody DEF ClearInvariantPause, BeginShutdown, CommitCancellation
<1>10. CASE UNCHANGED vars
  BY <1>10, SameCustody DEF vars
<1> QED BY <1>1, <1>2, <1>3, <1>4, <1>5, <1>6, <1>7, <1>8, <1>9, <1>10 DEF Next

(* At the start all jobs are queued and none is executed.                    *)
LEMMA CustodyInitial == Init => Custody!Init
<1> SUFFICES ASSUME Init PROVE Custody!Init
  OBVIOUS
<1>1. worker.items = NoItem
  BY DEF Init
<1>2. \A j \in Items : ~Executed(j)
  BY <1>1, NoItemTyped DEF Executed
<1> QED BY <1>2 DEF Init, Custody!Init

(* The coordinator implements JobCustody: a job executes only for the        *)
(* dispatch that claimed it, once, is given back only when no worker can     *)
(* have it, and is finished at most once.                                    *)
THEOREM CoordinatorKeepsCustody == Spec => CustodyKept
<1>1. CustodyInv /\ [Next]_vars => [Custody!Next]_(Custody!custodyVars)
  BY CustodyNextStep DEF CustodyStep
<1> QED BY <1>1, CustodyInitial, SpecCustodyInv, PTL DEF Spec, CustodyKept, Custody!Spec

-----------------------------------------------------------------------------
(* What the coordinator has forgotten is closed *)

Ended(j) == job[j].state \in {"FINISHED", "CANCELED"}
Marked(d) == attempt[d] \in {"DRAINING", "CLOSED"}

(* An open attempt holds a job, a closed one none; a draining one may have   *)
(* lost its last to its sidecar.                                             *)
AttemptsOK ==
    \A d \in Ids :
        /\ attempt[d] = "CLOSED" => Holds(d) = {}
        /\ attempt[d] = "CLAIMED" => Holds(d) # {}
        /\ attempt[d] = "DRAINING" => Holds(d) # {} \/ CancelledBySidecar(d)

(* A record names all that its attempt holds and runs behind the attempt's   *)
(* state, never ahead of it; a workset of which everything is suppressed is  *)
(* never submitted, so that its attempt is never activated; what a record    *)
(* counts as persisted has ended.                                            *)
RecordMarked(d, r) ==
    /\ r.items # {} /\ Holds(d) \subseteq r.items
    /\ r.drained \/ r.effect = [kind |-> "MarkDraining", at |-> "applied"] => Marked(d)
    /\ r.own = "Closed" \/ r.effect = [kind |-> "Release", at |-> "applied"] => attempt[d] = "CLOSED"
    /\ r.suppressed = r.items =>
         /\ attempt[d] \in {"CLAIMED", "CLOSED"}
         /\ r.own \in {"Coordinator", "Closed"} /\ r.effect.kind \in {"none", "Release"}
    /\ \A j \in r.persisted : Ended(j)
MarksOK == \A d \in Registered : RecordMarked(d, dispatches[d])

(* What the coordinator and the store call resolved has ended. *)
RequestsOK ==
    /\ \A j \in Items : request[j] = "RESOLVED" => Ended(j)
    /\ \A m \in mutations : /\ m.kind = "resolved" => Ended(m.job)
                            /\ m.kind = "sidecar" /\ m.at = "applied" => request[m.job] = "RESOLVED"
    /\ DOMAIN held \subseteq Items
    /\ \A j \in DOMAIN held : held[j] \in {"FINISHED", "CANCELED"} => Ended(j)

(* Nothing happens to a claim before its completion is handled. *)
ClaimHolds == \A d \in Ids : ClaimedNow(d) => Holds(d) = claim.items

ClosingInv == CustodyInv /\ AttemptsOK /\ MarksOK /\ RequestsOK /\ ClaimHolds /\ ForgottenIsClosed

(* A job that has ended never changes again. *)
EndedStays == \A j \in Items : Ended(j) => Ended(j)'

Settled(d) ==
    /\ Holds(d) = {}
    /\ attempt[d] = "CLOSED" \/ (attempt[d] = "DRAINING" /\ CancelledBySidecar(d))

(* A change of a record that needs nothing of the store. *)
Calm(r, s) ==
    /\ s.items = r.items /\ s.persisted = r.persisted
    /\ s.drained => r.drained
    /\ s.suppressed = r.items => r.suppressed = r.items
    /\ \/ s.own \in {r.own, "Coordinator"}
       \/ s.own # "Closed" /\ r.suppressed # r.items
    /\ \/ s.effect = r.effect
       \/ /\ s.effect.kind \in {"none", "Release"} \/ r.suppressed # r.items
          /\ s.effect.at # "applied" \/ s.effect.kind = "Residence"

(* A calm change leaves a record behind the store. *)
LEMMA CalmMarked ==
    ASSUME NEW d, NEW r, NEW s, RecordMarked(d, r), Calm(r, s)
    PROVE  RecordMarked(d, s)
<1>1. s.effect = r.effect \/ (s.effect.at # "applied" \/ s.effect.kind = "Residence")
  BY DEF Calm
<1>2. s.drained \/ s.effect = [kind |-> "MarkDraining", at |-> "applied"] => Marked(d)
  BY <1>1 DEF Calm, RecordMarked
<1>3. s.own = "Closed" \/ s.effect = [kind |-> "Release", at |-> "applied"] => attempt[d] = "CLOSED"
  BY <1>1 DEF Calm, RecordMarked
<1>4. s.suppressed = s.items =>
         /\ attempt[d] \in {"CLAIMED", "CLOSED"}
         /\ s.own \in {"Coordinator", "Closed"} /\ s.effect.kind \in {"none", "Release"}
  BY DEF Calm, RecordMarked
<1> QED BY <1>2, <1>3, <1>4 DEF Calm, RecordMarked

(* A change that keeps all fields and at most begins the release, or ends    *)
(* the effect, is calm.                                                      *)
LEMMA KeptCalm ==
    ASSUME NEW r, NEW s, Kept(r, s), s.own = r.own, MayRelease(r, s) \/ s.effect = NoEffect
    PROVE  Calm(r, s)
BY DEF Calm, Kept, MayRelease, Begin, NoEffect

(* A record stays behind the store: after ReleaseDispatch,                   *)
LEMMA ReleaseMarked ==
    ASSUME NEW d, NEW r \in DispatchRecord, NEW keep \in BOOLEAN, RecordMarked(d, r)
    PROVE  RecordMarked(d, ReleaseDispatch(r, keep))
BY ReleaseKeeps, KeptCalm, CalmMarked

(* ContinueContainment                                                       *)
LEMMA ContainmentMarked ==
    ASSUME NEW d, NEW r \in DispatchRecord, RecordMarked(d, r)
    PROVE  RecordMarked(d, ContinueContainment(r))
BY ContainmentKeeps, KeptCalm, CalmMarked

(* and MarkDispatchDraining,                                                 *)
LEMMA DrainingMarked ==
    ASSUME NEW d, NEW r \in DispatchRecord, RecordMarked(d, r)
    PROVE  RecordMarked(d, MarkDispatchDraining(r))
<1> DEFINE s == MarkDispatchDraining(r)
<1>1. /\ Kept(r, s) /\ s.own = r.own /\ s.life = r.life
      /\ \/ s.effect = r.effect
         \/ /\ r.own = "Worker" /\ Waits(r.effect, "MarkDraining")
            /\ s.effect = Begin("MarkDraining")
  BY DrainingKeeps
<1> HIDE DEF s
<1>2. r.own = "Worker" => r.suppressed # r.items
  BY DEF RecordMarked
<1>3. Calm(r, s)
  BY <1>1, <1>2 DEF Calm, Kept, Begin
<1> QED BY <1>3, CalmMarked DEF s

(* and after the loss of its worker.                                         *)
LEMMA LostMarked ==
    ASSUME NEW d, NEW r \in DispatchRecord, RecordMarked(d, r)
    PROVE  RecordMarked(d, Lost(r))
<1> DEFINE s == Lost(r)
           e == IF r.effect.kind \in {"Submission", "Residence"} THEN NoEffect ELSE r.effect
<1>1. /\ Kept(r, s) /\ s.own = "Coordinator"
      /\ s.effect = e \/ (Waits(e, "Release") /\ s.effect = Begin("Release"))
  BY LostKeeps
<1>2. e = r.effect \/ e = NoEffect
  OBVIOUS
<1> HIDE DEF s, e
<1>3. Calm(r, s)
  BY <1>1, <1>2 DEF Calm, Kept, Begin, NoEffect
<1> QED BY <1>3, CalmMarked DEF s

(* What MaybeRetire forgets is settled: everything that was to be executed   *)
(* is acknowledged, thus finished, and every suppressed item has ended.      *)
LEMMA RetiredIsSettled ==
    ASSUME AttemptsOK, NEW d \in Ids, NEW s, RecordMarked(d, s), Durable(d, s), ReadyToRetire(s)
    PROVE  Settled(d)
<1>1. ASSUME NEW j \in Holds(d)
      PROVE  FALSE
  <2>1. j \in Items /\ job[j].state \in {"CLAIMED", "RUNNING"} /\ j \in s.items
    BY DEF RecordMarked, Holds
  <2>2. j \in s.acked \/ j \in s.persisted
    BY <2>1 DEF ReadyToRetire
  <2>3. CASE j \in s.acked
    BY <2>1, <2>3 DEF Durable, FinishedBy
  <2>4. CASE j \in s.persisted
    BY <2>1, <2>4 DEF RecordMarked, Ended
  <2> QED BY <2>2, <2>3, <2>4
<1>2. Marked(d)
  BY DEF ReadyToRetire, RecordMarked, Marked
<1> QED BY <1>1, <1>2 DEF Settled, AttemptsOK, Marked

(* A workset that its sidecar cancelled as a whole is settled, too. *)
LEMMA CancelledIsSettled ==
    ASSUME AttemptsOK, NEW d \in Ids, NEW s, RecordMarked(d, s),
           s.suppressed = s.items, s.persisted = s.suppressed
    PROVE  Settled(d)
<1>1. Holds(d) = {}
  BY DEF RecordMarked, Ended, Holds
<1> QED BY <1>1 DEF Settled, AttemptsOK, RecordMarked

(* What a step leaves of the invariant when the store stays as it is. *)
ClosedStill == AttemptsOK /\ MarksOK /\ ClaimHolds /\ ForgottenIsClosed
StageStays == stage = "Recovered" => stage' = "Recovered"
ClaimStays == claim' = claim \/ (claim.at # "done" /\ claim'.at # "done")

(* The actor's handlers forget only what is settled, and leave every record  *)
(* behind the store.                                                         *)
LEMMA ActorCloses ==
    ASSUME ClosingInv, UNCHANGED <<job, attempt>>, StageStays, ClaimStays,
           \A d \in Registered' : d \in Registered /\ RecordMarked(d, dispatches'[d]),
           \A d \in Registered : d \notin Registered' => Settled(d)
    PROVE  ClosedStill'
<1>1. /\ \A d : Holds(d)' = Holds(d) /\ CancelledBySidecar(d)' = CancelledBySidecar(d)
      /\ \A d : Marked(d)' = Marked(d)
      /\ \A j : Ended(j)' = Ended(j)
  BY DEF Holds, CancelledBySidecar, Marked, Ended
<1>2. AttemptsOK'
  BY <1>1 DEF ClosingInv, AttemptsOK
<1>3. MarksOK'
  <2> SUFFICES ASSUME NEW d \in Registered' PROVE RecordMarked(d, dispatches[d])'
    BY DEF MarksOK
  <2>1. RecordMarked(d, dispatches'[d])
    OBVIOUS
  <2> QED BY <1>1, <2>1 DEF RecordMarked
<1>4. \A d : ClaimedNow(d)' => ClaimedNow(d) /\ claim' = claim
  BY DEF ClaimedNow, ClaimStays
<1>5. ClaimHolds'
  BY <1>1, <1>4 DEF ClosingInv, ClaimHolds
<1>6. ForgottenIsClosed'
  <2> SUFFICES ASSUME NEW d \in Ids, d \notin Registered'
      PROVE  \/ attempt'[d] \in {"none", "CLOSED"} /\ Holds(d)' = {}
             \/ attempt'[d] = "DRAINING" /\ Holds(d)' = {} /\ CancelledBySidecar(d)'
             \/ claim'.at = "done" /\ Holds(d)' = claim'.items
             \/ stage' = "Recovered" /\ DbMayFail
    BY DEF ForgottenIsClosed
  <2>1. CASE d \in Registered
    BY <1>1, <2>1 DEF Settled
  <2>2. CASE d \notin Registered
    BY <1>1, <2>2 DEF ClosingInv, ForgottenIsClosed, ClaimStays, StageStays
  <2> QED BY <2>1, <2>2
<1> QED BY <1>2, <1>3, <1>5, <1>6 DEF ClosedStill

(* A handler that changes one record calmly. *)
LEMMA RecordCloses ==
    ASSUME ClosingInv, NEW d \in Registered, NEW s, Update(d, s), RecordMarked(d, s),
           UNCHANGED <<job, attempt>>, StageStays, ClaimStays
    PROVE  ClosedStill'
<1>1. /\ Registered' = Registered /\ dispatches'[d] = s
      /\ \A e \in Registered : e # d => dispatches'[e] = dispatches[e]
  BY UpdateGives
<1>2. \A e \in Registered' : e \in Registered /\ RecordMarked(e, dispatches'[e])
  BY <1>1 DEF ClosingInv, MarksOK
<1> QED BY <1>1, <1>2, ActorCloses

(* A handler that leaves the records alone. *)
LEMMA SameCloses ==
    ASSUME ClosingInv, UNCHANGED <<job, attempt, dispatches>>, StageStays, ClaimStays
    PROVE  ClosedStill'
<1>1. Registered' = Registered
  BY DEF Registered
<1> QED BY <1>1, ActorCloses DEF ClosingInv, MarksOK

(* A handler that forgets a dispatch. *)
LEMMA RemoveCloses ==
    ASSUME ClosingInv, NEW d \in Registered, RemoveDispatch(d), Settled(d),
           UNCHANGED <<job, attempt>>, StageStays, ClaimStays
    PROVE  ClosedStill'
<1>1. /\ Registered' = Registered \ {d}
      /\ \A e \in Registered : e # d => dispatches'[e] = dispatches[e]
  BY RemoveGives
<1> QED BY <1>1, ActorCloses DEF ClosingInv, MarksOK

(* A handler that ends in MaybeRetire. *)
LEMMA RetireCloses ==
    ASSUME ClosingInv, NEW d \in Registered, NEW s, MaybeRetire(d, s), RecordMarked(d, s), Durable(d, s),
           UNCHANGED <<job, attempt>>, StageStays, ClaimStays
    PROVE  ClosedStill'
<1>1. d \in Ids
  BY RecordTyped DEF ClosingInv
<1>2. ReadyToRetire(s) => Settled(d)
  BY <1>1, RetiredIsSettled DEF ClosingInv
<1> QED BY <1>2, RecordCloses, RemoveCloses DEF MaybeRetire

(* What the invariant says of one record. *)
LEMMA RecordIs ==
    ASSUME ClosingInv, NEW d \in Registered
    PROVE  /\ dispatches[d] \in DispatchRecord /\ EffectOwned(dispatches[d]) /\ d \in Ids
           /\ RecordMarked(d, dispatches[d]) /\ Durable(d, dispatches[d])
BY RecordTyped DEF ClosingInv, MarksOK, CustodyInv, AcksOK, Durable

(* A handler that sets one effect. *)
LEMMA EffectCloses ==
    ASSUME ClosingInv, NEW d \in Registered, NEW e \in Effect,
           Update(d, [dispatches[d] EXCEPT !.effect = e]),
           \/ e.kind \in {"none", "Release"}
           \/ dispatches[d].effect.kind \notin {"none", "Release"}
           \/ dispatches[d].own \in {"MayOwn", "Worker"},
           e.at # "applied" \/ e.kind = "Residence",
           UNCHANGED <<job, attempt, claim, stage>>
    PROVE  ClosedStill'
<1> DEFINE r == dispatches[d]
           s == [r EXCEPT !.effect = e]
<1>1. r \in DispatchRecord /\ RecordMarked(d, r)
  BY RecordIs
<1>2. Kept(r, s) /\ s.own = r.own /\ s.effect = e
  BY <1>1, EffectSet
<1>3. Update(d, s)
  OBVIOUS
<1> HIDE DEF s
<1>4. Calm(r, s)
  BY <1>1, <1>2 DEF Calm, Kept, RecordMarked
<1>5. RecordMarked(d, s)
  BY <1>1, <1>4, CalmMarked
<1> QED BY <1>3, <1>5, RecordCloses DEF StageStays, ClaimStays

(* The reconstruction, *)
LEMMA ReconstructCloses ==
    ASSUME ClosingInv, NEW d \in Registered, Reconstruct(d) \/ ReconstructionFails(d)
    PROVE  ClosedStill'
<1> DEFINE r == dispatches[d]
           s == [r EXCEPT !.effect = NoEffect, !.life = "Prepared"]
           t == [r EXCEPT !.effect = NoEffect]
<1>1. r \in DispatchRecord /\ RecordMarked(d, r)
  BY RecordIs
<1>2. UNCHANGED <<job, attempt, claim, stage>> /\ (Update(d, s) \/ Update(d, t))
  BY DEF Reconstruct, ReconstructionFails
<1>3. Kept(r, s) /\ s.own = r.own /\ s.effect = NoEffect
  BY <1>1 DEF DispatchRecord, Kept
<1>4. Kept(r, t) /\ t.own = r.own /\ t.effect = NoEffect
  BY <1>1 DEF DispatchRecord, Kept
<1> HIDE DEF s, t
<1> QED BY <1>1, <1>2, <1>3, <1>4, KeptCalm, CalmMarked, RecordCloses DEF StageStays, ClaimStays

(* the admission: what is prepared is still CLAIMED;                         *)
LEMMA AdmitCloses ==
    ASSUME ClosingInv, NEW d \in Registered, AdmitPreparedDispatch(d)
    PROVE  ClosedStill'
<1> DEFINE r == dispatches[d]
           frozen == r.items \cap index
           g == lane.gen
           bound == [r EXCEPT !.gen = g, !.suppressed = frozen]
           begun == Begin("Submission")
           s == [bound EXCEPT !.effect = begun]
<1>1. r \in DispatchRecord /\ RecordMarked(d, r) /\ d \in Ids
  BY RecordIs
<1>2. /\ UNCHANGED <<job, attempt, claim, stage>> /\ d \in prepared /\ r.own = "Coordinator" /\ r.effect = NoEffect
      /\ (frozen = r.items /\ Update(d, bound)) \/ (frozen # r.items /\ Update(d, s))
  BY DEF AdmitPreparedDispatch
<1>3. attempt[d] = "CLAIMED"
  BY <1>2 DEF ClosingInv, CustodyInv, FreshOK, Fresh
<1>4. frozen \in SUBSET Items
  BY <1>1 DEF DispatchRecord
<1> HIDE DEF frozen, g, begun
<1>5. /\ bound.items = r.items /\ bound.persisted = r.persisted /\ bound.drained = r.drained
      /\ bound.suppressed = frozen /\ bound.own = r.own /\ bound.effect = NoEffect
  BY <1>1, <1>2 DEF DispatchRecord
<1>6. /\ s.items = r.items /\ s.persisted = r.persisted /\ s.drained = r.drained
      /\ s.suppressed = frozen /\ s.own = r.own /\ s.effect = begun
  BY <1>1, <1>2 DEF DispatchRecord
<1> HIDE DEF bound, s
<1>7. RecordMarked(d, bound)
  BY <1>1, <1>2, <1>3, <1>5 DEF RecordMarked, NoEffect
<1>8. frozen # r.items => RecordMarked(d, s)
  BY <1>1, <1>2, <1>6 DEF RecordMarked, begun, Begin
<1> QED BY <1>2, <1>7, <1>8, RecordCloses DEF StageStays, ClaimStays

(* the submission on its way,                                                *)
LEMMA SubmitCloses ==
    ASSUME ClosingInv, NEW d \in Registered, SubmitWorksetToWorker(d)
    PROVE  ClosedStill'
<1> DEFINE r == dispatches[d]
<1>1. r \in DispatchRecord
  BY RecordIs
<1>2. PICK at \in {"written", "unwritten", "unknown"} : Update(d, [r EXCEPT !.effect.at = at])
  BY DEF SubmitWorksetToWorker
<1>3. r.effect.kind = "Submission" /\ UNCHANGED <<job, attempt, claim, stage>>
  BY DEF SubmitWorksetToWorker, Begin
<1> DEFINE e == [kind |-> "Submission", at |-> at]
<1>4. e \in Effect
  BY DEF Effect, Kinds
<1>5. [r EXCEPT !.effect.at = at] = [r EXCEPT !.effect = e]
  BY <1>1, <1>3 DEF DispatchRecord, Effect, NoEffect
<1> QED BY <1>2, <1>3, <1>4, <1>5, EffectCloses

(* the submission's completion,                                              *)
LEMMA SubmissionCloses ==
    ASSUME ClosingInv, NEW d \in Registered, HandleSubmissionCompletion(d)
    PROVE  ClosedStill'
<1> DEFINE r == dispatches[d]
           e == Begin(IF r.effect.at = "written" THEN "Activation" ELSE "Residence")
           s == [r EXCEPT !.own = "MayOwn", !.life = "Prepared", !.effect = e]
           t == [r EXCEPT !.life = "Prepared", !.effect = NoEffect, !.gen = 0, !.suppressed = {}]
<1>1. r \in DispatchRecord /\ RecordMarked(d, r) /\ EffectOwned(r)
  BY RecordIs
<1>2. r.effect.kind = "Submission" /\ UNCHANGED <<job, attempt, claim, stage>>
  BY DEF HandleSubmissionCompletion
<1>3. Update(d, s) \/ Update(d, t)
  BY DEF HandleSubmissionCompletion
<1>4. r.own = "Coordinator" /\ r.suppressed # r.items /\ r.items # {}
  BY <1>1, <1>2 DEF EffectOwned, RecordMarked
<1>5. e.at = "queued"
  BY DEF Begin
<1> HIDE DEF e
<1>6. /\ s.items = r.items /\ s.persisted = r.persisted /\ s.drained = r.drained
      /\ s.suppressed = r.suppressed /\ s.own = "MayOwn" /\ s.effect = e
  BY <1>1 DEF DispatchRecord
<1>7. /\ t.items = r.items /\ t.persisted = r.persisted /\ t.drained = r.drained
      /\ t.suppressed = {} /\ t.own = r.own /\ t.effect = NoEffect
  BY <1>1 DEF DispatchRecord
<1> HIDE DEF s, t
<1>8. Calm(r, s) /\ Calm(r, t)
  BY <1>4, <1>5, <1>6, <1>7 DEF Calm, NoEffect
<1> QED BY <1>1, <1>2, <1>3, <1>8, CalmMarked, RecordCloses DEF StageStays, ClaimStays

(* the confirmation of residence,                                            *)
LEMMA ConfirmCloses ==
    ASSUME ClosingInv, NEW d \in Registered, ConfirmResidence(d)
    PROVE  ClosedStill'
<1> DEFINE r == dispatches[d]
<1>1. r \in DispatchRecord
  BY RecordIs
<1>2. PICK at \in {"applied", "rejected"} : Update(d, [r EXCEPT !.effect.at = at])
  BY DEF ConfirmResidence
<1>3. r.effect.kind = "Residence" /\ UNCHANGED <<job, attempt, claim, stage>>
  BY DEF ConfirmResidence, Begin
<1> DEFINE e == [kind |-> "Residence", at |-> at]
<1>4. e \in Effect
  BY DEF Effect, Kinds, Outcomes
<1>5. [r EXCEPT !.effect.at = at] = [r EXCEPT !.effect = e]
  BY <1>1, <1>3 DEF DispatchRecord, Effect, NoEffect
<1> QED BY <1>2, <1>3, <1>4, <1>5, EffectCloses

(* and its completion,                                                       *)
LEMMA ResidenceCloses ==
    ASSUME ClosingInv, NEW d \in Registered, HandleResidenceCompletion(d)
    PROVE  ClosedStill'
<1> DEFINE r == dispatches[d]
<1>1. PICK e \in {NoEffect, Begin("Activation")} : Update(d, [r EXCEPT !.effect = e])
  BY DEF HandleResidenceCompletion
<1>2. r.effect.kind = "Residence" /\ UNCHANGED <<job, attempt, claim, stage>>
  BY DEF HandleResidenceCompletion
<1>3. e \in Effect /\ e.at # "applied"
  BY DEF Effect, Kinds, Begin, NoEffect
<1> QED BY <1>1, <1>2, <1>3, EffectCloses

(* a store transition that fails,                                            *)
LEMMA IoFailsCloses ==
    ASSUME ClosingInv, NEW d \in Registered, CoordinationIoFails(d)
    PROVE  ClosedStill'
<1> DEFINE r == dispatches[d]
           e == [kind |-> r.effect.kind, at |-> "failed"]
<1>1. r \in DispatchRecord
  BY RecordIs
<1>2. Update(d, [r EXCEPT !.effect.at = "failed"]) /\ UNCHANGED <<job, attempt, claim, stage>>
  BY DEF CoordinationIoFails
<1>3. r.effect.kind \in {"Activation", "MarkDraining", "Release"}
  BY DEF CoordinationIoFails, Begin
<1>4. e \in Effect
  BY <1>3 DEF Effect, Kinds, Outcomes
<1>5. [r EXCEPT !.effect.at = "failed"] = [r EXCEPT !.effect = e]
  BY <1>1, <1>3 DEF DispatchRecord, Effect, NoEffect
<1> QED BY <1>2, <1>3, <1>4, <1>5, EffectCloses

(* the retry of an activation,                                               *)
LEMMA RetryActivationCloses ==
    ASSUME ClosingInv, NEW d \in Registered, RetryActivation(d)
    PROVE  ClosedStill'
<1>1. Begin("Activation") \in Effect /\ Begin("Activation").at = "queued"
  BY DEF Effect, Kinds, Begin
<1> QED BY <1>1, EffectCloses DEF RetryActivation

(* the start of the draining mark                                            *)
LEMMA PendingDrainingCloses ==
    ASSUME ClosingInv, NEW d \in Registered, ProcessPendingDrainingTransitions(d)
    PROVE  ClosedStill'
BY RecordIs, DrainingMarked, RecordCloses
   DEF ProcessPendingDrainingTransitions, StageStays, ClaimStays

(* and of a containment.                                                     *)
LEMMA ContainmentCloses ==
    ASSUME ClosingInv, NEW d \in Registered, ProcessContainment(d)
    PROVE  ClosedStill'
BY RecordIs, ContainmentMarked, RecordCloses DEF ProcessContainment, StageStays, ClaimStays

(* The completion of an activation, with all that follows it;                *)
LEMMA ActivationCloses ==
    ASSUME ClosingInv, NEW d \in Registered, HandleActivationIoCompletion(d)
    PROVE  ClosedStill'
<1> DEFINE r == dispatches[d]
           idle == [r EXCEPT !.effect = NoEffect]
           again == Retry("Activation")
           life == IF r.observed THEN "Draining" ELSE "Active"
           active == [r EXCEPT !.own = "Worker", !.effect = NoEffect, !.pending = {}, !.life = life]
           flushed == IF Overflows(stream[d], stream[d].buffered) THEN ReleaseDispatch(active, FALSE)
                      ELSE active
           after == IF r.observed THEN MarkDispatchDraining(flushed) ELSE flushed
<1>1. r \in DispatchRecord /\ RecordMarked(d, r)
  BY RecordIs
<1>2. r.effect.kind = "Activation" /\ UNCHANGED <<job, attempt, claim, stage>> /\ StageStays /\ ClaimStays
  BY DEF HandleActivationIoCompletion, StageStays, ClaimStays
<1>3. \/ Update(d, ContinueContainment(idle))
      \/ Update(d, [r EXCEPT !.effect = again])
      \/ Update(d, ContinueContainment(after))
  BY DEF HandleActivationIoCompletion, Activated
<1>4. NoEffect \in Effect /\ again \in Effect /\ again.kind = "Activation" /\ again.at = "retry"
  BY DEF Effect, Kinds, Retry
<1>5. CASE Update(d, ContinueContainment(idle))
  <2>1. idle \in DispatchRecord /\ Kept(r, idle) /\ idle.own = r.own /\ idle.effect = NoEffect
    BY <1>1, <1>4, EffectSet
  <2> HIDE DEF idle
  <2>2. RecordMarked(d, ContinueContainment(idle))
    BY <1>1, <2>1, KeptCalm, CalmMarked, ContainmentMarked
  <2> QED BY <1>2, <1>5, <2>2, RecordCloses
<1>6. CASE Update(d, [r EXCEPT !.effect = again])
  BY <1>2, <1>4, <1>6, EffectCloses
<1>7. CASE Update(d, ContinueContainment(after))
  <2>1. life \in {"Draining", "Active"}
    OBVIOUS
  <2>2. r.suppressed # r.items
    BY <1>1, <1>2 DEF RecordMarked
  <2> HIDE DEF life
  <2>3. /\ active \in DispatchRecord /\ active.items = r.items /\ active.persisted = r.persisted
        /\ active.drained = r.drained /\ active.suppressed = r.suppressed
        /\ active.own = "Worker" /\ active.effect = NoEffect
    BY <1>1, <1>4, <2>1 DEF DispatchRecord
  <2> HIDE DEF active
  <2>4. Calm(r, active)
    BY <2>2, <2>3 DEF Calm, NoEffect
  <2>5. RecordMarked(d, active)
    BY <1>1, <2>4, CalmMarked
  <2>6. flushed \in DispatchRecord /\ RecordMarked(d, flushed)
    BY <2>3, <2>5, ReleaseTyped, ReleaseMarked
  <2> HIDE DEF flushed
  <2>7. after \in DispatchRecord /\ RecordMarked(d, after)
    BY <2>6, DrainingTyped, DrainingMarked
  <2> HIDE DEF after
  <2>8. RecordMarked(d, ContinueContainment(after))
    BY <2>7, ContainmentMarked
  <2> QED BY <1>2, <1>7, <2>8, RecordCloses
<1> QED BY <1>3, <1>5, <1>6, <1>7

(* of the draining mark, which is in the store by then;                      *)
LEMMA DrainingCloses ==
    ASSUME ClosingInv, NEW d \in Registered, HandleDrainingIoCompletion(d)
    PROVE  ClosedStill'
<1> DEFINE r == dispatches[d]
           idle == [r EXCEPT !.effect = NoEffect]
           again == Retry("MarkDraining")
           b == r.drained \/ (r.own = "Worker" /\ r.life = "Draining")
           marked == [idle EXCEPT !.drained = b]
<1>1. r \in DispatchRecord /\ RecordMarked(d, r) /\ Durable(d, r)
  BY RecordIs
<1>2. r.effect.kind = "MarkDraining" /\ UNCHANGED <<job, attempt, claim, stage>> /\ StageStays /\ ClaimStays
  BY DEF HandleDrainingIoCompletion, StageStays, ClaimStays
<1>3. NoEffect \in Effect /\ again \in Effect /\ again.kind = "MarkDraining" /\ again.at = "retry"
      /\ NoEffect.kind = "none" /\ NoEffect.at = "none"
  BY DEF Effect, Kinds, Retry, NoEffect
<1>4. \/ Update(d, [r EXCEPT !.effect = again])
      \/ r.effect.at = "applied" /\ MaybeRetire(d, marked)
      \/ Update(d, idle)
  <2>1. idle.drained = r.drained
    BY <1>1 DEF DispatchRecord
  <2>2. [idle EXCEPT !.drained = @ \/ (r.own = "Worker" /\ r.life = "Draining")] = marked
    BY <1>1, <2>1 DEF DispatchRecord
  <2> QED BY <2>2 DEF HandleDrainingIoCompletion
<1>5. CASE r.effect.at = "applied" /\ MaybeRetire(d, marked)
  <2>1. r.effect = [kind |-> "MarkDraining", at |-> "applied"]
    BY <1>1, <1>2, <1>5 DEF DispatchRecord, Effect, NoEffect
  <2>2. Marked(d)
    BY <1>1, <2>1 DEF RecordMarked
  <2>3. idle \in DispatchRecord /\ Kept(r, idle) /\ idle.own = r.own /\ idle.effect = NoEffect
    BY <1>1, <1>3, EffectSet
  <2>4. b \in BOOLEAN
    BY <1>1 DEF DispatchRecord
  <2> HIDE DEF idle, b
  <2>5. RecordMarked(d, idle)
    BY <1>1, <2>3, KeptCalm, CalmMarked
  <2>6. /\ marked.items = idle.items /\ marked.persisted = idle.persisted
        /\ marked.suppressed = idle.suppressed /\ marked.own = idle.own /\ marked.effect = idle.effect
        /\ marked.staged = r.staged /\ marked.acked = r.acked
    BY <2>3 DEF DispatchRecord, Kept
  <2>7. MaybeRetire(d, marked)
    BY <1>5
  <2> HIDE DEF marked
  <2>8. RecordMarked(d, marked)
    BY <2>2, <2>5, <2>6 DEF RecordMarked
  <2>9. Durable(d, marked)
    BY <1>1, <2>6 DEF Durable
  <2> QED BY <1>2, <2>7, <2>8, <2>9, RetireCloses
<1>6. CASE Update(d, [r EXCEPT !.effect = again])
  BY <1>2, <1>3, <1>6, EffectCloses
<1>7. CASE Update(d, idle)
  BY <1>2, <1>3, <1>7, EffectCloses
<1> QED BY <1>4, <1>5, <1>6, <1>7

(* and of the release, after which the attempt is CLOSED.                    *)
LEMMA ReleaseCloses ==
    ASSUME ClosingInv, NEW d \in Registered, HandleReleaseIoCompletion(d)
    PROVE  ClosedStill'
<1> DEFINE r == dispatches[d]
           again == Retry("Release")
           closed == [r EXCEPT !.own = "Closed", !.effect = NoEffect, !.released = TRUE, !.contain = "none"]
<1>1. r \in DispatchRecord /\ RecordMarked(d, r) /\ d \in Ids
  BY RecordIs
<1>2. r.effect.kind = "Release" /\ UNCHANGED <<job, attempt, claim, stage>> /\ StageStays /\ ClaimStays
  BY DEF HandleReleaseIoCompletion, StageStays, ClaimStays
<1>3. again \in Effect /\ again.kind = "Release" /\ again.at = "retry" /\ NoEffect.kind = "none"
  BY DEF Effect, Kinds, Retry, NoEffect
<1>4. \/ Update(d, [r EXCEPT !.effect = again])
      \/ r.effect.at = "applied" /\ Update(d, closed) 
      \/ r.effect.at = "applied" /\ RemoveDispatch(d)
  BY DEF HandleReleaseIoCompletion
<1>5. ASSUME r.effect.at = "applied"
      PROVE  attempt[d] = "CLOSED" /\ Settled(d)
  <2>1. r.effect = [kind |-> "Release", at |-> "applied"]
    BY <1>1, <1>2, <1>5 DEF DispatchRecord, Effect, NoEffect
  <2> QED BY <1>1, <2>1 DEF RecordMarked, Settled, ClosingInv, AttemptsOK
<1>6. CASE r.effect.at = "applied" /\ Update(d, closed)
  <2>1. /\ closed.items = r.items /\ closed.persisted = r.persisted /\ closed.drained = r.drained
        /\ closed.suppressed = r.suppressed /\ closed.own = "Closed" /\ closed.effect = NoEffect
    BY <1>1 DEF DispatchRecord
  <2>2. Update(d, closed)
    BY <1>6
  <2> HIDE DEF closed
  <2>3. RecordMarked(d, closed)
    BY <1>1, <1>5, <1>6, <2>1 DEF RecordMarked, Marked, NoEffect
  <2> QED BY <1>2, <2>2, <2>3, RecordCloses
<1>7. CASE r.effect.at = "applied" /\ RemoveDispatch(d)
  BY <1>2, <1>5, <1>7, RemoveCloses
<1>8. CASE Update(d, [r EXCEPT !.effect = again])
  BY <1>2, <1>3, <1>8, EffectCloses
<1> QED BY <1>4, <1>6, <1>7, <1>8

(* A fault that the actor applies,                                           *)
LEMMA FaultCloses ==
    ASSUME ClosingInv, NEW d \in Ids, ApplyFaultDispatch(d)
    PROVE  ClosedStill'
<1>1. UNCHANGED <<job, attempt, claim, stage>> /\ StageStays /\ ClaimStays
  BY DEF ApplyFaultDispatch, StageStays, ClaimStays
<1>2. CASE d \notin Registered
  BY <1>1, <1>2, SameCloses DEF ApplyFaultDispatch
<1>3. CASE d \in Registered
  <2> DEFINE r == dispatches[d]
             retire == r.own \in {"MayOwn", "Worker"}
             c == IF retire THEN "retire" ELSE "release"
             f == [r EXCEPT !.life = "Faulted", !.keep = retire, !.contain = c]
  <2>1. r \in DispatchRecord /\ RecordMarked(d, r)
    BY <1>3, RecordIs
  <2>2. Update(d, ContinueContainment(f))
    BY <1>3 DEF ApplyFaultDispatch
  <2>3. retire \in BOOLEAN /\ c \in {"retire", "release"}
    OBVIOUS
  <2> HIDE DEF retire, c
  <2>4. f \in DispatchRecord /\ Kept(r, f) /\ f.own = r.own /\ f.effect = r.effect
    BY <2>1, <2>3 DEF DispatchRecord, Kept
  <2> HIDE DEF f
  <2>5. RecordMarked(d, ContinueContainment(f))
    BY <2>1, <2>4, KeptCalm, CalmMarked, ContainmentMarked DEF MayRelease
  <2> QED BY <1>1, <1>3, <2>2, <2>5, RecordCloses
<1> QED BY <1>2, <1>3

(* evidence beyond the limit,                                                *)
LEMMA RouteCloses ==
    ASSUME ClosingInv, RoutePersistenceEvent
    PROVE  ClosedStill'
<1>1. UNCHANGED <<job, attempt, claim, stage>> /\ StageStays /\ ClaimStays
  BY DEF RoutePersistenceEvent, StageStays, ClaimStays
<1>2. \/ dispatches' = dispatches
      \/ \E d \in Registered : Update(d, ReleaseDispatch(dispatches[d], FALSE))
  BY DEF RoutePersistenceEvent
<1> QED BY <1>1, <1>2, SameCloses, RecordIs, ReleaseMarked, RecordCloses

(* the report of a completed workset,                                        *)
LEMMA WorksetStateCloses ==
    ASSUME ClosingInv, HandleWorksetState
    PROVE  ClosedStill'
<1> DEFINE d == Head(wire).dispatch
           r == dispatches[d]
           x == IF r.own = "Worker" /\ r.life = "Active" THEN "Draining" ELSE r.life
           s == [r EXCEPT !.observed = TRUE, !.life = x]
<1>1. UNCHANGED <<job, attempt, claim, stage>> /\ StageStays /\ ClaimStays
  BY DEF HandleWorksetState, StageStays, ClaimStays
<1>2. dispatches' = dispatches \/ (d \in Registered /\ Update(d, s))
  BY DEF HandleWorksetState
<1>3. CASE d \in Registered /\ Update(d, s)
  <2>1. r \in DispatchRecord /\ RecordMarked(d, r)
    BY <1>3, RecordIs
  <2>2. Update(d, s)
    BY <1>3
  <2> HIDE DEF x
  <2>3. Kept(r, s) /\ s.own = r.own /\ s.effect = r.effect
    BY <2>1 DEF DispatchRecord, Kept
  <2> HIDE DEF s
  <2>4. RecordMarked(d, s)
    BY <2>1, <2>3, KeptCalm, CalmMarked DEF MayRelease
  <2> QED BY <1>1, <1>3, <2>2, <2>4, RecordCloses
<1> QED BY <1>1, <1>2, <1>3, SameCloses

(* the loss of the worker, which may touch every record,                     *)
LEMMA UnavailableCloses ==
    ASSUME ClosingInv, HandleWorkerUnavailable
    PROVE  ClosedStill'
<1>1. UNCHANGED <<job, attempt, claim, stage>> /\ StageStays /\ ClaimStays
  BY DEF HandleWorkerUnavailable, StageStays, ClaimStays
<1>2. PICK g : dispatches' = [d \in Registered |->
                   IF dispatches[d].gen = g THEN Lost(dispatches[d]) ELSE dispatches[d]]
  BY DEF HandleWorkerUnavailable
<1>3. Registered' = Registered
  BY <1>2 DEF Registered
<1>4. \A d \in Registered : RecordMarked(d, dispatches'[d])
  BY <1>2, RecordIs, LostMarked
<1> QED BY <1>1, <1>3, <1>4, ActorCloses

(* and the start of a shutdown.                                              *)
LEMMA BeginShutdownCloses ==
    ASSUME ClosingInv, BeginShutdown
    PROVE  ClosedStill'
<1>1. UNCHANGED <<job, attempt, claim>> /\ StageStays /\ ClaimStays
  BY DEF BeginShutdown, StageStays, ClaimStays
<1>2. dispatches' = [d \in Registered |->
                        IF dispatches[d].effect = Begin("Reconstruction")
                        THEN [dispatches[d] EXCEPT !.effect = NoEffect, !.life = "Faulted"]
                        ELSE dispatches[d]]
  BY DEF BeginShutdown
<1>3. Registered' = Registered
  BY <1>2 DEF Registered
<1>4. ASSUME NEW d \in Registered
      PROVE  RecordMarked(d, dispatches'[d])
  <2> DEFINE r == dispatches[d]
             s == [r EXCEPT !.effect = NoEffect, !.life = "Faulted"]
  <2>1. r \in DispatchRecord /\ RecordMarked(d, r)
    BY RecordIs
  <2>2. Kept(r, s) /\ s.own = r.own /\ s.effect = NoEffect
    BY <2>1 DEF DispatchRecord, Kept
  <2>3. dispatches'[d] \in {r, s}
    BY <1>2
  <2> HIDE DEF s
  <2> QED BY <2>1, <2>2, <2>3, KeptCalm, CalmMarked
<1> QED BY <1>1, <1>3, <1>4, ActorCloses

(* A stored terminal,                                                        *)
LEMMA PersistedCloses ==
    ASSUME ClosingInv, NEW d \in Ids, HandlePersisted(d)
    PROVE  ClosedStill'
<1> DEFINE e == EvidenceOf(d)
           r == dispatches[d]
           x == r.staged \cup {e.job}
           s == [r EXCEPT !.staged = x]
<1>1. /\ d \in Registered /\ stream[d].io \in Outcomes
      /\ UNCHANGED <<job, attempt, claim, stage>> /\ StageStays /\ ClaimStays
  BY DEF HandlePersisted, RoutedToOwner, StageStays, ClaimStays
<1>2. stream[d].io # "none"
  BY <1>1 DEF Outcomes
<1>3. Persisting(d) /\ e.type \in {"Started", "Terminal"}
  BY <1>2, PersistingKnown DEF ClosingInv
<1>4. r \in DispatchRecord /\ RecordMarked(d, r) /\ Durable(d, r)
  BY <1>1, RecordIs
<1>5. \/ dispatches' = dispatches
      \/ stream[d].io = "applied" /\ e.type # "Started" /\ MaybeRetire(d, s)
  BY DEF HandlePersisted
<1>6. CASE stream[d].io = "applied" /\ e.type # "Started" /\ MaybeRetire(d, s)
  <2>1. FinishedBy(e.job, d)
    BY <1>3, <1>6 DEF Persisting
  <2>2. \A j \in x : FinishedBy(j, d)
    BY <1>4, <2>1 DEF Durable
  <2>3. MaybeRetire(d, s)
    BY <1>6
  <2> HIDE DEF x
  <2>4. /\ s.items = r.items /\ s.persisted = r.persisted /\ s.drained = r.drained
        /\ s.suppressed = r.suppressed /\ s.own = r.own /\ s.effect = r.effect
        /\ s.staged = x /\ s.acked = r.acked
    BY <1>4 DEF DispatchRecord
  <2> HIDE DEF s
  <2>5. RecordMarked(d, s) /\ Durable(d, s)
    BY <1>4, <2>2, <2>4 DEF RecordMarked, Durable
  <2> QED BY <1>1, <2>3, <2>5, RetireCloses
<1> QED BY <1>1, <1>5, <1>6, SameCloses

(* a summary,                                                                *)
LEMMA SummaryCloses ==
    ASSUME ClosingInv, NEW d \in Ids, HandleWorksetSummary(d)
    PROVE  ClosedStill'
<1> DEFINE r == dispatches[d]
           s == [r EXCEPT !.summary = TRUE]
<1>1. UNCHANGED <<job, attempt, claim, stage>> /\ StageStays /\ ClaimStays
  BY DEF HandleWorksetSummary, StageStays, ClaimStays
<1>2. dispatches' = dispatches \/ (d \in Registered /\ MaybeRetire(d, s))
  BY DEF HandleWorksetSummary
<1>3. CASE d \in Registered /\ MaybeRetire(d, s)
  <2>1. r \in DispatchRecord /\ RecordMarked(d, r) /\ Durable(d, r)
    BY <1>3, RecordIs
  <2>2. /\ s.items = r.items /\ s.persisted = r.persisted /\ s.drained = r.drained
        /\ s.suppressed = r.suppressed /\ s.own = r.own /\ s.effect = r.effect
        /\ s.staged = r.staged /\ s.acked = r.acked
    BY <2>1 DEF DispatchRecord
  <2>3. MaybeRetire(d, s)
    BY <1>3
  <2> HIDE DEF s
  <2>4. RecordMarked(d, s) /\ Durable(d, s)
    BY <2>1, <2>2 DEF RecordMarked, Durable
  <2> QED BY <1>1, <1>3, <2>3, <2>4, RetireCloses
<1> QED BY <1>1, <1>2, <1>3, SameCloses

(* and the completion of an acknowledgement, which may retire the dispatch.  *)
LEMMA ControlCloses ==
    ASSUME ClosingInv, NEW c \in controls, HandleWorkerControlCompletion(c)
    PROVE  ClosedStill'
<1> DEFINE d == c.dispatch
           r == dispatches[d]
           x == r.acked \cup {c.job}
           s == [r EXCEPT !.acked = x]
<1>1. UNCHANGED <<job, attempt, claim, stage>> /\ StageStays /\ ClaimStays /\ c.at = "done"
  BY DEF HandleWorkerControlCompletion, StageStays, ClaimStays
<1>2. UNCHANGED dispatches \/ (d \in Registered /\ MaybeRetire(d, s))
  BY DEF HandleWorkerControlCompletion
<1>3. CASE d \in Registered /\ MaybeRetire(d, s)
  <2>1. r \in DispatchRecord /\ RecordMarked(d, r) /\ Durable(d, r)
    BY <1>3, RecordIs
  <2>2. c.kind = "ack"
    BY <1>1 DEF ClosingInv, CustodyInv, CoordinatorTypeOK, QueuesTypeOK
  <2>3. \A j \in x : FinishedBy(j, d)
    BY <2>1, <2>2, OldControls DEF ClosingInv, Durable
  <2>4. MaybeRetire(d, s)
    BY <1>3
  <2> HIDE DEF x
  <2>5. /\ s.items = r.items /\ s.persisted = r.persisted /\ s.drained = r.drained
        /\ s.suppressed = r.suppressed /\ s.own = r.own /\ s.effect = r.effect
        /\ s.staged = r.staged /\ s.acked = x
    BY <2>1 DEF DispatchRecord
  <2> HIDE DEF s
  <2>6. RecordMarked(d, s) /\ Durable(d, s)
    BY <2>1, <2>3, <2>5 DEF RecordMarked, Durable
  <2> QED BY <1>1, <1>3, <2>4, <2>6, RetireCloses
<1> QED BY <1>1, <1>2, <1>3, SameCloses

(* A cancellation that a dispatch is told of,                                *)
LEMMA RegisterCloses ==
    ASSUME ClosingInv, NEW j \in Items, RegisterCommittedCancellations(j)
    PROVE  ClosedStill'
<1>1. UNCHANGED <<job, attempt, claim, stage>> /\ StageStays /\ ClaimStays
  BY DEF RegisterCommittedCancellations, StageStays, ClaimStays
<1>2. \/ dispatches' = dispatches
      \/ \E d \in Registered : dispatches' = [dispatches EXCEPT ![d].pending = @ \cup {j}]
  BY DEF RegisterCommittedCancellations, TellDispatch, Containing
<1>3. ASSUME NEW d \in Registered, dispatches' = [dispatches EXCEPT ![d].pending = @ \cup {j}]
      PROVE  ClosedStill'
  <2> DEFINE r == dispatches[d]
             x == r.pending \cup {j}
             s == [r EXCEPT !.pending = x]
  <2>1. r \in DispatchRecord /\ RecordMarked(d, r)
    BY RecordIs
  <2>2. Update(d, s)
    BY <1>3, <2>1 DEF Update, DispatchRecord
  <2> HIDE DEF x
  <2>3. /\ s.items = r.items /\ s.persisted = r.persisted /\ s.drained = r.drained
        /\ s.suppressed = r.suppressed /\ s.own = r.own /\ s.effect = r.effect
    BY <2>1 DEF DispatchRecord
  <2> HIDE DEF s
  <2>4. RecordMarked(d, s)
    BY <2>1, <2>3 DEF RecordMarked
  <2> QED BY <1>1, <2>2, <2>4, RecordCloses
<1> QED BY <1>1, <1>2, <1>3, SameCloses

(* and the receipt of its mutation: what the sidecar resolved has ended.     *)
LEMMA ReceiptCloses ==
    ASSUME ClosingInv, NEW m \in mutations, ApplyCancellationMutationReceipts(m)
    PROVE  ClosedStill'
<1> DEFINE d == m.dispatch
           r == dispatches[d]
           x == r.persisted \cup {m.job}
           s == [r EXCEPT !.persisted = x]
<1>1. UNCHANGED <<job, attempt, claim, stage>> /\ StageStays /\ ClaimStays
  BY DEF ApplyCancellationMutationReceipts, StageStays, ClaimStays
<1>2. \/ dispatches' = dispatches
      \/ /\ d \in Registered /\ m.at = "applied" /\ m.kind = "sidecar"
         /\ \/ s.suppressed = s.items /\ s.persisted = s.suppressed /\ RemoveDispatch(d)
            \/ MaybeRetire(d, s)
  BY DEF ApplyCancellationMutationReceipts
<1>3. CASE d \in Registered /\ m.at = "applied" /\ m.kind = "sidecar"
  <2>1. r \in DispatchRecord /\ RecordMarked(d, r) /\ Durable(d, r) /\ d \in Ids
    BY <1>3, RecordIs
  <2>2. m.job \in Items
    BY DEF ClosingInv, CustodyInv, CoordinatorTypeOK, QueuesTypeOK
  <2>3. Ended(m.job)
    BY <1>3, <2>2 DEF ClosingInv, RequestsOK
  <2>4. \A j \in x : Ended(j)
    BY <2>1, <2>3 DEF RecordMarked
  <2> HIDE DEF x
  <2>5. /\ s.items = r.items /\ s.persisted = x /\ s.drained = r.drained
        /\ s.suppressed = r.suppressed /\ s.own = r.own /\ s.effect = r.effect
        /\ s.staged = r.staged /\ s.acked = r.acked
    BY <2>1 DEF DispatchRecord
  <2> HIDE DEF s
  <2>6. RecordMarked(d, s) /\ Durable(d, s)
    BY <2>1, <2>4, <2>5 DEF RecordMarked, Durable
  <2>7. s.suppressed = s.items /\ s.persisted = s.suppressed => Settled(d)
    BY <2>1, <2>6, CancelledIsSettled DEF ClosingInv
  <2> QED BY <1>1, <1>2, <1>3, <2>6, <2>7, RetireCloses, RemoveCloses, SameCloses
<1> HIDE DEF s
<1> QED BY <1>1, <1>2, <1>3, SameCloses

(* A claim that comes back is registered with all that its attempt holds. *)
LEMMA ClaimCompletionCloses ==
    ASSUME ClosingInv, HandleClaimIoCompletion
    PROVE  ClosedStill'
<1> DEFINE d == job[CHOOSE j \in claim.items : TRUE].dispatch
           r == NewDispatch(claim.items)
           s == IF IsDispatchAdmissionPaused THEN ReleaseDispatch(r, FALSE)
                ELSE [r EXCEPT !.effect = Begin("Reconstruction")]
<1>1. /\ UNCHANGED <<job, attempt, stage>> /\ claim.at = "done" /\ claim' = NoClaim
      /\ dispatches' = [e \in Registered \cup {d} |-> IF e # d THEN dispatches[e] ELSE s]
  BY DEF HandleClaimIoCompletion
<1>2. PICK c \in Ids : /\ c \notin Registered /\ attempt[c] = "CLAIMED"
                       /\ \A j \in claim.items : Taken(j, c)
  BY <1>1 DEF ClosingInv, CustodyInv, ClaimOK
<1>3. claim.items # {} /\ claim.items \in SUBSET Items
  BY <1>1 DEF ClosingInv, CustodyInv, ClaimOK, CoordinatorTypeOK, ActorTypeOK
<1>4. d = c /\ \A j \in claim.items : job[j].dispatch = c
  BY <1>2, <1>3 DEF Taken
<1> HIDE DEF d
<1>5. Holds(d) = claim.items
  BY <1>1, <1>2, <1>3, <1>4 DEF ClosingInv, ClaimHolds, ClaimedNow
<1>6. RecordMarked(d, s)
  <2>1. /\ r \in DispatchRecord /\ r.items = claim.items /\ r.persisted = {} /\ ~r.drained
        /\ r.suppressed = {} /\ r.own = "Coordinator" /\ r.effect = NoEffect
    BY <1>3, NewDispatchTyped DEF NewDispatch
  <2> DEFINE begun == Begin("Reconstruction")
             t == [r EXCEPT !.effect = begun]
  <2>2. begun \in Effect /\ begun.at = "queued"
    BY DEF Begin, Effect, Kinds
  <2> HIDE DEF r, begun
  <2>3. RecordMarked(d, r)
    BY <1>3, <1>5, <2>1 DEF RecordMarked, NoEffect
  <2>4. Kept(r, t) /\ t.own = r.own /\ t.effect = begun
    BY <2>1, <2>2, EffectSet
  <2> HIDE DEF t
  <2>5. Calm(r, t)
    BY <1>3, <2>1, <2>2, <2>4 DEF Calm, Kept
  <2>6. s = t \/ s = ReleaseDispatch(r, FALSE)
    BY DEF s, t, begun, r
  <2>7. RecordMarked(d, t)
    BY <2>3, <2>5, CalmMarked
  <2>8. RecordMarked(d, ReleaseDispatch(r, FALSE))
    BY <2>1, <2>3, ReleaseMarked
  <2> HIDE DEF s
  <2> QED BY <2>6, <2>7, <2>8
<1> HIDE DEF r, s
<1>7. Registered' = Registered \cup {d}
  BY <1>1 DEF Registered
<1>8. /\ \A e : Holds(e)' = Holds(e) /\ CancelledBySidecar(e)' = CancelledBySidecar(e)
      /\ \A e : Marked(e)' = Marked(e)
      /\ \A j : Ended(j)' = Ended(j)
  BY <1>1 DEF Holds, CancelledBySidecar, Marked, Ended
<1>9. AttemptsOK'
  BY <1>1, <1>8 DEF ClosingInv, AttemptsOK
<1>10. MarksOK'
  <2> SUFFICES ASSUME NEW e \in Registered' PROVE RecordMarked(e, dispatches[e])'
    BY DEF MarksOK
  <2>1. RecordMarked(e, dispatches'[e])
    BY <1>1, <1>6, <1>7 DEF ClosingInv, MarksOK
  <2> QED BY <1>1, <1>8, <2>1 DEF RecordMarked
<1>11. ClaimHolds'
  BY <1>1 DEF ClaimHolds, ClaimedNow, NoClaim
<1>12. ForgottenIsClosed'
  <2> SUFFICES ASSUME NEW e \in Ids, e \notin Registered, e # d
      PROVE  \/ attempt[e] \in {"none", "CLOSED"} /\ Holds(e) = {}
             \/ attempt[e] = "DRAINING" /\ Holds(e) = {} /\ CancelledBySidecar(e)
             \/ stage = "Recovered" /\ DbMayFail
    BY <1>1, <1>7, <1>8 DEF ForgottenIsClosed
  <2>1. Holds(e) # claim.items
    BY <1>3, <1>4 DEF Holds
  <2> QED BY <2>1 DEF ClosingInv, ForgottenIsClosed
<1> QED BY <1>9, <1>10, <1>11, <1>12 DEF ClosedStill

(* What a transaction of the store makes of an attempt: it goes on, and what *)
(* it holds gets less.                                                       *)
AttemptMoves(d) ==
    /\ Holds(d)' \subseteq Holds(d)
    /\ attempt'[d] = "CLOSED" => Holds(d)' = {}
    /\ attempt'[d] = "CLAIMED" => Holds(d)' # {}
    /\ attempt'[d] = "DRAINING" => Holds(d)' # {} \/ CancelledBySidecar(d)'
    /\ attempt[d] = "CLOSED" => attempt'[d] = "CLOSED"
    /\ attempt[d] = "none" => attempt'[d] = "none"
    /\ Marked(d) => Marked(d)'
    /\ CancelledBySidecar(d) => CancelledBySidecar(d)'

(* A record stays behind an attempt that goes on but is not activated. *)
LEMMA MovesMarked ==
    ASSUME NEW d, NEW r, RecordMarked(d, r), AttemptMoves(d), \A j \in r.persisted : Ended(j) => Ended(j)',
           r.suppressed = r.items /\ attempt[d] = "CLAIMED" => attempt'[d] \in {"CLAIMED", "CLOSED"}
    PROVE  RecordMarked(d, r)'
<1>1. /\ r.items # {} /\ Holds(d)' \subseteq r.items
      /\ r.drained \/ r.effect = [kind |-> "MarkDraining", at |-> "applied"] => Marked(d)'
      /\ r.own = "Closed" \/ r.effect = [kind |-> "Release", at |-> "applied"] => attempt'[d] = "CLOSED"
      /\ \A j \in r.persisted : Ended(j)'
  BY DEF RecordMarked, AttemptMoves
<1>2. r.suppressed = r.items =>
         /\ attempt'[d] \in {"CLAIMED", "CLOSED"}
         /\ r.own \in {"Coordinator", "Closed"} /\ r.effect.kind \in {"none", "Release"}
  BY DEF RecordMarked, AttemptMoves
<1> QED BY <1>1, <1>2 DEF RecordMarked

(* An attempt of which the transaction touches nothing. *)
LEMMA OtherMoves ==
    ASSUME AttemptsOK, NEW e \in Ids, attempt'[e] = attempt[e],
           \A j \in Items : job'[j] = job[j] \/ (job[j].dispatch # e /\ job'[j].dispatch # e)
    PROVE  AttemptMoves(e)
<1>1. Holds(e)' = Holds(e)
  <2>1. \A j \in Items : job'[j].dispatch # e => job'[j] \notin [state : {"CLAIMED", "RUNNING"}, dispatch : {e}]
    OBVIOUS
  <2>2. \A j \in Items : job[j].dispatch # e => job[j] \notin [state : {"CLAIMED", "RUNNING"}, dispatch : {e}]
    OBVIOUS
  <2> QED BY <2>1, <2>2 DEF Holds
<1>2. CancelledBySidecar(e) => CancelledBySidecar(e)'
  BY DEF CancelledBySidecar
<1>3. Marked(e)' = Marked(e)
  BY DEF Marked
<1> QED BY <1>1, <1>2, <1>3 DEF AttemptMoves, AttemptsOK

(* A transaction that lets every attempt go on. *)
LEMMA MovesClose ==
    ASSUME ClosingInv, UNCHANGED <<claim, stage>>, Registered' = Registered,
           \A d \in Ids : AttemptMoves(d),
           \A j \in Items : job'[j] = job[j] \/ ~ClaimedNow(job[j].dispatch),
           \A d \in Registered : RecordMarked(d, dispatches[d])'
    PROVE  ClosedStill'
<1>1. AttemptsOK'
  BY DEF AttemptsOK, AttemptMoves
<1>2. MarksOK'
  BY DEF MarksOK
<1>3. claim.items \in SUBSET Items
  BY DEF ClosingInv, CustodyInv, CoordinatorTypeOK, ActorTypeOK
<1>4. claim.at = "done" => \A j \in claim.items : job'[j] = job[j]
  BY <1>3 DEF ClaimedNow
<1>5. ASSUME NEW d \in Ids, claim.at = "done", Holds(d) = claim.items
      PROVE  Holds(d)' = claim.items
  <2>1. Holds(d)' \subseteq claim.items
    BY <1>5 DEF AttemptMoves
  <2>2. ASSUME NEW j \in claim.items
        PROVE  j \in Holds(d)'
    <3>1. job'[j] = job[j] /\ j \in Holds(d)
      BY <1>4, <1>5
    <3> QED BY <3>1 DEF Holds
  <2> QED BY <2>1, <2>2
<1>6. ClaimHolds'
  <2> SUFFICES ASSUME NEW d \in Ids, ClaimedNow(d)' PROVE Holds(d)' = claim.items
    BY DEF ClaimHolds
  <2>1. ClaimedNow(d) /\ claim.at = "done"
    BY <1>4 DEF ClaimedNow
  <2> QED BY <1>5, <2>1 DEF ClosingInv, ClaimHolds
<1>7. ForgottenIsClosed'
  <2> SUFFICES ASSUME NEW d \in Ids, d \notin Registered
      PROVE  \/ attempt'[d] \in {"none", "CLOSED"} /\ Holds(d)' = {}
             \/ attempt'[d] = "DRAINING" /\ Holds(d)' = {} /\ CancelledBySidecar(d)'
             \/ claim.at = "done" /\ Holds(d)' = claim.items
             \/ stage = "Recovered" /\ DbMayFail
    BY DEF ForgottenIsClosed
  <2>1. AttemptMoves(d)
    OBVIOUS
  <2>2. CASE attempt[d] \in {"none", "CLOSED"} /\ Holds(d) = {}
    BY <2>1, <2>2 DEF AttemptMoves
  <2>3. CASE attempt[d] = "DRAINING" /\ Holds(d) = {} /\ CancelledBySidecar(d)
    BY <2>1, <2>3 DEF AttemptMoves, Marked
  <2>4. CASE claim.at = "done" /\ Holds(d) = claim.items
    BY <1>5, <2>4
  <2> QED BY <2>2, <2>3, <2>4 DEF ClosingInv, ForgottenIsClosed
<1> QED BY <1>1, <1>2, <1>6, <1>7 DEF ClosedStill

(* The store's dispatch transitions: a release closes the attempt and leaves *)
(* it nothing,                                                               *)
LEMMA ReleasedMoves ==
    ASSUME CustodyInv, AttemptsOK, NEW d \in Ids, ~ClaimedNow(d), attempt[d] # "none",
           ReleaseWorksetDispatch(d)
    PROVE  /\ \A e \in Ids : AttemptMoves(e)
           /\ \A j \in Items : job'[j] = job[j] \/ ~ClaimedNow(job[j].dispatch)
           /\ \A j \in Items : Ended(j) => Ended(j)'
           /\ attempt'[d] = "CLOSED" /\ Holds(d)' = {}
           /\ \A e \in Ids : e # d => attempt'[e] = attempt[e]
<1>1. StoreTypeOK
  BY DEF CustodyInv, CoordinatorTypeOK
<1>2. job' = ReturnJobs({d}) /\ attempt' = [attempt EXCEPT ![d] = "CLOSED"]
  BY DEF ReleaseWorksetDispatch
<1>3. \A j \in Items :
                \/ job'[j] = job[j]
                \/ /\ job[j].state \in {"CLAIMED", "RUNNING"} /\ job[j].dispatch = d
                   /\ \/ job'[j] = [state |-> "QUEUED", dispatch |-> 0]
                      \/ job'[j].state = "INTERRUPTED" /\ job'[j].dispatch = job[j].dispatch
  BY <1>1, <1>2, Returned
<1>4. attempt'[d] = "CLOSED" /\ \A e \in Ids : e # d => attempt'[e] = attempt[e]
  BY <1>1, <1>2 DEF StoreTypeOK
<1>5. ASSUME NEW j \in Items
      PROVE  j \notin Holds(d)'
  <2>1. CASE j \notin Holds(d)
    <3>1. job'[j] = job[j]
      BY <1>2, <2>1 DEF ReturnJobs
    <3> QED BY <2>1, <3>1 DEF Holds
  <2>2. CASE j \in Holds(d)
    <3>1. job'[j] = (IF job[j].state = "RUNNING" THEN [job[j] EXCEPT !.state = "INTERRUPTED"]
                     ELSE [state |-> "QUEUED", dispatch |-> 0])
      BY <1>2, <2>2 DEF ReturnJobs
    <3>2. job[j] \in [state : JobStates, dispatch : {0} \cup Ids]
      BY <1>1 DEF StoreTypeOK
    <3>3. job'[j].state \in {"INTERRUPTED", "QUEUED"}
      BY <3>1, <3>2
    <3>4. job'[j] \notin [state : {"CLAIMED", "RUNNING"}, dispatch : {d}]
      BY <3>3
    <3> QED BY <3>4 DEF Holds
  <2> QED BY <2>1, <2>2
<1>6. Holds(d)' = {}
  BY <1>5 DEF Holds
<1>7. \A j \in Items : Ended(j) => Ended(j)'
  BY <1>3 DEF Ended
<1>8. AttemptMoves(d)
  <2>1. CancelledBySidecar(d) => CancelledBySidecar(d)'
    BY <1>3 DEF CancelledBySidecar
  <2>2. Marked(d)'
    BY <1>4 DEF Marked
  <2> QED BY <1>4, <1>6, <2>1, <2>2 DEF AttemptMoves
<1>9. ASSUME NEW e \in Ids, e # d
      PROVE  AttemptMoves(e)
  <2>1. \A j \in Items : job'[j] = job[j] \/ (job[j].dispatch # e /\ job'[j].dispatch # e)
    <3>1. e # 0
      BY DEF Ids
    <3> QED BY <1>3, <1>9, <3>1
  <2> QED BY <1>4, <1>9, <2>1, OtherMoves
<1> QED BY <1>3, <1>4, <1>6, <1>7, <1>8, <1>9

(* and the marks let it go on.                                               *)
LEMMA MarkMoves ==
    ASSUME CustodyInv, AttemptsOK, NEW d \in Ids, attempt[d] # "none",
           MarkWorksetActive(d) \/ MarkWorksetDraining(d)
    PROVE  /\ \A e \in Ids : AttemptMoves(e)
           /\ \A e \in Ids : e # d => attempt'[e] = attempt[e]
           /\ MarkWorksetDraining(d) /\ attempt[d] # "CLAIMED" => Marked(d)'
           /\ MarkWorksetDraining(d) /\ attempt[d] = "CLAIMED" => attempt'[d] = "CLAIMED"
<1>1. attempt \in [Ids -> AttemptStates]
  BY DEF CustodyInv, CoordinatorTypeOK, StoreTypeOK
<1>2. job' = job /\ \A e \in Ids : e # d => attempt'[e] = attempt[e]
  BY <1>1 DEF MarkWorksetActive, MarkWorksetDraining
<1>3. \A e \in Ids : Holds(e)' = Holds(e) /\ CancelledBySidecar(e)' = CancelledBySidecar(e)
  BY <1>2 DEF Holds, CancelledBySidecar
<1>4. \/ attempt'[d] = attempt[d]
      \/ attempt[d] = "CLAIMED" /\ attempt'[d] = "ACTIVE"
      \/ attempt[d] = "ACTIVE" /\ Holds(d) = {} /\ attempt'[d] = "CLOSED"
      \/ attempt[d] = "ACTIVE" /\ Holds(d) # {} /\ attempt'[d] = "DRAINING"
  BY <1>1 DEF MarkWorksetActive, MarkWorksetDraining
<1>5. AttemptMoves(d)
  BY <1>3, <1>4 DEF AttemptMoves, AttemptsOK, Marked
<1>6. \A e \in Ids : e # d => AttemptMoves(e)
  BY <1>2, OtherMoves
<1>7. MarkWorksetDraining(d) =>
        attempt'[d] = (IF attempt[d] # "ACTIVE" THEN attempt[d]
                       ELSE IF Holds(d) = {} THEN "CLOSED" ELSE "DRAINING")
  BY <1>1 DEF MarkWorksetDraining
<1>8. MarkWorksetDraining(d) /\ attempt[d] # "CLAIMED" => Marked(d)'
  BY <1>1, <1>7 DEF Marked, AttemptStates
<1> QED BY <1>2, <1>5, <1>6, <1>7, <1>8

(* The I/O thread's transition and what it says of it: an applied mark or    *)
(* release is in the store before the actor hears of it.                     *)
LEMMA IoCloses ==
    ASSUME ClosingInv, NEW d \in Registered, CoordinationIo(d)
    PROVE  ClosedStill' /\ EndedStays
<1> DEFINE r == dispatches[d]
           at == IF r.effect.kind = "MarkDraining" /\ attempt[d] = "CLAIMED" THEN "rejected" ELSE "applied"
           s == [r EXCEPT !.effect.at = at]
<1>1. r \in DispatchRecord /\ RecordMarked(d, r) /\ d \in Ids
  BY RecordIs
<1>2. CustodyInv /\ AttemptsOK /\ attempt[d] # "none" /\ ~ClaimedNow(d)
  BY <1>1, ClaimIsNotRegistered DEF ClosingInv, CustodyInv, JobsOK
<1>3. Update(d, s) /\ UNCHANGED <<claim, stage>>
  BY DEF CoordinationIo
<1>4. \/ r.effect.kind = "Activation" /\ MarkWorksetActive(d)
      \/ r.effect.kind = "MarkDraining" /\ MarkWorksetDraining(d)
      \/ r.effect.kind = "Release" /\ ReleaseWorksetDispatch(d)
  BY DEF CoordinationIo, Begin
<1>5. /\ \A e \in Ids : AttemptMoves(e)
      /\ \A e \in Ids : e # d => attempt'[e] = attempt[e]
      /\ \A j \in Items : job'[j] = job[j] \/ ~ClaimedNow(job[j].dispatch)
      /\ \A j \in Items : Ended(j) => Ended(j)'
      /\ r.effect.kind = "Release" => attempt'[d] = "CLOSED"
      /\ r.effect.kind = "MarkDraining" /\ at = "applied" => Marked(d)'
  <2>1. CASE r.effect.kind = "Release" /\ ReleaseWorksetDispatch(d)
    BY <1>1, <1>2, <2>1, ReleasedMoves
  <2>2. CASE r.effect.kind = "Activation" /\ MarkWorksetActive(d)
    <3>1. job' = job
      BY <2>2 DEF MarkWorksetActive
    <3> QED BY <1>1, <1>2, <2>2, <3>1, MarkMoves DEF Ended
  <2>3. CASE r.effect.kind = "MarkDraining" /\ MarkWorksetDraining(d)
    <3>1. job' = job
      BY <2>3 DEF MarkWorksetDraining
    <3> QED BY <1>1, <1>2, <2>3, <3>1, MarkMoves DEF Ended
  <2> QED BY <1>4, <2>1, <2>2, <2>3
<1>6. at \in {"applied", "rejected"}
  OBVIOUS
<1>7. /\ Kept(r, s) /\ s.own = r.own /\ s.effect = [kind |-> r.effect.kind, at |-> at]
  <2>1. r.effect # NoEffect
    BY <1>4 DEF NoEffect
  <2> HIDE DEF at
  <2> QED BY <1>1, <1>6, <2>1, EffectAtSet DEF Outcomes
<1> HIDE DEF at, s
<1>8. r.persisted \in SUBSET Items
  BY <1>1 DEF DispatchRecord
<1>71. PICK t : t = s
  OBVIOUS
<1>9. RecordMarked(d, t)'
  <2>1. /\ s.items # {} /\ Holds(d)' \subseteq s.items
        /\ \A j \in s.persisted : Ended(j)'
    BY <1>1, <1>5, <1>7, <1>8 DEF RecordMarked, AttemptMoves, Kept
  <2>2. s.drained \/ s.effect = [kind |-> "MarkDraining", at |-> "applied"] => Marked(d)'
    <3>1. s.drained => Marked(d)'
      BY <1>1, <1>5, <1>7 DEF RecordMarked, AttemptMoves, Kept
    <3>2. s.effect = [kind |-> "MarkDraining", at |-> "applied"] => r.effect.kind = "MarkDraining" /\ at = "applied"
      BY <1>7
    <3> QED BY <1>5, <3>1, <3>2
  <2>3. s.own = "Closed" \/ s.effect = [kind |-> "Release", at |-> "applied"] => attempt'[d] = "CLOSED"
    <3>1. s.own = "Closed" => attempt'[d] = "CLOSED"
      BY <1>1, <1>5, <1>7 DEF RecordMarked, AttemptMoves
    <3>2. s.effect = [kind |-> "Release", at |-> "applied"] => r.effect.kind = "Release"
      BY <1>7
    <3> QED BY <1>5, <3>1, <3>2
  <2>4. s.suppressed = s.items =>
         /\ attempt'[d] \in {"CLAIMED", "CLOSED"}
         /\ s.own \in {"Coordinator", "Closed"} /\ s.effect.kind \in {"none", "Release"}
    <3>1. s.suppressed = s.items => r.own \in {"Coordinator", "Closed"} /\ r.effect.kind \in {"none", "Release"}
      BY <1>1, <1>7 DEF RecordMarked, Kept
    <3> QED BY <1>4, <1>5, <1>7, <3>1
  <2> QED BY <1>71, <2>1, <2>2, <2>3, <2>4 DEF RecordMarked
<1>10. /\ Registered' = Registered /\ dispatches'[d] = s
       /\ \A e \in Registered : e # d => dispatches'[e] = dispatches[e]
  BY <1>3, UpdateGives
<1>11. ASSUME NEW e \in Registered
       PROVE  RecordMarked(e, dispatches[e])'
  <2>1. CASE e = d
    BY <1>71, <1>9, <1>10, <2>1 DEF RecordMarked
  <2>2. CASE e # d
    <3> DEFINE x == dispatches[e]
    <3>1. RecordMarked(e, x) /\ x \in DispatchRecord /\ e \in Ids /\ dispatches'[e] = x
      BY <1>10, <2>2, RecordIs
    <3>2. x.persisted \in SUBSET Items /\ AttemptMoves(e) /\ attempt'[e] = attempt[e]
      BY <1>5, <2>2, <3>1 DEF DispatchRecord
    <3>3. PICK y : y = x
      OBVIOUS
    <3>4. RecordMarked(e, y)'
      BY <1>5, <3>1, <3>2, <3>3, MovesMarked
    <3> QED BY <3>1, <3>3, <3>4 DEF RecordMarked
  <2> QED BY <2>1, <2>2
<1> QED BY <1>3, <1>5, <1>10, <1>11, MovesClose DEF EndedStays

(* A transaction that touches one attempt, and no record. *)
LEMMA OneMoves ==
    ASSUME ClosingInv, UNCHANGED <<claim, stage, dispatches>>, NEW d \in Ids, ~ClaimedNow(d), AttemptMoves(d),
           attempt[d] = "CLAIMED" => attempt'[d] \in {"CLAIMED", "CLOSED"},
           \A e \in Ids : e # d => attempt'[e] = attempt[e],
           \A j \in Items : job'[j] = job[j] \/ (job[j].dispatch = d /\ job'[j].dispatch = d),
           \A j \in Items : Ended(j) => Ended(j)'
    PROVE  ClosedStill'
<1>1. \A e \in Ids : AttemptMoves(e)
  BY OtherMoves DEF ClosingInv
<1>2. \A j \in Items : job'[j] = job[j] \/ ~ClaimedNow(job[j].dispatch)
  OBVIOUS
<1>3. Registered' = Registered
  BY DEF Registered
<1>4. ASSUME NEW e \in Registered
      PROVE  RecordMarked(e, dispatches[e])'
  <2> DEFINE x == dispatches[e]
  <2>1. RecordMarked(e, x) /\ x \in DispatchRecord /\ e \in Ids /\ dispatches'[e] = x
    BY RecordIs
  <2>2. x.persisted \in SUBSET Items /\ AttemptMoves(e)
        /\ (attempt[e] = "CLAIMED" => attempt'[e] \in {"CLAIMED", "CLOSED"})
    BY <1>1, <2>1 DEF DispatchRecord
  <2>3. PICK y : y = x
    OBVIOUS
  <2>4. RecordMarked(e, y)'
    BY <2>1, <2>2, <2>3, MovesMarked
  <2> QED BY <2>1, <2>3, <2>4 DEF RecordMarked
<1> QED BY <1>1, <1>2, <1>3, <1>4, MovesClose

(* A job that leaves the attempt which holds it. *)
LEMMA LeavesHolds ==
    ASSUME NEW d \in Ids, NEW j \in Items, j \in Holds(d), job'[j].state \notin {"CLAIMED", "RUNNING"},
           \A i \in Items : i # j => job'[i] = job[i]
    PROVE  Holds(d)' = Holds(d) \ {j}
<1>1. job'[j] \notin [state : {"CLAIMED", "RUNNING"}, dispatch : {d}]
  OBVIOUS
<1> QED BY <1>1 DEF Holds

(* The store call for an event: the last terminal of a draining attempt      *)
(* closes it.                                                                *)
LEMMA PersistCloses ==
    ASSUME ClosingInv, NEW d \in Ids, PersistWorkerEvent(d)
    PROVE  ClosedStill' /\ EndedStays
<1> DEFINE e == EvidenceOf(d)
           write == IF e.type = "Started" THEN MarkWorksetJobStarted(d, e) ELSE StageWorkerTerminal(d, e)
<1>1. UNCHANGED <<claim, stage, dispatches>> /\ StageStays /\ ClaimStays
  BY DEF PersistWorkerEvent, StageStays, ClaimStays
<1>2. stream[d].io = "wait"
  BY DEF PersistWorkerEvent
<1>3. e.type \in {"Started", "Terminal"} /\ e.job \in Items /\ ~ClaimedNow(d)
  BY <1>2, PersistingKnown DEF ClosingInv, Untouched
<1>4. StoreTypeOK
  BY DEF ClosingInv, CustodyInv, CoordinatorTypeOK
<1>5. \/ UNCHANGED storeVars
      \/ /\ write.allowed
         /\ job' = [job EXCEPT ![e.job].state = write.state]
         /\ attempt' = [attempt EXCEPT ![d] = IF write.closes THEN "CLOSED" ELSE @]
  BY DEF PersistWorkerEvent
<1>6. CASE UNCHANGED storeVars
  BY <1>1, <1>6, SameCloses DEF storeVars, EndedStays, Ended
<1>7. CASE /\ write.allowed
           /\ job' = [job EXCEPT ![e.job].state = write.state]
           /\ attempt' = [attempt EXCEPT ![d] = IF write.closes THEN "CLOSED" ELSE @]
  <2>1. job[e.job] \in [state : JobStates, dispatch : {0} \cup Ids]
    BY <1>3, <1>4 DEF StoreTypeOK
  <2>2. \/ /\ e.type = "Started" /\ write.state = "RUNNING" /\ ~write.closes
           /\ job[e.job].state = "CLAIMED" /\ job[e.job].dispatch = d
        \/ /\ e.type = "Terminal" /\ write.state = "FINISHED"
           /\ write.closes <=> (attempt[d] = "DRAINING" /\ Holds(d) = {e.job})
           /\ job[e.job].state \in {"CLAIMED", "RUNNING"} /\ job[e.job].dispatch = d
    <3>1. CASE e.type = "Started"
      <4>1. write = MarkWorksetJobStarted(d, e)
        BY <3>1
      <4>2. job[e.job] = [state |-> "CLAIMED", dispatch |-> d]
        <5>1. MarkWorksetJobStarted(d, e).allowed => job[e.job] = [state |-> "CLAIMED", dispatch |-> d]
          BY DEF MarkWorksetJobStarted
        <5> HIDE DEF write
        <5> QED BY <1>7, <4>1, <5>1
      <4> QED BY <3>1, <4>1, <4>2 DEF MarkWorksetJobStarted
    <3>2. CASE e.type = "Terminal"
      <4>1. write = StageWorkerTerminal(d, e)
        BY <3>2
      <4>2. job[e.job] = [state |-> IF e.unstarted THEN "CLAIMED" ELSE "RUNNING", dispatch |-> d]
        <5>1. StageWorkerTerminal(d, e).allowed =>
                job[e.job] = [state |-> IF e.unstarted THEN "CLAIMED" ELSE "RUNNING", dispatch |-> d]
          BY DEF StageWorkerTerminal
        <5> HIDE DEF write
        <5> QED BY <1>7, <4>1, <5>1
      <4>3. job[e.job].state \in {"CLAIMED", "RUNNING"} /\ job[e.job].dispatch = d
        BY <4>2
      <4>4. write.state = "FINISHED" /\ write.closes = (attempt[d] = "DRAINING" /\ Holds(d) = {e.job})
        BY <4>1 DEF StageWorkerTerminal
      <4> QED BY <3>2, <4>3, <4>4
    <3> QED BY <1>3, <3>1, <3>2
  <2>3. attempt[d] \in {"ACTIVE", "DRAINING"}
    BY <1>3, <1>7 DEF MarkWorksetJobStarted, StageWorkerTerminal, Executing
  <2> DEFINE state == write.state
             closes == write.closes
  <2>4. /\ job'[e.job] = [state |-> state, dispatch |-> d]
        /\ \A j \in Items : j # e.job => job'[j] = job[j]
        /\ attempt'[d] = (IF closes THEN "CLOSED" ELSE attempt[d])
        /\ \A c \in Ids : c # d => attempt'[c] = attempt[c]
    <3>1. job[e.job].dispatch = d
      BY <2>2
    <3> HIDE DEF write
    <3> QED BY <1>3, <1>4, <1>7, <2>1, <3>1 DEF StoreTypeOK
  <2>5. e.job \in Holds(d) /\ ~Ended(e.job)
    BY <1>3, <2>1, <2>2 DEF Holds, Ended
  <2>6. \/ state = "RUNNING" /\ ~closes
        \/ state = "FINISHED" /\ (closes <=> (attempt[d] = "DRAINING" /\ Holds(d) = {e.job}))
    BY <2>2
  <2> HIDE DEF write, state, closes
  <2>7. ASSUME state = "RUNNING" /\ ~closes
        PROVE  AttemptMoves(d)
    <3>1. Holds(d)' = Holds(d)
      <4>1. job'[e.job] \in [state : {"CLAIMED", "RUNNING"}, dispatch : {d}]
        BY <2>4, <2>7
      <4> QED BY <1>3, <2>4, <2>5, <4>1 DEF Holds
    <3>2. CancelledBySidecar(d) => CancelledBySidecar(d)'
      BY <2>1, <2>4, <2>5 DEF CancelledBySidecar, Ended
    <3>3. Holds(d)' # {} /\ attempt'[d] = attempt[d]
      BY <2>4, <2>5, <2>7, <3>1
    <3> QED BY <2>3, <3>1, <3>2, <3>3 DEF AttemptMoves, Marked
  <2>8. ASSUME state = "FINISHED" /\ (closes <=> (attempt[d] = "DRAINING" /\ Holds(d) = {e.job}))
        PROVE  AttemptMoves(d)
    <3>1. Holds(d)' = Holds(d) \ {e.job}
      BY <1>3, <2>4, <2>5, <2>8, LeavesHolds
    <3>2. CancelledBySidecar(d) => CancelledBySidecar(d)'
      BY <2>1, <2>4, <2>5 DEF CancelledBySidecar, Ended
    <3>3. attempt'[d] \in {"ACTIVE", "DRAINING", "CLOSED"} /\ (attempt[d] = "DRAINING" => attempt'[d] # "ACTIVE")
      BY <2>3, <2>4
    <3>4. attempt'[d] = "CLOSED" => Holds(d)' = {}
      BY <2>3, <2>4, <2>8, <3>1
    <3>5. attempt'[d] = "DRAINING" => Holds(d)' # {}
      BY <2>4, <2>5, <2>8, <3>1
    <3> QED BY <2>3, <3>1, <3>2, <3>3, <3>4, <3>5 DEF AttemptMoves, Marked
  <2>9. AttemptMoves(d)
    BY <2>6, <2>7, <2>8
  <2>10. \A j \in Items : Ended(j) => Ended(j)'
    BY <2>4, <2>5 DEF Ended
  <2>11. \A j \in Items : job'[j] = job[j] \/ (job[j].dispatch = d /\ job'[j].dispatch = d)
    BY <2>2, <2>4
  <2> QED BY <1>1, <1>3, <2>3, <2>4, <2>9, <2>10, <2>11, OneMoves DEF EndedStays
<1> QED BY <1>5, <1>6, <1>7

(* The transaction of a cancellation: a dispatch that was never activated    *)
(* closes with its last item, one that drains stays open.                    *)
LEMMA MutateCloses ==
    ASSUME ClosingInv, NEW m \in mutations, MutateJobCancellation(m)
    PROVE  ClosedStill' /\ EndedStays
<1> DEFINE j == m.job
           d == m.dispatch
<1>1. UNCHANGED <<claim, stage, dispatches>> /\ StageStays /\ ClaimStays
  BY DEF MutateJobCancellation, StageStays, ClaimStays
<1>2. CustodyInv /\ StoreTypeOK /\ j \in Items
  BY DEF ClosingInv, CustodyInv, CoordinatorTypeOK, QueuesTypeOK
<1>3. \/ UNCHANGED <<job, attempt>>
      \/ /\ d = 0 \/ job[j].dispatch = d
         /\ m.kind = "sidecar" /\ job[j].state = "CLAIMED"
         /\ job' = [job EXCEPT ![j].state = "CANCELED"]
         /\ attempt' = [attempt EXCEPT ![d] =
                          IF @ = "CLAIMED" /\ Holds(d) = {j} THEN "CLOSED" ELSE @]
  BY DEF MutateJobCancellation, storeVars
<1>4. CASE UNCHANGED <<job, attempt>>
  BY <1>1, <1>4, SameCloses DEF EndedStays, Ended
<1>5. CASE /\ d = 0 \/ job[j].dispatch = d
           /\ m.kind = "sidecar" /\ job[j].state = "CLAIMED"
           /\ job' = [job EXCEPT ![j].state = "CANCELED"]
           /\ attempt' = [attempt EXCEPT ![d] =
                            IF @ = "CLAIMED" /\ Holds(d) = {j} THEN "CLOSED" ELSE @]
  <2>1. d \in Ids /\ ~Untouched(d) /\ d # 0
    BY <1>2, <1>5, OldMutations DEF Ids
  <2>2. ~ClaimedNow(d) /\ attempt[d] # "none" /\ job[j].dispatch = d
    BY <1>5, <2>1 DEF Untouched
  <2>3. job[j] \in [state : JobStates, dispatch : {0} \cup Ids]
    BY <1>2 DEF StoreTypeOK
  <2>4. /\ job'[j] = [state |-> "CANCELED", dispatch |-> d]
        /\ \A i \in Items : i # j => job'[i] = job[i]
    BY <1>2, <1>5, <2>2, <2>3 DEF StoreTypeOK
  <2>5. /\ attempt'[d] = (IF attempt[d] = "CLAIMED" /\ Holds(d) = {j} THEN "CLOSED" ELSE attempt[d])
        /\ \A c \in Ids : c # d => attempt'[c] = attempt[c]
    BY <1>2, <1>5, <2>1 DEF StoreTypeOK
  <2> HIDE DEF j, d
  <2>6. j \in Holds(d) /\ ~Ended(j)
    BY <1>2, <1>5, <2>2, <2>3 DEF Holds, Ended
  <2>7. Holds(d)' = Holds(d) \ {j}
    BY <1>2, <2>1, <2>4, <2>6, LeavesHolds
  <2>8. CancelledBySidecar(d)'
    BY <1>2, <2>4 DEF CancelledBySidecar
  <2>9. attempt[d] # "CLOSED"
    BY <2>1, <2>6 DEF ClosingInv, AttemptsOK
  <2>10. attempt'[d] = "CLOSED" => Holds(d)' = {}
    BY <2>5, <2>7, <2>9
  <2>11. attempt'[d] = "CLAIMED" => Holds(d)' # {}
    BY <2>5, <2>6, <2>7
  <2>12. AttemptMoves(d)
    BY <2>2, <2>5, <2>7, <2>8, <2>9, <2>10, <2>11 DEF AttemptMoves, Marked
  <2>13. \A i \in Items : Ended(i) => Ended(i)'
    BY <2>4, <2>6 DEF Ended
  <2>14. \A i \in Items : job'[i] = job[i] \/ (job[i].dispatch = d /\ job'[i].dispatch = d)
    BY <2>2, <2>4
  <2> QED BY <1>1, <2>1, <2>2, <2>5, <2>12, <2>13, <2>14, OneMoves DEF EndedStays
<1> QED BY <1>3, <1>4, <1>5

(* The claim's transaction: the new attempt holds the claimed jobs and waits *)
(* for the actor.                                                            *)
LEMMA ClaimIoCloses ==
    ASSUME ClosingInv, ClaimIo
    PROVE  ClosedStill' /\ EndedStays
<1>00. PICK d : d = NextId
  OBVIOUS
<1>0. CustodyInv /\ StoreTypeOK
  BY DEF ClosingInv, CustodyInv, CoordinatorTypeOK
<1>1. PICK S \in SUBSET {j \in Items : job[j].state = "QUEUED"} :
         /\ S # {}
         /\ claim' = [at |-> "done", items |-> S, before |-> Completed]
         /\ job' = [j \in Items |-> IF j \in S THEN [state |-> "CLAIMED", dispatch |-> d] ELSE job[j]]
         /\ attempt' = [attempt EXCEPT ![d] = "CLAIMED"]
  BY <1>00 DEF ClaimIo
<1>2. claim.at = "queued" /\ UNCHANGED <<dispatches, stage>>
  BY DEF ClaimIo
<1>3. d \in Ids /\ attempt[d] = "none" /\ d # 0
  BY <1>0, <1>2, <1>00, NextIdIsNew DEF CustodyInv, ClaimOK, Ids
<1>4. d \notin Registered /\ \A j \in Items : job[j].dispatch # d
  BY <1>0, <1>3 DEF CustodyInv, JobsOK
<1>5. /\ \A j \in S : job[j].dispatch = 0 /\ ~Ended(j) /\ job'[j] = [state |-> "CLAIMED", dispatch |-> d]
      /\ \A j \in Items : j \notin S => job'[j] = job[j]
      /\ S \subseteq Items
  BY <1>0, <1>1 DEF CustodyInv, JobsOK, Ended
<1>6. attempt'[d] = "CLAIMED" /\ \A e \in Ids : e # d => attempt'[e] = attempt[e]
  BY <1>0, <1>1, <1>3 DEF StoreTypeOK
<1>7. Holds(d)' = S
  <2>1. \A j \in Items : job'[j] \in [state : {"CLAIMED", "RUNNING"}, dispatch : {d}] <=> j \in S
    BY <1>4, <1>5
  <2> QED BY <1>5, <2>1 DEF Holds
<1>8. \A e \in Ids : e # d => AttemptMoves(e)
  <2> SUFFICES ASSUME NEW e \in Ids, e # d PROVE AttemptMoves(e)
    OBVIOUS
  <2>1. \A j \in Items : job'[j] = job[j] \/ (job[j].dispatch # e /\ job'[j].dispatch # e)
    BY <1>5 DEF Ids
  <2> QED BY <1>6, <2>1, OtherMoves DEF ClosingInv
<1>9. \A j \in Items : Ended(j) => Ended(j)'
  BY <1>5 DEF Ended
<1>10. AttemptsOK'
  <2>1. \A e \in Ids : e # d =>
          /\ attempt'[e] = "CLOSED" => Holds(e)' = {}
          /\ attempt'[e] = "CLAIMED" => Holds(e)' # {}
          /\ attempt'[e] = "DRAINING" => Holds(e)' # {} \/ CancelledBySidecar(e)'
    BY <1>8 DEF AttemptMoves
  <2> QED BY <1>1, <1>6, <1>7, <2>1 DEF AttemptsOK
<1>11. MarksOK'
  <2>1. Registered' = Registered
    BY <1>2 DEF Registered
  <2> SUFFICES ASSUME NEW e \in Registered PROVE RecordMarked(e, dispatches[e])'
    BY <2>1 DEF MarksOK
  <2> DEFINE x == dispatches[e]
  <2>2. RecordMarked(e, x) /\ x \in DispatchRecord /\ e \in Ids /\ dispatches'[e] = x /\ e # d
    BY <1>2, <1>4, RecordIs
  <2>3. x.persisted \in SUBSET Items /\ AttemptMoves(e) /\ attempt'[e] = attempt[e]
    BY <1>6, <1>8, <2>2 DEF DispatchRecord
  <2>4. PICK y : y = x
    OBVIOUS
  <2>5. RecordMarked(e, y)'
    BY <1>9, <2>2, <2>3, <2>4, MovesMarked
  <2> QED BY <2>2, <2>4, <2>5 DEF RecordMarked
<1>12. claim'.at = "done" /\ claim'.items = S
  BY <1>1
<1>13. ClaimHolds'
  <2> SUFFICES ASSUME NEW e \in Ids, ClaimedNow(e)' PROVE Holds(e)' = S
    BY <1>12 DEF ClaimHolds
  <2>1. e = d
    BY <1>5, <1>12 DEF ClaimedNow
  <2> QED BY <1>7, <2>1
<1>14. ForgottenIsClosed'
  <2> SUFFICES ASSUME NEW e \in Ids, e \notin Registered
      PROVE  \/ attempt'[e] \in {"none", "CLOSED"} /\ Holds(e)' = {}
             \/ attempt'[e] = "DRAINING" /\ Holds(e)' = {} /\ CancelledBySidecar(e)'
             \/ claim'.at = "done" /\ Holds(e)' = claim'.items
             \/ stage = "Recovered" /\ DbMayFail
    BY <1>2 DEF ForgottenIsClosed, Registered
  <2>1. CASE e = d
    BY <1>7, <1>12, <2>1
  <2>2. CASE e # d
    <3>1. AttemptMoves(e) /\ attempt'[e] = attempt[e]
      BY <1>6, <1>8, <2>2
    <3>2. \/ attempt[e] \in {"none", "CLOSED"} /\ Holds(e) = {}
          \/ attempt[e] = "DRAINING" /\ Holds(e) = {} /\ CancelledBySidecar(e)
          \/ stage = "Recovered" /\ DbMayFail
      BY <1>2 DEF ClosingInv, ForgottenIsClosed
    <3> QED BY <3>1, <3>2 DEF AttemptMoves
  <2> QED BY <2>1, <2>2
<1> QED BY <1>9, <1>10, <1>11, <1>13, <1>14 DEF ClosedStill, EndedStays

(* The recovery of the shutdown closes whatever is still open. *)
LEMMA RecoveryCloses ==
    ASSUME ClosingInv, ShutdownRecovery
    PROVE  ClosedStill' /\ EndedStays
<1> DEFINE open == {d \in Ids : attempt[d] \in {"CLAIMED", "ACTIVE", "DRAINING"}}
<1>1. stage = "Recovering" /\ stage' = "Recovered" /\ Registered' = {} /\ claim' = claim
  BY DEF ShutdownRecovery, Registered
<1>2. claim.at = "none" /\ StoreTypeOK /\ CustodyInv
  BY <1>1 DEF ClosingInv, CustodyInv, WorkerOK, CoordinatorTypeOK
<1>3. MarksOK' /\ ClaimHolds'
  BY <1>1, <1>2 DEF MarksOK, ClaimHolds, ClaimedNow
<1>4. \/ job' = ReturnJobs(open) /\ attempt' = [d \in Ids |-> IF d \in open THEN "CLOSED" ELSE attempt[d]]
      \/ DbMayFail /\ UNCHANGED <<job, attempt>>
  BY DEF ShutdownRecovery
<1>5. CASE DbMayFail /\ UNCHANGED <<job, attempt>>
  <2>1. \A d : Holds(d)' = Holds(d) /\ CancelledBySidecar(d)' = CancelledBySidecar(d)
    BY <1>5 DEF Holds, CancelledBySidecar
  <2>2. AttemptsOK'
    BY <1>5, <2>1 DEF ClosingInv, AttemptsOK
  <2>3. ForgottenIsClosed'
    BY <1>1, <1>5 DEF ForgottenIsClosed
  <2> QED BY <1>3, <1>5, <2>2, <2>3 DEF ClosedStill, EndedStays, Ended
<1>6. CASE job' = ReturnJobs(open) /\ attempt' = [d \in Ids |-> IF d \in open THEN "CLOSED" ELSE attempt[d]]
  <2>1. \A d \in Ids : attempt'[d] \in {"none", "CLOSED"}
    BY <1>2, <1>6 DEF StoreTypeOK, AttemptStates
  <2>2. ASSUME NEW j \in Items
        PROVE  job'[j].state \notin {"CLAIMED", "RUNNING"}
    <3>1. job[j] \in [state : JobStates, dispatch : {0} \cup Ids]
      BY <1>2 DEF StoreTypeOK
    <3>2. CASE job[j].state \in {"CLAIMED", "RUNNING"}
      <4> DEFINE d == job[j].dispatch
      <4>1. d \in Ids
        BY <1>2, <3>1, <3>2 DEF CustodyInv, JobsOK
      <4>2. j \in Holds(d)
        BY <3>1, <3>2 DEF Holds
      <4>3. attempt[d] \notin {"none", "CLOSED"}
        BY <1>2, <4>1, <4>2 DEF CustodyInv, JobsOK, ClosingInv, AttemptsOK
      <4>4. d \in open
        BY <1>2, <4>1, <4>3 DEF StoreTypeOK, AttemptStates
      <4>5. job'[j] = (IF job[j].state = "RUNNING" THEN [job[j] EXCEPT !.state = "INTERRUPTED"]
                       ELSE [state |-> "QUEUED", dispatch |-> 0])
        BY <1>6, <4>2, <4>4 DEF ReturnJobs
      <4> QED BY <3>1, <4>5
    <3>3. CASE job[j].state \notin {"CLAIMED", "RUNNING"}
      <4>1. job'[j] = job[j]
        BY <1>6, <3>3 DEF ReturnJobs, Holds
      <4> QED BY <3>3, <4>1
    <3> QED BY <3>2, <3>3
  <2>3. \A d \in Ids : Holds(d)' = {}
    <3>1. \A d \in Ids : \A j \in Items : job'[j] \notin [state : {"CLAIMED", "RUNNING"}, dispatch : {d}]
      BY <2>2
    <3> QED BY <3>1 DEF Holds
  <2>4. AttemptsOK' /\ ForgottenIsClosed'
    BY <2>1, <2>3 DEF AttemptsOK, ForgottenIsClosed
  <2>5. \A j \in Items : Ended(j) => job'[j] = job[j]
    BY <1>6 DEF ReturnJobs, Holds, Ended
  <2> QED BY <1>3, <2>4, <2>5 DEF ClosedStill, EndedStays, Ended
<1> QED BY <1>4, <1>5, <1>6

(* What was resolved has ended, as long as a step resolves only what has. *)
LEMMA RequestsKept ==
    ASSUME ClosingInv, EndedStays,
           \A j \in Items : request'[j] = "RESOLVED" => request[j] = "RESOLVED" \/ Ended(j)',
           \A j \in Items : request[j] = "RESOLVED" => request'[j] = "RESOLVED",
           \A m \in mutations' :
              \/ m \in mutations
              \/ /\ m.kind = "resolved" => Ended(m.job)'
                 /\ m.kind = "sidecar" /\ m.at = "applied" => request'[m.job] = "RESOLVED",
           DOMAIN held' \subseteq Items,
           \A j \in DOMAIN held' : held'[j] \in {"FINISHED", "CANCELED"} =>
              Ended(j)' \/ (j \in DOMAIN held /\ held[j] = held'[j])
    PROVE  RequestsOK'
<1>1. RequestsOK /\ \A m \in mutations : m.job \in Items
  BY DEF ClosingInv, CustodyInv, CoordinatorTypeOK, QueuesTypeOK
<1>2. \A j \in Items : request'[j] = "RESOLVED" => Ended(j)'
  BY <1>1 DEF RequestsOK, EndedStays
<1>3. ASSUME NEW m \in mutations'
      PROVE  /\ m.kind = "resolved" => Ended(m.job)'
             /\ m.kind = "sidecar" /\ m.at = "applied" => request'[m.job] = "RESOLVED"
  <2>1. CASE m \in mutations
    BY <1>1, <2>1 DEF RequestsOK, EndedStays
  <2> QED BY <2>1
<1>4. \A j \in DOMAIN held' : held'[j] \in {"FINISHED", "CANCELED"} => Ended(j)'
  BY <1>1 DEF RequestsOK, EndedStays
<1> QED BY <1>2, <1>3, <1>4 DEF RequestsOK

(* A step that only moves jobs, or queues what nothing has resolved yet. *)
LEMMA RequestsQueued ==
    ASSUME ClosingInv, EndedStays, UNCHANGED <<request, held>>,
           \A m \in mutations' :
              m \in mutations \/ (m.at = "queued" /\ (m.kind = "resolved" => Ended(m.job)'))
    PROVE  RequestsOK'
BY RequestsKept DEF ClosingInv, RequestsOK

(* A step that touches none of this. *)
LEMMA RequestsSame ==
    ASSUME ClosingInv, UNCHANGED <<job, request, mutations, held>>
    PROVE  RequestsOK'
BY RequestsQueued DEF EndedStays, Ended

(* The store's calls, *)
LEMMA PersistRequests ==
    ASSUME ClosingInv, NEW d \in Ids, PersistWorkerEvent(d)
    PROVE  RequestsOK'
<1> DEFINE e == EvidenceOf(d)
           write == IF e.type = "Started" THEN MarkWorksetJobStarted(d, e) ELSE StageWorkerTerminal(d, e)
<1>1. UNCHANGED <<mutations, held>> /\ stream[d].io = "wait"
  BY DEF PersistWorkerEvent
<1>2. e.type \in {"Started", "Terminal"} /\ e.job \in Items
  BY <1>1, PersistingKnown DEF ClosingInv
<1>3. StoreTypeOK /\ EndedStays
  BY PersistCloses DEF ClosingInv, CustodyInv, CoordinatorTypeOK
<1>4. \/ UNCHANGED storeVars
      \/ job' = [job EXCEPT ![e.job].state = write.state] /\ request' = write.request
  BY DEF PersistWorkerEvent
<1>5. CASE UNCHANGED storeVars
  BY <1>1, <1>5, RequestsSame DEF storeVars
<1>6. CASE job' = [job EXCEPT ![e.job].state = write.state] /\ request' = write.request
  <2>1. CASE e.type = "Started"
    <3>1. request' = request
      BY <1>6, <2>1 DEF MarkWorksetJobStarted
    <3> QED BY <1>1, <1>3, <3>1, RequestsQueued
  <2>2. CASE e.type = "Terminal"
    <3>1. PICK i : i = e.job
      OBVIOUS
    <3>2. /\ job' = [job EXCEPT ![i].state = "FINISHED"]
          /\ request' = [request EXCEPT ![i] = IF @ = "ACTIVE" THEN "RESOLVED" ELSE @]
      BY <1>6, <2>2, <3>1 DEF StageWorkerTerminal
    <3>3. i \in Items /\ job[i] \in [state : JobStates, dispatch : {0} \cup Ids]
      BY <1>2, <1>3, <3>1 DEF StoreTypeOK
    <3>4. Ended(i)'
      BY <1>3, <3>2, <3>3 DEF StoreTypeOK, Ended
    <3>5. \A j \in Items : request'[j] = "RESOLVED" => request[j] = "RESOLVED" \/ j = i
      BY <1>3, <3>2, <3>3 DEF StoreTypeOK
    <3>6. \A j \in Items : request[j] = "RESOLVED" => request'[j] = "RESOLVED"
      BY <1>3, <3>2, <3>3 DEF StoreTypeOK
    <3> QED BY <1>1, <1>3, <3>4, <3>5, <3>6, RequestsKept DEF ClosingInv, RequestsOK
  <2> QED BY <1>2, <2>1, <2>2
<1> QED BY <1>4, <1>5, <1>6

(* and the transaction of a cancellation.                                    *)
LEMMA MutateRequests ==
    ASSUME ClosingInv, NEW m \in mutations, MutateJobCancellation(m)
    PROVE  RequestsOK'
<1>1. UNCHANGED held /\ m.at = "queued"
  BY DEF MutateJobCancellation
<1>2. /\ StoreTypeOK /\ RequestsOK /\ EndedStays
      /\ m \in [kind : {"sidecar", "resolved"}, job : Items, dispatch : {0} \cup Ids,
                at : {"queued"} \cup Outcomes]
  BY MutateCloses DEF ClosingInv, CustodyInv, CoordinatorTypeOK, QueuesTypeOK
<1> DEFINE j == m.job
<1>3. PICK at \in {"applied", "rejected"} :
         /\ mutations' = (mutations \ {m}) \cup {[m EXCEPT !.at = at]}
         /\ \/ /\ request[j] = "RESOLVED" /\ UNCHANGED storeVars
            \/ /\ m.kind = "resolved" /\ at = "applied"
               /\ request' = [request EXCEPT ![j] = "RESOLVED"] /\ UNCHANGED <<job, attempt>>
            \/ /\ m.kind = "sidecar" /\ at = "applied"
               /\ request' = [request EXCEPT ![j] = "RESOLVED"]
               /\ job' = [job EXCEPT ![j].state = "CANCELED"]
            \/ at = "rejected" /\ UNCHANGED storeVars
  BY DEF MutateJobCancellation
<1>4. j \in Items /\ job[j] \in [state : JobStates, dispatch : {0} \cup Ids]
  BY <1>2 DEF StoreTypeOK
<1> DEFINE n == [m EXCEPT !.at = at]
<1>5. n.kind = m.kind /\ n.job = j /\ n.at = at
  BY <1>2
<1>6. mutations' \subseteq mutations \cup {n}
  BY <1>3
<1> HIDE DEF n, j
<1>7. /\ \A i \in Items : request'[i] = "RESOLVED" => request[i] = "RESOLVED" \/ i = j
      /\ \A i \in Items : request[i] = "RESOLVED" => request'[i] = "RESOLVED"
      /\ at = "applied" => request'[j] = "RESOLVED"
  BY <1>2, <1>3, <1>4 DEF StoreTypeOK, storeVars
<1>8. at = "applied" => Ended(j)'
  <2>1. request[j] = "RESOLVED" \/ m.kind = "resolved" => Ended(j)
    BY <1>2, <1>4 DEF RequestsOK, j
  <2>2. job' = [job EXCEPT ![j].state = "CANCELED"] => job'[j].state = "CANCELED"
    BY <1>2, <1>4 DEF StoreTypeOK
  <2> QED BY <1>2, <1>3, <1>4, <2>1, <2>2 DEF EndedStays, Ended
<1>9. at # "applied" => request' = request
  BY <1>3 DEF storeVars
<1>10. m.kind = "resolved" => Ended(j)'
  BY <1>2, <1>4 DEF RequestsOK, EndedStays, j
<1>11. \A i \in mutations' :
              \/ i \in mutations
              \/ /\ i.kind = "resolved" => Ended(i.job)'
                 /\ i.kind = "sidecar" /\ i.at = "applied" => request'[i.job] = "RESOLVED"
  BY <1>5, <1>6, <1>7, <1>10
<1> QED BY <1>1, <1>2, <1>7, <1>8, <1>9, <1>11, RequestsKept DEF RequestsOK

(* The actor's handlers that queue a mutation or keep a hold.                *)
LEMMA ActorRequests ==
    ASSUME ClosingInv,
           \/ \E d \in Registered : AdmitPreparedDispatch(d) \/ HandleActivationIoCompletion(d)
           \/ \E d \in Ids : HandlePersisted(d)
           \/ \E m \in mutations : ApplyCancellationMutationReceipts(m)
    PROVE  RequestsOK'
<1>1. CASE \E d \in Registered : AdmitPreparedDispatch(d) \/ HandleActivationIoCompletion(d)
  <2>1. UNCHANGED <<job, request, held>>
    BY <1>1 DEF AdmitPreparedDispatch, HandleActivationIoCompletion
  <2>2. PICK d \in Registered : AdmitPreparedDispatch(d) \/ HandleActivationIoCompletion(d)
    BY <1>1
  <2>3. \/ mutations' = mutations
        \/ \E F : mutations' = mutations \cup {Mutation("sidecar", j, d) : j \in F}
    <3>1. CASE AdmitPreparedDispatch(d)
      BY <3>1 DEF AdmitPreparedDispatch
    <3>2. CASE HandleActivationIoCompletion(d)
      <4>1. mutations' = mutations \/ Activated(d)
        BY <3>2 DEF HandleActivationIoCompletion
      <4> QED BY <4>1 DEF Activated
    <3> QED BY <2>2, <3>1, <3>2
  <2>4. \A m \in mutations' : m \in mutations \/ (m.at = "queued" /\ m.kind = "sidecar")
    BY <2>3 DEF Mutation
  <2> QED BY <2>1, <2>4, RequestsQueued DEF EndedStays, Ended
<1>2. CASE \E d \in Ids : HandlePersisted(d)
  <2>1. PICK d \in Ids : HandlePersisted(d)
    BY <1>2
  <2>2. UNCHANGED <<job, request, held>> /\ stream[d].io \in Outcomes
    BY <2>1 DEF HandlePersisted
  <2>3. PICK i : i = EvidenceOf(d).job
    OBVIOUS
  <2>4. Persisting(d) /\ EvidenceOf(d).type \in {"Started", "Terminal"}
    BY <2>2, PersistingKnown DEF ClosingInv, Outcomes
  <2>5. \/ mutations' = mutations
        \/ /\ stream[d].io = "applied" /\ EvidenceOf(d).type # "Started"
           /\ mutations' = mutations \cup {Mutation("resolved", j, d) : j \in {i} \cap index}
    BY <2>1, <2>3 DEF HandlePersisted
  <2>6. mutations' # mutations => Ended(i)
    BY <2>3, <2>4, <2>5 DEF Persisting, FinishedBy, Ended
  <2>7. Ended(i)' = Ended(i)
    BY <2>2 DEF Ended
  <2>8. \A m \in mutations' : m \in mutations \/ (m.at = "queued" /\ m.job = i)
    BY <2>5 DEF Mutation
  <2>9. \A m \in mutations' : m \in mutations \/ (m.at = "queued" /\ (m.kind = "resolved" => Ended(m.job)'))
    BY <2>6, <2>7, <2>8
  <2> QED BY <2>2, <2>9, RequestsQueued DEF EndedStays, Ended
<1>3. CASE \E m \in mutations : ApplyCancellationMutationReceipts(m)
  <2>1. UNCHANGED <<job, request, held>> /\ mutations' \subseteq mutations
    BY <1>3 DEF ApplyCancellationMutationReceipts
  <2> QED BY <2>1, RequestsQueued DEF EndedStays, Ended
<1> QED BY <1>1, <1>2, <1>3

(* The barrier's answer that keeps a hold,                                   *)
LEMMA CommitRequests ==
    ASSUME ClosingInv, NEW j \in Items, CommitCancellation(j)
    PROVE  RequestsOK'
<1>1. /\ UNCHANGED <<job, mutations>> /\ request[j] = "NONE"
      /\ request' = [request EXCEPT ![j] = "ACTIVE"]
      /\ held' = [i \in DOMAIN held \cup {j} |-> IF i = j THEN job[j].state ELSE held[i]]
  BY DEF CommitCancellation
<1>2. RequestsOK /\ StoreTypeOK /\ EndedStays
  BY <1>1 DEF ClosingInv, CustodyInv, CoordinatorTypeOK, EndedStays, Ended
<1>3. \A i \in Items : request'[i] = "RESOLVED" <=> request[i] = "RESOLVED"
  BY <1>1, <1>2 DEF StoreTypeOK
<1>4. DOMAIN held' \subseteq Items
  BY <1>1, <1>2 DEF RequestsOK
<1>5. \A i \in DOMAIN held' : held'[i] \in {"FINISHED", "CANCELED"} =>
              Ended(i)' \/ (i \in DOMAIN held /\ held[i] = held'[i])
  BY <1>1 DEF Ended
<1> QED BY <1>1, <1>2, <1>3, <1>4, <1>5, RequestsKept

(* and the registration that calls resolved only what has ended.             *)
LEMMA RegisterRequests ==
    ASSUME ClosingInv, NEW j \in Items, RegisterCommittedCancellations(j)
    PROVE  RequestsOK'
<1>1. /\ UNCHANGED <<job, request>> /\ j \in DOMAIN held
      /\ held' = Restrict(held, DOMAIN held \ {j})
  BY DEF RegisterCommittedCancellations
<1>2. RequestsOK /\ EndedStays /\ (Ended(j)' <=> Ended(j))
  BY <1>1 DEF ClosingInv, EndedStays, Ended
<1>3. \A m \in mutations' : m \in mutations \/ (m.at = "queued" /\ m.job = j /\ Ended(j))
  <2>1. CASE \E d \in Containing(j) : TellDispatch(d, j)
    <3>1. PICK d \in Containing(j) : TellDispatch(d, j)
      BY <2>1
    <3>2. d \in Registered
      BY <3>1 DEF Containing
    <3>3. j \in dispatches[d].staged => Ended(j)
      <4>1. Durable(d, dispatches[d])
        BY <3>2, RecordIs
      <4> QED BY <4>1 DEF Durable, FinishedBy, Ended
    <3>4. mutations' = (IF j \in dispatches[d].staged THEN mutations \cup {Mutation("resolved", j, d)}
                        ELSE mutations)
      BY <3>1 DEF TellDispatch
    <3> QED BY <3>3, <3>4 DEF Mutation
  <2>2. CASE mutations' = IF held[j] \in {"FINISHED", "CANCELED"}
                          THEN mutations \cup {Mutation("resolved", j, 0)} ELSE mutations
    BY <1>1, <1>2, <2>2 DEF RequestsOK, Mutation
  <2> QED BY <2>1, <2>2 DEF RegisterCommittedCancellations
<1>4. /\ DOMAIN held' \subseteq DOMAIN held
      /\ \A i \in DOMAIN held' : held'[i] = held[i]
  BY <1>1 DEF Restrict
<1> QED BY <1>1, <1>2, <1>3, <1>4, RequestsKept DEF RequestsOK

(* A step that changes nothing of what the invariant says. *)
LEMMA StillCloses ==
    ASSUME ClosingInv, UNCHANGED <<job, attempt, request, dispatches, mutations, held>>,
           StageStays, ClaimStays
    PROVE  ClosedStill' /\ RequestsOK'
BY SameCloses, RequestsSame

(* Every step keeps the invariant: the claim's steps,                        *)
LEMMA ClaimClosing ==
    ASSUME ClosingInv, ClaimStep
    PROVE  ClosedStill' /\ RequestsOK'
<1>1. CASE ScheduleClaim
  BY <1>1, StillCloses DEF ScheduleClaim, StageStays, ClaimStays, NoClaim
<1>2. CASE ClaimFails
  BY <1>2, StillCloses DEF ClaimFails, StageStays, ClaimStays, NoClaim
<1>3. CASE ClaimIo
  BY <1>3, ClaimIoCloses, RequestsQueued DEF ClaimIo
<1>4. CASE HandleClaimIoCompletion
  BY <1>4, ClaimCompletionCloses, RequestsSame DEF HandleClaimIoCompletion
<1> QED BY <1>1, <1>2, <1>3, <1>4 DEF ClaimStep

(* the handlers of a dispatch,                                               *)
LEMMA DispatchClosing ==
    ASSUME ClosingInv, NEW d \in Registered, DispatchStep(d)
    PROVE  ClosedStill' /\ RequestsOK'
<1>1. CASE CoordinationIo(d)
  <2>1. UNCHANGED <<request, mutations, held>>
    BY <1>1 DEF CoordinationIo, MarkWorksetActive, MarkWorksetDraining, ReleaseWorksetDispatch
  <2> QED BY <1>1, <2>1, IoCloses, RequestsQueued
<1>2. CASE AdmitPreparedDispatch(d)
  BY <1>2, AdmitCloses, ActorRequests
<1>3. CASE HandleActivationIoCompletion(d)
  BY <1>3, ActivationCloses, ActorRequests
<1>4. CASE Reconstruct(d) \/ ReconstructionFails(d)
  BY <1>4, ReconstructCloses, RequestsSame DEF Reconstruct, ReconstructionFails
<1>5. CASE SubmitWorksetToWorker(d)
  BY <1>5, SubmitCloses, RequestsSame DEF SubmitWorksetToWorker
<1>6. CASE HandleSubmissionCompletion(d)
  BY <1>6, SubmissionCloses, RequestsSame DEF HandleSubmissionCompletion
<1>7. CASE ConfirmResidence(d)
  BY <1>7, ConfirmCloses, RequestsSame DEF ConfirmResidence
<1>8. CASE HandleResidenceCompletion(d)
  BY <1>8, ResidenceCloses, RequestsSame DEF HandleResidenceCompletion
<1>9. CASE CoordinationIoFails(d)
  BY <1>9, IoFailsCloses, RequestsSame DEF CoordinationIoFails
<1>10. CASE RetryActivation(d)
  BY <1>10, RetryActivationCloses, RequestsSame DEF RetryActivation
<1>11. CASE ProcessPendingDrainingTransitions(d)
  BY <1>11, PendingDrainingCloses, RequestsSame DEF ProcessPendingDrainingTransitions
<1>12. CASE HandleDrainingIoCompletion(d)
  BY <1>12, DrainingCloses, RequestsSame DEF HandleDrainingIoCompletion
<1>13. CASE HandleReleaseIoCompletion(d)
  BY <1>13, ReleaseCloses, RequestsSame DEF HandleReleaseIoCompletion
<1>14. CASE ProcessContainment(d)
  BY <1>14, ContainmentCloses, RequestsSame DEF ProcessContainment
<1> QED BY <1>1, <1>2, <1>3, <1>4, <1>5, <1>6, <1>7, <1>8, <1>9, <1>10, <1>11, <1>12, <1>13, <1>14
        DEF DispatchStep

(* of a stream's evidence,                                                   *)
LEMMA EvidenceClosing ==
    ASSUME ClosingInv, NEW d \in Ids, EvidenceStep(d) \/ ApplyFaultDispatch(d)
    PROVE  ClosedStill' /\ RequestsOK'
<1>1. CASE DiscardEvidence(d) \/ BeginPersistence(d)
  BY <1>1, StillCloses DEF DiscardEvidence, BeginPersistence, StageStays, ClaimStays
<1>2. CASE PersistWorkerEvent(d)
  BY <1>2, PersistCloses, PersistRequests
<1>3. CASE HandlePersisted(d)
  BY <1>3, PersistedCloses, ActorRequests
<1>4. CASE HandleWorksetSummary(d)
  BY <1>4, SummaryCloses, RequestsSame DEF HandleWorksetSummary
<1>5. CASE ApplyFaultDispatch(d)
  BY <1>5, FaultCloses, RequestsSame DEF ApplyFaultDispatch
<1> QED BY <1>1, <1>2, <1>3, <1>4, <1>5 DEF EvidenceStep

(* of commands and cancellations, and of the shutdown.                       *)
LEMMA CommandClosing ==
    ASSUME ClosingInv, ControlStep \/ CancellationStep \/ ShutdownStep
    PROVE  ClosedStill' /\ RequestsOK'
<1>1. CASE \E c \in controls : ExecuteAcknowledge(c) \/ CancelWorksetItem(c)
  BY <1>1, StillCloses DEF ExecuteAcknowledge, CancelWorksetItem, StageStays, ClaimStays
<1>2. CASE \E c \in controls : HandleWorkerControlCompletion(c)
  BY <1>2, ControlCloses, RequestsSame DEF HandleWorkerControlCompletion
<1>3. CASE \E j \in Items : RegisterCommittedCancellations(j)
  BY <1>3, RegisterCloses, RegisterRequests
<1>4. CASE \E m \in mutations : MutateJobCancellation(m)
  BY <1>4, MutateCloses, MutateRequests
<1>5. CASE \E m \in mutations : ApplyCancellationMutationReceipts(m)
  BY <1>5, ReceiptCloses, ActorRequests
<1>6. CASE FinishShutdownAfterWorkersStopped \/ ProcessShutdown
  BY <1>6, StillCloses DEF FinishShutdownAfterWorkersStopped, ProcessShutdown, StageStays, ClaimStays
<1>7. CASE ShutdownRecovery
  BY <1>7, RecoveryCloses, RequestsQueued DEF ShutdownRecovery
<1> QED BY <1>1, <1>2, <1>3, <1>4, <1>5, <1>6, <1>7 DEF ControlStep, CancellationStep, ShutdownStep

(* The invariant is inductive, *)
LEMMA ClosingNext == ClosingInv /\ [Next]_vars => ClosingInv'
<1> SUFFICES ASSUME ClosingInv, [Next]_vars PROVE ClosingInv'
  OBVIOUS
<1>1. CustodyInv'
  BY CustodyNext DEF ClosingInv
<1>2. ClosedStill' /\ RequestsOK'
  <2>1. CASE ClaimStep
    BY <2>1, ClaimClosing
  <2>2. CASE \E d \in Registered : DispatchStep(d)
    BY <2>2, DispatchClosing
  <2>3. CASE \E d \in Ids : EvidenceStep(d) \/ ApplyFaultDispatch(d)
    BY <2>3, EvidenceClosing
  <2>4. CASE RoutePersistenceEvent
    BY <2>4, RouteCloses, RequestsSame DEF RoutePersistenceEvent
  <2>5. CASE HandleWorksetState
    BY <2>5, WorksetStateCloses, RequestsSame DEF HandleWorksetState
  <2>6. CASE HandleWorkerUnavailable
    BY <2>6, UnavailableCloses, RequestsSame DEF HandleWorkerUnavailable
  <2>7. CASE ControlStep \/ CancellationStep \/ ShutdownStep
    BY <2>7, CommandClosing
  <2>8. CASE WorkerStep \/ WorkerDies \/ HandleWorkerReady \/ ClearInvariantPause
    BY <2>8, StillCloses DEF WorkerStep, StartItem, EndItem, CompleteWorkset, SummariseWorkset, WorkerDies,
       HandleWorkerReady, ClearInvariantPause, coordinatorVars, StageStays, ClaimStays
  <2>9. CASE \E j \in Items : CommitCancellation(j)
    BY <2>9, SameCloses, CommitRequests DEF CommitCancellation, StageStays, ClaimStays
  <2>10. CASE BeginShutdown
    BY <2>10, BeginShutdownCloses, RequestsSame DEF BeginShutdown
  <2>11. CASE UNCHANGED vars
    BY <2>11, StillCloses DEF vars, StageStays, ClaimStays
  <2> QED BY <2>1, <2>2, <2>3, <2>4, <2>5, <2>6, <2>7, <2>8, <2>9, <2>10, <2>11 DEF Next, WorkerEventStep
<1> QED BY <1>1, <1>2 DEF ClosingInv, ClosedStill

(* and holds initially, when nothing was claimed. *)
LEMMA ClosingInit == Init => ClosingInv
<1> SUFFICES ASSUME Init PROVE ClosingInv
  OBVIOUS
<1>1. /\ \A j \in Items : job[j] = [state |-> "QUEUED", dispatch |-> 0]
      /\ \A d \in Ids : attempt[d] = "none"
      /\ \A j \in Items : request[j] = "NONE"
      /\ Registered = {} /\ claim.at = "none" /\ mutations = {} /\ DOMAIN held = {}
  BY DEF Init, NoClaim, Registered
<1>2. \A d \in Ids : Holds(d) = {}
  BY <1>1 DEF Holds
<1>3. AttemptsOK /\ MarksOK /\ RequestsOK /\ ClaimHolds /\ ForgottenIsClosed
  BY <1>1, <1>2 DEF AttemptsOK, MarksOK, RequestsOK, ClaimHolds, ClaimedNow, ForgottenIsClosed
<1> QED BY <1>3, CustodyInit DEF ClosingInv

(* What the coordinator has forgotten, whether it retired, was released or   *)
(* was cancelled by its sidecar as a whole, holds no job and is closed in    *)
(* the store: MaybeRetire and the release wait for the store.                *)
THEOREM SpecForgottenIsClosed == Spec => []ForgottenIsClosed
<1>1. ClosingInv => ForgottenIsClosed
  BY DEF ClosingInv
<1> QED BY <1>1, ClosingInit, ClosingNext, PTL DEF Spec

=============================================================================
