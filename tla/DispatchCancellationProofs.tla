---------------------- MODULE DispatchCancellationProofs ----------------------
(***************************************************************************)
(* The commands of DispatchCoordinator to its workers, for any number of   *)
(* jobs, dispatches, worker processes and any capacities: what the store   *)
(* and the coordinator agree on (ClosingInv) is extended to the mailboxes. *)
(***************************************************************************)
EXTENDS DispatchCoordinatorProofs

-----------------------------------------------------------------------------
(* A committed cancellation reaches the worker *)

(* An active request is held back or in the index, which forgets it only     *)
(* when the store has resolved it.                                           *)
RequestsIndexed ==
    /\ \A m \in mutations : m.at = "applied" => request[m.job] = "RESOLVED"
    /\ \A j \in Items : request[j] = "ACTIVE" => j \in DOMAIN held \cup index

(* The process that is up has the mailbox; nothing comes after its loss.     *)
MailboxLive ==
    /\ worker.up => lane.gen = worker.gen
    /\ \A i \in 1 .. Len(wire) : wire[i].type = "Unavailable" => i = Len(wire)

(* The process g is gone and the actor knows. *)
Dead(g) ==
    /\ g <= worker.gen /\ (g = worker.gen => ~worker.up)
    /\ \A e \in Range(wire) : e.type = "Unavailable" => e.gen # g

(* A dispatch that lost its process is the coordinator's for good, so that   *)
(* what is Closed is not released again.                                     *)
LostForGood(r) ==
    /\ r.own = "Closed" \/ r.kept => r.released
    /\ r.released => /\ r.own \in {"Coordinator", "Closed"} /\ r.life = "Faulted"
                     /\ r.effect.kind \notin {"Reconstruction", "Submission", "Residence"}
                     /\ Dead(r.gen)
    /\ r.own = "Worker" => r.life \in {"Active", "Draining", "Faulted"}

(* The jobs of a dispatch that is not released are its own; those of a       *)
(* released one come to no other dispatch before its completion.             *)
ReleaseApplied == [kind |-> "Release", at |-> "applied"]
Gone(r) == r.own = "Closed" \/ r.effect = ReleaseApplied
JobsBound(d, r) ==
    /\ ~Gone(r) => \A j \in r.items : job[j].dispatch = d
    /\ r.effect = ReleaseApplied => \A j \in r.items : job[j].dispatch \notin Registered \ {d}
BoundOK == \A d \in Registered : LostForGood(dispatches[d]) /\ JobsBound(d, dispatches[d])

(* What a claim returned is its attempt's, and was released before by those  *)
(* whose completion is still to come.                                        *)
ClaimBehind ==
    claim.at = "done" =>
        /\ \A i \in claim.items : \A j \in Items : job[j].dispatch = job[i].dispatch => j \in claim.items
        /\ \A d \in Registered :
               dispatches[d].effect = ReleaseApplied /\ dispatches[d].items \cap claim.items # {} =>
                   <<d, "Release">> \in claim.before

(* A cancellation of an unfinished job of the dispatch d and no other has    *)
(* been registered: it waits for the activation, or is queued to the worker. *)
Awaiting(d, j) ==
    /\ request[j] = "ACTIVE" /\ j \notin DOMAIN held
    /\ job[j].dispatch = d /\ ~Ended(j)
    /\ Containing(j) = {d} /\ j \in dispatches[d].items \ dispatches[d].suppressed
Told(d, j) ==
    LET r == dispatches[d] IN
    /\ r.own = "MayOwn" \/ r.effect.kind = "Submission" => j \in r.pending
    /\ r.own = "Worker" /\ r.life # "Faulted" /\ worker.dispatch = d /\ worker.items[j] = "waiting" =>
         Control("cancel", d, j) \in controls
ToldOK == \A d \in Registered : \A j \in Items : Awaiting(d, j) => Told(d, j)

CancelInv ==
    ClosingInv /\ RequestsIndexed /\ MailboxLive /\ BoundOK /\ ClaimBehind /\ ToldOK

(* What the worker executes is told, or an exception of the property.        *)
LEMMA ToldImplies == CancelInv => CancellationOnItsWay
<1> SUFFICES ASSUME CancelInv, NEW j \in Items, request[j] = "ACTIVE", worker.items[j] = "waiting",
                    j \notin DOMAIN held, dispatches[worker.dispatch].life # "Faulted",
                    Containing(j) = {worker.dispatch}
             PROVE  \/ Control("cancel", worker.dispatch, j) \in controls
                    \/ j \in dispatches[worker.dispatch].pending
  BY DEF CancellationOnItsWay
<1> DEFINE d == worker.dispatch
           r == dispatches[d]
<1>1. Executed(j)
  BY DEF Executed
<1>2. /\ d \in Registered /\ Given(r) /\ j \in r.items \ r.suppressed
      /\ job[j].dispatch = d /\ job[j].state \in {"CLAIMED", "RUNNING"}
  BY <1>1 DEF CancelInv, ClosingInv, CustodyInv, ExecutedKnown
<1>3. Awaiting(d, j)
  BY <1>2 DEF Awaiting, Ended
<1>4. Told(d, j)
  BY <1>2, <1>3 DEF CancelInv, ToldOK
<1> QED BY <1>2, <1>4 DEF Told, Given

-----------------------------------------------------------------------------
(* A change of a record that unbinds and untells nothing. *)
Mild(r, s) ==
    /\ s.items = r.items /\ s.suppressed = r.suppressed /\ s.gen = r.gen
    /\ r.pending \subseteq s.pending
    /\ s.own = r.own /\ s.released = r.released /\ (s.kept => r.kept \/ r.released)
    /\ \/ s.life \in {r.life, "Faulted"}
       \/ r.own = "Coordinator" /\ ~r.released
       \/ r.life = "Active" /\ s.life = "Draining"
    /\ \/ s.effect = r.effect
       \/ /\ r.effect # ReleaseApplied /\ s.effect # ReleaseApplied
          /\ s.effect.kind \in {"Reconstruction", "Submission", "Residence"} =>
               s.effect.kind = r.effect.kind

(* Mild changes add up. *)
LEMMA MildMild ==
    ASSUME NEW r, NEW s, NEW t, Mild(r, s), Mild(s, t)
    PROVE  Mild(r, t)
<1>1. /\ t.items = r.items /\ t.suppressed = r.suppressed /\ t.gen = r.gen
      /\ r.pending \subseteq t.pending
      /\ t.own = r.own /\ t.released = r.released /\ (t.kept => r.kept \/ r.released)
  BY DEF Mild
<1>2. \/ t.effect = r.effect
      \/ /\ r.effect # ReleaseApplied /\ t.effect # ReleaseApplied
         /\ t.effect.kind \in {"Reconstruction", "Submission", "Residence"} =>
              t.effect.kind = r.effect.kind
  BY DEF Mild
<1>3. \/ t.life \in {r.life, "Faulted"}
      \/ r.own = "Coordinator" /\ ~r.released
      \/ r.life = "Active" /\ t.life = "Draining"
  BY DEF Mild
<1> QED BY <1>1, <1>2, <1>3 DEF Mild

(* A change that keeps all fields is mild. *)
LEMMA KeptMild ==
    ASSUME NEW r, NEW s, Kept(r, s), s.own = r.own, s.life \in {r.life, "Faulted"},
           s.released = r.released, s.kept => r.kept \/ r.released,
           MayRelease(r, s) \/ (r.effect # ReleaseApplied /\ s.effect = NoEffect)
    PROVE  Mild(r, s)
BY DEF Kept, Mild, MayRelease, Waits, Begin, Retry, NoEffect, ReleaseApplied

(* ReleaseDispatch keeps what it is released with only for the lost,         *)
LEMMA ReleaseMild ==
    ASSUME NEW r \in DispatchRecord, NEW keep \in BOOLEAN
    PROVE  Mild(r, ReleaseDispatch(r, keep))
<1> DEFINE c == IF r.contain = "none" THEN [r EXCEPT !.contain = "release", !.keep = keep] ELSE r
           both == c.keep /\ r.released
           begun == Begin("Release")
           s == ReleaseDispatch(r, keep)
<1>0. [r EXCEPT !.contain = "release", !.keep = keep] \in DispatchRecord
  BY DEF DispatchRecord
<1>1. c \in DispatchRecord /\ c.released = r.released /\ c.kept = r.kept
  BY <1>0 DEF DispatchRecord
<1>2. both => r.released
  OBVIOUS
<1>3. s \in {r, c, [c EXCEPT !.contain = "await"], [c EXCEPT !.effect = begun, !.kept = both]}
  BY DEF ReleaseDispatch
<1> HIDE DEF c, both, begun
<1>4. s.released = r.released /\ (s.kept => r.kept \/ r.released)
  BY <1>1, <1>2, <1>3 DEF DispatchRecord
<1> QED BY <1>4, ReleaseKeeps, KeptMild

(* and so does a containment;                                                *)
LEMMA ContainmentMild ==
    ASSUME NEW r \in DispatchRecord
    PROVE  Mild(r, ContinueContainment(r))
<1> DEFINE a == [r EXCEPT !.contain = "await"]
           s == ContinueContainment(r)
<1>1. r.keep \in BOOLEAN
  BY DEF DispatchRecord
<1>2. a.released = r.released /\ a.kept = r.kept
  BY DEF DispatchRecord
<1>3. s = r \/ s = a \/ s = ReleaseDispatch(r, r.keep)
  BY DEF ContinueContainment
<1>4. CASE s \in {r, a}
  <2>1. s.released = r.released /\ s.kept = r.kept
    BY <1>2, <1>4
  <2> QED BY <2>1, ContainmentKeeps, KeptMild
<1>5. CASE s = ReleaseDispatch(r, r.keep)
  BY <1>1, <1>5, ReleaseMild
<1> QED BY <1>3, <1>4, <1>5

(* the draining mark begins for what a worker owns.                          *)
LEMMA DrainingMild ==
    ASSUME NEW r \in DispatchRecord
    PROVE  Mild(r, MarkDispatchDraining(r))
<1> DEFINE a == [r EXCEPT !.effect = Begin("MarkDraining")]
           s == MarkDispatchDraining(r)
<1>1. a.released = r.released /\ a.kept = r.kept
  BY DEF DispatchRecord
<1>2. s = r \/ s = a
  BY DEF MarkDispatchDraining
<1>3. s.released = r.released /\ (s.kept => r.kept)
  BY <1>1, <1>2
<1>4. /\ Kept(r, s) /\ s.own = r.own /\ s.life = r.life
      /\ \/ s.effect = r.effect
         \/ Waits(r.effect, "MarkDraining") /\ s.effect = Begin("MarkDraining")
  BY DrainingKeeps
<1> HIDE DEF s
<1>5. s.effect = r.effect => Mild(r, s)
  BY <1>3, <1>4 DEF Kept, Mild
<1>6. ASSUME Waits(r.effect, "MarkDraining"), s.effect = Begin("MarkDraining")
      PROVE  Mild(r, s)
  <2>1. r.effect # ReleaseApplied /\ s.effect # ReleaseApplied /\ s.effect.kind = "MarkDraining"
    BY <1>6 DEF Waits, Begin, Retry, NoEffect, ReleaseApplied
  <2> QED BY <1>3, <1>4, <2>1 DEF Kept, Mild
<1> QED BY <1>4, <1>5, <1>6 DEF s

-----------------------------------------------------------------------------
(* What a step leaves of the invariant *)

JobsStay ==
    \A j \in Items :
        /\ Ended(j) => Ended(j)'
        /\ \/ job'[j].dispatch = job[j].dispatch
           \/ /\ job'[j].dispatch = 0 /\ job[j].dispatch \in Registered
              /\ job[j].dispatch \in Registered' => Gone(dispatches'[job[j].dispatch])
RequestsStay ==
    \A j \in Items :
        request'[j] = "ACTIVE" /\ j \notin DOMAIN held' => request[j] = "ACTIVE" /\ j \notin DOMAIN held
DeadStays == \A g \in {0} \cup Generations : Dead(g) => Dead(g)'
TasksStay ==
    \A j \in Items : worker'.items[j] = "waiting" =>
        \/ /\ worker.items[j] = "waiting" /\ worker'.dispatch = worker.dispatch
           /\ Control("cancel", worker.dispatch, j) \in controls =>
                Control("cancel", worker.dispatch, j) \in controls'
        \/ \A d \in Registered' : worker'.dispatch = d => dispatches'[d].own # "Worker"

(* A record that changes otherwise than mildly keeps what is said of it. *)
Placed(d) ==
    /\ dispatches'[d].items = dispatches[d].items
    /\ LostForGood(dispatches[d])' /\ JobsBound(d, dispatches[d])'
    /\ \A j \in Items : Awaiting(d, j)' => Told(d, j)'
    /\ claim.at = "done" /\ dispatches'[d].effect = ReleaseApplied =>
         dispatches[d].effect = ReleaseApplied \/ dispatches[d].items \cap claim.items = {}
(* A dispatch that is forgotten has no job that is in another one. *)
Forgettable(d) == \A j \in dispatches[d].items : Ended(j) \/ job[j].dispatch \notin Registered \ {d}
RecordsStay ==
    /\ \A d \in Registered' : d \in Registered /\ (Mild(dispatches[d], dispatches'[d]) \/ Placed(d))
    /\ \A d \in Registered : d \notin Registered' => Forgettable(d)

CancelStill == BoundOK /\ ClaimBehind /\ ToldOK

(* What the invariant says of one record. *)
LEMMA RecordKnown ==
    ASSUME CancelInv, NEW d \in Registered
    PROVE  /\ dispatches[d] \in DispatchRecord /\ EffectOwned(dispatches[d]) /\ d \in Ids
           /\ RecordMarked(d, dispatches[d]) /\ Durable(d, dispatches[d])
           /\ LostForGood(dispatches[d]) /\ JobsBound(d, dispatches[d])
           /\ dispatches[d].gen \in {0} \cup Generations
           /\ dispatches[d].items \subseteq Items
BY RecordIs DEF CancelInv, BoundOK, DispatchRecord

(* Who waits for an answer has waited for it before the step. *)
LEMMA AwaitedBefore ==
    ASSUME CancelInv, JobsStay, RequestsStay, RecordsStay, NEW d \in Registered', NEW j \in Items,
           Awaiting(d, j)', j \notin dispatches[d].suppressed
    PROVE  Awaiting(d, j)
<1>1. /\ request[j] = "ACTIVE" /\ j \notin DOMAIN held /\ ~Ended(j)
      /\ Containing(j)' = {d} /\ job'[j].dispatch = d /\ j \in dispatches'[d].items
  BY DEF Awaiting, RequestsStay, JobsStay
<1>2. \A e \in Registered' : e \in Registered /\ dispatches'[e].items = dispatches[e].items
  BY DEF RecordsStay, Mild, Placed
<1>3. job[j].dispatch = d
  <2>1. d # 0
    BY <1>2, RecordKnown DEF Ids
  <2> QED BY <1>1, <2>1 DEF JobsStay
<1>4. ASSUME NEW e \in Containing(j)
      PROVE  e = d
  <2>1. e \in Registered /\ j \in dispatches[e].items
    BY DEF Containing
  <2>2. CASE e \in Registered'
    BY <1>1, <1>2, <2>1, <2>2 DEF Containing
  <2>3. CASE e \notin Registered'
    BY <1>1, <1>2, <1>3, <2>1, <2>3 DEF RecordsStay, Forgettable
  <2> QED BY <2>2, <2>3
<1>5. d \in Containing(j)
  BY <1>1, <1>2 DEF Containing
<1> QED BY <1>1, <1>2, <1>3, <1>4, <1>5 DEF Awaiting

(* A mild change keeps what is said of the loss of the process,              *)
LEMMA MildLost ==
    ASSUME CancelInv, DeadStays, NEW d \in Registered, d \in Registered',
           Mild(dispatches[d], dispatches'[d])
    PROVE  LostForGood(dispatches[d])'
<1> DEFINE r == dispatches[d]
<1>0. PICK s : s = dispatches'[d]
  OBVIOUS
<1>1. LostForGood(r) /\ r.gen \in {0} \cup Generations
  BY RecordKnown
<1>2. s.own = "Closed" \/ s.kept => s.released
  BY <1>0, <1>1 DEF Mild, LostForGood
<1>3. s.released => s.own \in {"Coordinator", "Closed"} /\ s.life = "Faulted"
  BY <1>0, <1>1 DEF Mild, LostForGood
<1>4. s.released => s.effect.kind \notin {"Reconstruction", "Submission", "Residence"}
  BY <1>0, <1>1 DEF Mild, LostForGood
<1>5. s.released => Dead(s.gen)'
  <2>1. s.released => Dead(r.gen) /\ s.gen = r.gen
    BY <1>0, <1>1 DEF Mild, LostForGood
  <2> QED BY <1>1, <2>1 DEF DeadStays
<1>6. s.own = "Worker" => s.life \in {"Active", "Draining", "Faulted"}
  BY <1>0, <1>1 DEF Mild, LostForGood
<1>7. (Dead(s.gen))' => Dead(dispatches[d].gen)'
  BY <1>0 DEF Dead
<1> QED BY <1>0, <1>2, <1>3, <1>4, <1>5, <1>6, <1>7 DEF LostForGood

(* of the jobs,                                                              *)
LEMMA MildBound ==
    ASSUME CancelInv, JobsStay, NEW d \in Registered, d \in Registered', Registered' \subseteq Registered,
           Mild(dispatches[d], dispatches'[d])
    PROVE  JobsBound(d, dispatches[d])'
<1> DEFINE r == dispatches[d]
<1>0. PICK s : s = dispatches'[d]
  OBVIOUS
<1>1. JobsBound(d, r) /\ r.items \subseteq Items /\ s.items = r.items
  BY <1>0, RecordKnown DEF Mild
<1>2. (Gone(r) => Gone(s)) /\ (s.effect = ReleaseApplied => r.effect = ReleaseApplied)
  BY <1>0 DEF Mild, Gone
<1>3. ASSUME ~Gone(s), NEW j \in s.items
      PROVE  job'[j].dispatch = d
  BY <1>0, <1>1, <1>2, <1>3 DEF JobsStay, JobsBound
<1>4. ASSUME s.effect = ReleaseApplied, NEW j \in s.items
      PROVE  job'[j].dispatch \notin Registered' \ {d}
  <2>1. 0 \notin Registered
    BY RecordKnown DEF Ids
  <2> QED BY <1>1, <1>2, <1>4, <2>1 DEF JobsStay, JobsBound
<1> QED BY <1>0, <1>3, <1>4 DEF JobsBound, Gone, ReleaseApplied

(* and of the cancellations.                                                 *)
LEMMA MildTold ==
    ASSUME CancelInv, TasksStay, NEW d \in Registered, d \in Registered', NEW j \in Items,
           Mild(dispatches[d], dispatches'[d]), Told(d, j)
    PROVE  Told(d, j)'
<1> DEFINE r == dispatches[d]
<1>0. PICK s : s = dispatches'[d]
  OBVIOUS
<1>1. s.own = "MayOwn" \/ s.effect.kind = "Submission" => j \in s.pending
  BY <1>0 DEF Mild, Told
<1>2. s.own = "Worker" /\ s.life # "Faulted" => r.own = "Worker" /\ r.life # "Faulted"
  BY <1>0 DEF Mild
<1>3. s.own = "Worker" /\ s.life # "Faulted" /\ worker'.dispatch = d /\ worker'.items[j] = "waiting" =>
         Control("cancel", d, j) \in controls'
  BY <1>0, <1>2 DEF TasksStay, Told
<1> QED BY <1>0, <1>1, <1>3 DEF Told, Control

(* A step that changes the records mildly keeps the invariant. *)
LEMMA StepStays ==
    ASSUME CancelInv, JobsStay, RequestsStay, DeadStays, TasksStay, RecordsStay, ClaimStays
    PROVE  CancelStill'
<1>1. Registered' \subseteq Registered
  BY DEF RecordsStay
<1>2. BoundOK'
  <2> SUFFICES ASSUME NEW d \in Registered'
               PROVE  LostForGood(dispatches[d])' /\ JobsBound(d, dispatches[d])'
    BY DEF BoundOK
  <2> QED BY <1>1, MildLost, MildBound DEF RecordsStay, Placed
<1>3. ToldOK'
  <2> SUFFICES ASSUME NEW d \in Registered', NEW j \in Items, Awaiting(d, j)'
               PROVE  Told(d, j)'
    BY DEF ToldOK
  <2>1. CASE Mild(dispatches[d], dispatches'[d])
    <3>1. j \notin dispatches[d].suppressed
      BY <2>1 DEF Mild, Awaiting
    <3>2. Told(d, j)
      BY <1>1, <3>1, AwaitedBefore DEF CancelInv, ToldOK
    <3> QED BY <1>1, <2>1, <3>2, MildTold
  <2>2. CASE Placed(d)
    BY <2>2 DEF Placed
  <2> QED BY <2>1, <2>2 DEF RecordsStay
<1>4. ClaimBehind'
  <2> SUFFICES ASSUME claim'.at = "done", claim' = claim
               PROVE  /\ \A i \in claim.items : \A j \in Items :
                             job'[j].dispatch = job'[i].dispatch => j \in claim.items
                      /\ \A d \in Registered' :
                             dispatches'[d].effect = ReleaseApplied /\ dispatches'[d].items \cap claim.items # {} =>
                               <<d, "Release">> \in claim.before
    BY DEF ClaimBehind, ClaimStays
  <2>1. PICK c \in Ids : c \notin Registered /\ \A i \in claim.items : job[i].dispatch = c
    <3>1. ClaimOK
      BY DEF CancelInv, ClosingInv, CustodyInv
    <3>2. PICK c \in Ids : c \notin Registered /\ \A i \in claim.items : Taken(i, c)
      BY <3>1 DEF ClaimOK
    <3> QED BY <3>2 DEF Taken
  <2>2. claim.items \subseteq Items /\ c # 0
    BY DEF CancelInv, ClosingInv, CustodyInv, CoordinatorTypeOK, ActorTypeOK, Ids
  <2>3. \A i \in claim.items : job'[i].dispatch = c
    BY <2>1, <2>2 DEF JobsStay
  <2>4. ASSUME NEW i \in claim.items, NEW j \in Items, job'[j].dispatch = job'[i].dispatch
        PROVE  j \in claim.items
    <3>1. job[j].dispatch = job[i].dispatch
      BY <2>1, <2>2, <2>3, <2>4 DEF JobsStay
    <3> QED BY <2>4, <3>1 DEF CancelInv, ClaimBehind
  <2>5. ASSUME NEW d \in Registered', dispatches'[d].effect = ReleaseApplied,
               dispatches'[d].items \cap claim.items # {}
        PROVE  <<d, "Release">> \in claim.before
    <3>1. dispatches'[d].items = dispatches[d].items /\ d \in Registered
      BY DEF RecordsStay, Mild, Placed
    <3>2. dispatches[d].effect = ReleaseApplied
      BY <2>5, <3>1 DEF RecordsStay, Mild, Placed
    <3> QED BY <2>5, <3>1, <3>2 DEF CancelInv, ClaimBehind
  <2> QED BY <2>4, <2>5
<1> QED BY <1>2, <1>3, <1>4 DEF CancelStill

-----------------------------------------------------------------------------
(* The mailbox *)

StillTold == CancelStill /\ MailboxLive

(* What arrives leaves the mailbox and the dead as they are,                 *)
LEMMA MailSame ==
    ASSUME CancelInv, worker.up => lane'.gen = lane.gen,
           worker'.gen = worker.gen, worker'.up = worker.up, WireKeeps
    PROVE  MailboxLive' /\ DeadStays
<1>1. wire \in Seq(EventRecord) /\ Range(wire)' \subseteq Range(wire)
  BY WireLeft DEF CancelInv, ClosingInv, CustodyInv, CoordinatorTypeOK, WorkerTypeOK
<1>2. DeadStays
  BY <1>1 DEF DeadStays, Dead
<1>3. \A i \in 1 .. Len(wire') : wire'[i].type = "Unavailable" => i = Len(wire')
  <2>1. CASE wire' = wire
    BY <2>1 DEF CancelInv, MailboxLive
  <2>2. CASE wire # <<>> /\ wire' = Tail(wire)
    <3>1. Len(wire') = Len(wire) - 1 /\ Len(wire) \in Nat
          /\ \A i \in 1 .. Len(wire') : wire'[i] = wire[i + 1] /\ i + 1 \in 1 .. Len(wire)
      BY <1>1, <2>2
    <3>2. \A i \in 1 .. Len(wire') : wire'[i].type = "Unavailable" => i + 1 = Len(wire)
      BY <3>1 DEF CancelInv, MailboxLive
    <3> QED BY <3>1, <3>2
  <2> QED BY <2>1, <2>2 DEF WireKeeps
<1>4. worker'.up => lane'.gen = worker'.gen
  BY DEF CancelInv, MailboxLive
<1> QED BY <1>2, <1>3, <1>4 DEF MailboxLive

(* and so does what a live process sends.                                    *)
LEMMA MailSent ==
    ASSUME CancelInv, lane' = lane, worker.up, worker'.gen = worker.gen,
           NEW e \in EventRecord, wire' = Append(wire, e), e.type = "Unavailable" => e.gen = worker.gen
    PROVE  MailboxLive' /\ DeadStays
<1>1. /\ wire \in Seq(EventRecord) /\ worker.gen \in Generations
      /\ \A x \in Range(wire) : x.type # "Unavailable"
  BY DEF CancelInv, ClosingInv, CustodyInv, CoordinatorTypeOK, WorkerTypeOK, WorkerOK
<1>2. Len(wire') = Len(wire) + 1 /\ Len(wire) \in Nat
      /\ \A i \in 1 .. Len(wire) : wire'[i] = wire[i] /\ wire[i] \in Range(wire)
      /\ wire'[Len(wire) + 1] = e
  BY <1>1 DEF Range
<1>3. \A i \in 1 .. Len(wire') : wire'[i].type = "Unavailable" => i = Len(wire')
  BY <1>1, <1>2
<1>4. \A x \in Range(wire)' : x \in Range(wire) \/ x = e
  <2> SUFFICES ASSUME NEW i \in 1 .. Len(wire') PROVE wire'[i] \in Range(wire) \/ wire'[i] = e
    BY <1>1, <1>2 DEF Range
  <2> QED BY <1>2
<1>5. DeadStays
  BY <1>1, <1>4 DEF DeadStays, Dead
<1> QED BY <1>3, <1>5 DEF MailboxLive, CancelInv

-----------------------------------------------------------------------------
(* The handlers of the actor *)

(* No cancellation is taken from the mailbox. *)
ControlsStay ==
    \A d, j : Control("cancel", d, j) \in controls => Control("cancel", d, j) \in controls'
Handles ==
    /\ UNCHANGED <<job, request, held>> /\ ClaimStays
    /\ lane'.gen = lane.gen /\ ControlsStay /\ WireKeeps
    /\ \E g : worker' \in {worker, Retire(worker, g)}

(* A handler keeps the invariant when its records do,                        *)
LEMMA HandlerStays ==
    ASSUME CancelInv, Handles, RecordsStay
    PROVE  StillTold'
<1>1. PICK g : worker' \in {worker, Retire(worker, g)}
  BY DEF Handles
<1>2. /\ worker'.gen = worker.gen /\ worker'.up = worker.up /\ worker'.dispatch = worker.dispatch
      /\ worker'.items = worker.items
  BY <1>1 DEF Retire, CancelInv, ClosingInv, CustodyInv, CoordinatorTypeOK, WorkerTypeOK
<1>3. MailboxLive' /\ DeadStays
  BY <1>2, MailSame DEF Handles
<1>4. JobsStay /\ RequestsStay /\ TasksStay
  BY <1>2 DEF Handles, JobsStay, RequestsStay, TasksStay, Ended, ControlsStay
<1> QED BY <1>3, <1>4, StepStays DEF Handles, StillTold

(* when it changes one of them,                                              *)
LEMMA UpdateStays ==
    ASSUME CancelInv, Handles, NEW d \in Registered, NEW s, Update(d, s), Mild(dispatches[d], s) \/ Placed(d)
    PROVE  StillTold'
<1>1. /\ Registered' = Registered /\ dispatches'[d] = s
      /\ \A e \in Registered : e # d => dispatches'[e] = dispatches[e]
  BY UpdateGives
<1>2. \A e \in Registered : e # d => Mild(dispatches[e], dispatches'[e])
  BY <1>1 DEF Mild
<1>3. RecordsStay
  BY <1>1, <1>2 DEF RecordsStay
<1> QED BY <1>3, HandlerStays

(* none of them,                                                             *)
LEMMA SameStays ==
    ASSUME CancelInv, Handles, dispatches' = dispatches
    PROVE  StillTold'
<1>1. Registered' = Registered /\ \A d \in Registered : Mild(dispatches[d], dispatches'[d])
  BY DEF Mild, Registered
<1> QED BY <1>1, HandlerStays DEF RecordsStay

(* or forgets one                                                            *)
LEMMA RemoveStays ==
    ASSUME CancelInv, Handles, NEW d \in Registered, RemoveDispatch(d), Forgettable(d)
    PROVE  StillTold'
<1>1. /\ Registered' = Registered \ {d}
      /\ \A e \in Registered : e # d => dispatches'[e] = dispatches[e]
  BY RemoveGives
<1>2. \A e \in Registered' : Mild(dispatches[e], dispatches'[e])
  BY <1>1 DEF Mild
<1> QED BY <1>1, <1>2, HandlerStays DEF RecordsStay

(* because MaybeRetire found that its jobs have ended.                       *)
LEMMA RetireStays ==
    ASSUME CancelInv, UNCHANGED <<job, request, held, worker>>, ClaimStays, ControlsStay,
           WireKeeps, NEW d \in Registered, NEW s, MaybeRetire(d, s), Mild(dispatches[d], s),
           \A j \in s.acked \cup s.persisted : Ended(j)
    PROVE  StillTold'
<1>1. lane'.gen = lane.gen
  BY DEF MaybeRetire, ClearWorkerIdentity, CancelInv, ClosingInv, CustodyInv, CoordinatorTypeOK, ActorTypeOK
<1>2. Handles
  BY <1>1 DEF Handles
<1>3. CASE ReadyToRetire(s)
  <2>1. \A j \in dispatches[d].items : Ended(j)
    BY <1>3 DEF ReadyToRetire, Mild
  <2> QED BY <1>2, <1>3, <2>1, RemoveStays DEF MaybeRetire, Forgettable
<1>4. CASE ~ReadyToRetire(s)
  BY <1>2, <1>4, UpdateStays DEF MaybeRetire
<1> QED BY <1>3, <1>4

(* A change of the effect other than by a release that was applied is mild.  *)
LEMMA EffectMild ==
    ASSUME NEW r \in DispatchRecord, NEW e \in Effect, r.effect # ReleaseApplied, e # ReleaseApplied,
           e.kind \in {"Reconstruction", "Submission", "Residence"} => e.kind = r.effect.kind
    PROVE  Mild(r, [r EXCEPT !.effect = e])
<1> DEFINE s == [r EXCEPT !.effect = e]
<1>1. s.released = r.released /\ s.kept = r.kept
  BY DEF DispatchRecord
<1>2. Kept(r, s) /\ s.own = r.own /\ s.life = r.life /\ s.effect = e
  BY EffectSet
<1> HIDE DEF s
<1>3. Mild(r, s)
  BY <1>1, <1>2 DEF Mild, Kept
<1> QED BY <1>3 DEF s

(* So is the answer to a command.                                            *)
LEMMA AnswerMild ==
    ASSUME NEW r \in DispatchRecord, r.effect # NoEffect, r.effect # ReleaseApplied,
           NEW at \in {"queued", "retry", "written", "unwritten", "unknown"} \cup Outcomes,
           r.effect.kind = "Release" => at # "applied"
    PROVE  Mild(r, [r EXCEPT !.effect.at = at])
<1> DEFINE e == [kind |-> r.effect.kind, at |-> at]
<1>1. r.effect.kind \in Kinds
  BY DEF DispatchRecord, Effect
<1>2. e \in Effect /\ e # ReleaseApplied /\ e.kind = r.effect.kind
  BY <1>1 DEF Effect, ReleaseApplied
<1>3. [r EXCEPT !.effect.at = at] = [r EXCEPT !.effect = e]
  BY <1>1 DEF DispatchRecord, Effect, NoEffect
<1> HIDE DEF e
<1> QED BY <1>2, <1>3, EffectMild

(* The reconstruction's end,                                                 *)
LEMMA ReconstructTells ==
    ASSUME CancelInv, NEW d \in Registered, Reconstruct(d) \/ ReconstructionFails(d)
    PROVE  StillTold'
<1> DEFINE r == dispatches[d]
           s == [r EXCEPT !.effect = NoEffect, !.life = "Prepared"]
           t == [r EXCEPT !.effect = NoEffect]
<1>1. r \in DispatchRecord /\ EffectOwned(r) /\ LostForGood(r) /\ r.effect = Begin("Reconstruction")
  BY RecordKnown DEF Reconstruct, ReconstructionFails
<1>2. Handles /\ (Update(d, s) \/ Update(d, t))
  BY DEF Reconstruct, ReconstructionFails, Handles, ControlsStay, ClaimStays, WireKeeps
<1>3. r.own = "Coordinator" /\ ~r.released /\ r.effect # ReleaseApplied
  BY <1>1 DEF EffectOwned, LostForGood, Begin, ReleaseApplied
<1>4. /\ s.items = r.items /\ s.suppressed = r.suppressed /\ s.gen = r.gen /\ s.pending = r.pending
      /\ s.own = r.own /\ s.released = r.released /\ s.kept = r.kept /\ s.effect = NoEffect
  BY <1>1 DEF DispatchRecord
<1>5. /\ t.items = r.items /\ t.suppressed = r.suppressed /\ t.gen = r.gen /\ t.pending = r.pending
      /\ t.own = r.own /\ t.released = r.released /\ t.kept = r.kept /\ t.effect = NoEffect
  BY <1>1 DEF DispatchRecord
<1> HIDE DEF s, t
<1>6. Mild(r, s) /\ Mild(r, t)
  BY <1>3, <1>4, <1>5 DEF Mild, NoEffect, ReleaseApplied
<1> QED BY <1>2, <1>6, UpdateStays

(* the confirmation of residence,                                            *)
LEMMA ConfirmTells ==
    ASSUME CancelInv, NEW d \in Registered, ConfirmResidence(d)
    PROVE  StillTold'
<1> DEFINE r == dispatches[d]
<1>1. r \in DispatchRecord
  BY RecordKnown
<1>2. PICK at \in {"applied", "rejected"} : Update(d, [r EXCEPT !.effect.at = at])
  BY DEF ConfirmResidence
<1>3. Handles /\ r.effect = Begin("Residence")
  BY DEF ConfirmResidence, Handles, ControlsStay, ClaimStays, WireKeeps
<1>4. r.effect # NoEffect /\ r.effect # ReleaseApplied /\ r.effect.kind # "Release"
  BY <1>3 DEF Begin, NoEffect, ReleaseApplied
<1>5. Mild(r, [r EXCEPT !.effect.at = at])
  BY <1>1, <1>4, AnswerMild DEF Outcomes
<1> QED BY <1>2, <1>3, <1>5, UpdateStays

(* and its completion,                                                       *)
LEMMA ResidenceTells ==
    ASSUME CancelInv, NEW d \in Registered, HandleResidenceCompletion(d)
    PROVE  StillTold'
<1> DEFINE r == dispatches[d]
<1>1. PICK e \in {NoEffect, Begin("Activation")} : Update(d, [r EXCEPT !.effect = e])
  BY DEF HandleResidenceCompletion
<1>2. Handles /\ r.effect.kind = "Residence" /\ r \in DispatchRecord
  BY RecordKnown DEF HandleResidenceCompletion, Handles, ControlsStay, ClaimStays, WireKeeps
<1>3. e \in Effect /\ e # ReleaseApplied /\ e.kind \in {"none", "Activation"} /\ r.effect # ReleaseApplied
  BY <1>2 DEF Effect, Kinds, Begin, NoEffect, ReleaseApplied
<1>4. Mild(r, [r EXCEPT !.effect = e])
  BY <1>2, <1>3, EffectMild
<1> QED BY <1>1, <1>2, <1>4, UpdateStays

(* a store transition that fails,                                            *)
LEMMA IoFailsTells ==
    ASSUME CancelInv, NEW d \in Registered, CoordinationIoFails(d)
    PROVE  StillTold'
<1> DEFINE r == dispatches[d]
<1>1. /\ Handles /\ Update(d, [r EXCEPT !.effect.at = "failed"]) /\ r \in DispatchRecord
      /\ r.effect \in {Begin("Activation"), Begin("MarkDraining"), Begin("Release")}
  BY RecordKnown DEF CoordinationIoFails, Handles, ControlsStay, ClaimStays, WireKeeps
<1>2. r.effect # NoEffect /\ r.effect # ReleaseApplied
  BY <1>1 DEF Begin, NoEffect, ReleaseApplied
<1>3. Mild(r, [r EXCEPT !.effect.at = "failed"])
  BY <1>1, <1>2, AnswerMild DEF Outcomes
<1> QED BY <1>1, <1>3, UpdateStays

(* the retry of an activation,                                               *)
LEMMA RetryActivationTells ==
    ASSUME CancelInv, NEW d \in Registered, RetryActivation(d)
    PROVE  StillTold'
<1> DEFINE r == dispatches[d]
           e == Begin("Activation")
<1>1. /\ Handles /\ Update(d, [r EXCEPT !.effect = e]) /\ r \in DispatchRecord
      /\ r.effect = Retry("Activation")
  BY RecordKnown DEF RetryActivation, Handles, ControlsStay, ClaimStays, WireKeeps
<1>2. e \in Effect /\ e # ReleaseApplied /\ e.kind = "Activation" /\ r.effect # ReleaseApplied
  BY <1>1 DEF Effect, Kinds, Begin, Retry, ReleaseApplied
<1>3. Mild(r, [r EXCEPT !.effect = e])
  BY <1>1, <1>2, EffectMild
<1> QED BY <1>1, <1>3, UpdateStays

(* the start of the draining mark                                            *)
LEMMA PendingDrainingTells ==
    ASSUME CancelInv, NEW d \in Registered, ProcessPendingDrainingTransitions(d)
    PROVE  StillTold'
<1>1. Handles /\ Update(d, MarkDispatchDraining(dispatches[d]))
  BY DEF ProcessPendingDrainingTransitions, Handles, ControlsStay, ClaimStays, WireKeeps
<1> QED BY <1>1, RecordKnown, DrainingMild, UpdateStays

(* and of a containment.                                                     *)
LEMMA ContainmentTells ==
    ASSUME CancelInv, NEW d \in Registered, ProcessContainment(d)
    PROVE  StillTold'
<1>1. Handles /\ Update(d, ContinueContainment(dispatches[d]))
  BY DEF ProcessContainment, Handles, ControlsStay, ClaimStays, WireKeeps
<1> QED BY <1>1, RecordKnown, ContainmentMild, UpdateStays

(* A fault that the actor applies,                                           *)
LEMMA FaultTells ==
    ASSUME CancelInv, NEW d \in Ids, ApplyFaultDispatch(d)
    PROVE  StillTold'
<1>1. Handles
  BY DEF ApplyFaultDispatch, Handles, ControlsStay, ClaimStays, WireKeeps
<1>2. CASE d \notin Registered
  BY <1>1, <1>2, SameStays DEF ApplyFaultDispatch
<1>3. CASE d \in Registered
  <2> DEFINE r == dispatches[d]
             retire == r.own \in {"MayOwn", "Worker"}
             c == IF retire THEN "retire" ELSE "release"
             f == [r EXCEPT !.life = "Faulted", !.keep = retire, !.contain = c]
  <2>1. r \in DispatchRecord
    BY <1>3, RecordKnown
  <2>2. Update(d, ContinueContainment(f))
    BY <1>3 DEF ApplyFaultDispatch
  <2>3. retire \in BOOLEAN /\ c \in {"retire", "release"}
    OBVIOUS
  <2> HIDE DEF retire, c
  <2>4. /\ f \in DispatchRecord /\ Kept(r, f) /\ f.own = r.own /\ f.effect = r.effect
        /\ f.life = "Faulted" /\ f.released = r.released /\ f.kept = r.kept
    BY <2>1, <2>3 DEF DispatchRecord, Kept
  <2> HIDE DEF f
  <2>5. Mild(r, f)
    BY <2>4 DEF Mild, Kept
  <2>6. Mild(r, ContinueContainment(f))
    BY <2>4, <2>5, ContainmentMild, MildMild
  <2> QED BY <1>1, <1>3, <2>2, <2>6, UpdateStays
<1> QED BY <1>2, <1>3

(* evidence beyond the limit,                                                *)
LEMMA RouteTells ==
    ASSUME CancelInv, RoutePersistenceEvent
    PROVE  StillTold'
<1>1. Handles
  BY DEF RoutePersistenceEvent, Handles, ControlsStay, ClaimStays, WireKeeps, Arrives
<1>2. \/ dispatches' = dispatches
      \/ \E d \in Registered : Update(d, ReleaseDispatch(dispatches[d], FALSE))
  BY DEF RoutePersistenceEvent
<1> QED BY <1>1, <1>2, SameStays, RecordKnown, ReleaseMild, UpdateStays

(* the report of a completed workset,                                        *)
LEMMA WorksetStateTells ==
    ASSUME CancelInv, HandleWorksetState
    PROVE  StillTold'
<1> DEFINE d == Head(wire).dispatch
           r == dispatches[d]
           x == IF r.own = "Worker" /\ r.life = "Active" THEN "Draining" ELSE r.life
           s == [r EXCEPT !.observed = TRUE, !.life = x]
<1>1. lane'.gen = lane.gen
  BY DEF HandleWorksetState, CancelInv, ClosingInv, CustodyInv, CoordinatorTypeOK, ActorTypeOK
<1>2. Handles
  BY <1>1 DEF HandleWorksetState, Handles, ControlsStay, ClaimStays, WireKeeps, Arrives
<1>3. dispatches' = dispatches \/ (d \in Registered /\ Update(d, s))
  BY DEF HandleWorksetState
<1>4. CASE d \in Registered /\ Update(d, s)
  <2>1. r \in DispatchRecord
    BY <1>4, RecordKnown
  <2>2. Update(d, s)
    BY <1>4
  <2>3. x = r.life \/ (r.life = "Active" /\ x = "Draining")
    OBVIOUS
  <2> HIDE DEF x
  <2>4. /\ Kept(r, s) /\ s.own = r.own /\ s.effect = r.effect /\ s.life = x
        /\ s.released = r.released /\ s.kept = r.kept
    BY <2>1 DEF DispatchRecord, Kept
  <2> HIDE DEF s
  <2>5. Mild(r, s)
    BY <2>3, <2>4 DEF Mild, Kept
  <2> QED BY <1>2, <1>4, <2>2, <2>5, UpdateStays
<1> QED BY <1>2, <1>3, <1>4, SameStays

(* and the start of a shutdown.                                              *)
LEMMA BeginShutdownTells ==
    ASSUME CancelInv, BeginShutdown
    PROVE  StillTold'
<1>1. Handles
  BY DEF BeginShutdown, Handles, ControlsStay, ClaimStays, WireKeeps
<1>2. dispatches' = [d \in Registered |->
                        IF dispatches[d].effect = Begin("Reconstruction")
                        THEN [dispatches[d] EXCEPT !.effect = NoEffect, !.life = "Faulted"]
                        ELSE dispatches[d]]
  BY DEF BeginShutdown
<1>3. Registered' = Registered
  BY <1>2 DEF Registered
<1>4. ASSUME NEW d \in Registered
      PROVE  Mild(dispatches[d], dispatches'[d])
  <2> DEFINE r == dispatches[d]
             s == [r EXCEPT !.effect = NoEffect, !.life = "Faulted"]
  <2>1. r \in DispatchRecord
    BY RecordKnown
  <2>2. Kept(r, s) /\ s.own = r.own /\ s.effect = NoEffect /\ s.life = "Faulted"
        /\ s.released = r.released /\ s.kept = r.kept
    BY <2>1 DEF DispatchRecord, Kept
  <2>3. dispatches'[d] = r \/ (r.effect = Begin("Reconstruction") /\ dispatches'[d] = s)
    BY <1>2
  <2> HIDE DEF s
  <2>4. r.effect = Begin("Reconstruction") => Mild(r, s)
    BY <2>2 DEF Mild, Kept, Begin, NoEffect, ReleaseApplied
  <2> QED BY <2>3, <2>4 DEF Mild
<1> QED BY <1>1, <1>3, <1>4, HandlerStays DEF RecordsStay

-----------------------------------------------------------------------------
(* The handlers that may retire the dispatch *)

(* What a record counts as acknowledged or persisted has ended.              *)
LEMMA CountedEnded ==
    ASSUME NEW d, NEW r, RecordMarked(d, r), Durable(d, r)
    PROVE  \A j \in r.acked \cup r.persisted : Ended(j)
BY DEF RecordMarked, Durable, FinishedBy, Ended

(* The completion of the draining mark,                                      *)
LEMMA DrainingTells ==
    ASSUME CancelInv, NEW d \in Registered, HandleDrainingIoCompletion(d)
    PROVE  StillTold'
<1> DEFINE r == dispatches[d]
           idle == [r EXCEPT !.effect = NoEffect]
           again == Retry("MarkDraining")
           b == r.drained \/ (r.own = "Worker" /\ r.life = "Draining")
           marked == [idle EXCEPT !.drained = b]
<1>1. r \in DispatchRecord /\ RecordMarked(d, r) /\ Durable(d, r)
  BY RecordKnown
<1>2. /\ r.effect.kind = "MarkDraining"
      /\ UNCHANGED <<job, request, held, worker, claim, controls, wire>>
      /\ r.effect.at # "applied" => lane' = lane
  BY DEF HandleDrainingIoCompletion
<1>3. /\ NoEffect \in Effect /\ again \in Effect
      /\ again.kind = "MarkDraining" /\ NoEffect.kind = "none"
  BY DEF Effect, Kinds, Retry, NoEffect
<1>4. \/ r.effect.at # "applied" /\ Update(d, [r EXCEPT !.effect = again])
      \/ r.effect.at = "applied" /\ MaybeRetire(d, marked)
      \/ r.effect.at # "applied" /\ Update(d, idle)
  <2>1. idle.drained = r.drained
    BY <1>1 DEF DispatchRecord
  <2>2. [idle EXCEPT !.drained = @ \/ (r.own = "Worker" /\ r.life = "Draining")] = marked
    BY <1>1, <2>1 DEF DispatchRecord
  <2> QED BY <2>2 DEF HandleDrainingIoCompletion
<1>5. r.effect # ReleaseApplied /\ again # ReleaseApplied /\ NoEffect # ReleaseApplied
  BY <1>2, <1>3 DEF ReleaseApplied
<1>6. Mild(r, idle) /\ Mild(r, [r EXCEPT !.effect = again])
  BY <1>1, <1>2, <1>3, <1>5, EffectMild
<1>7. CASE r.effect.at = "applied" /\ MaybeRetire(d, marked)
  <2>1. idle \in DispatchRecord /\ Kept(r, idle)
    BY <1>1, <1>3, EffectSet
  <2>2. MaybeRetire(d, marked)
    BY <1>7
  <2> HIDE DEF idle, b
  <2>3. /\ marked.items = idle.items /\ marked.suppressed = idle.suppressed /\ marked.gen = idle.gen
        /\ marked.pending = idle.pending /\ marked.own = idle.own /\ marked.released = idle.released
        /\ marked.kept = idle.kept /\ marked.life = idle.life /\ marked.effect = idle.effect
        /\ marked.acked = idle.acked /\ marked.persisted = idle.persisted
    BY <2>1 DEF DispatchRecord
  <2> HIDE DEF marked
  <2>4. Mild(r, marked)
    BY <1>6, <2>3 DEF Mild
  <2>5. \A j \in marked.acked \cup marked.persisted : Ended(j)
    BY <1>1, <2>1, <2>3, CountedEnded DEF Kept
  <2>6. ClaimStays /\ ControlsStay /\ WireKeeps
    BY <1>2 DEF ClaimStays, ControlsStay, WireKeeps
  <2> QED BY <1>2, <2>2, <2>4, <2>5, <2>6, RetireStays
<1>8. CASE r.effect.at # "applied" /\ (Update(d, idle) \/ Update(d, [r EXCEPT !.effect = again]))
  <2>1. Handles
    BY <1>2, <1>8 DEF Handles, ControlsStay, ClaimStays, WireKeeps
  <2> HIDE DEF idle
  <2> QED BY <1>6, <1>8, <2>1, UpdateStays
<1> QED BY <1>4, <1>7, <1>8

(* a stored terminal,                                                        *)
LEMMA PersistedTells ==
    ASSUME CancelInv, NEW d \in Ids, HandlePersisted(d)
    PROVE  StillTold'
<1> DEFINE e == EvidenceOf(d)
           r == dispatches[d]
           x == r.staged \cup {e.job}
           s == [r EXCEPT !.staged = x]
<1>1. /\ d \in Registered /\ UNCHANGED <<job, request, held, worker, claim, wire>>
      /\ controls \subseteq controls'
  BY DEF HandlePersisted, RoutedToOwner, Acknowledge, EnqueueControls
<1>2. ClaimStays /\ WireKeeps /\ ControlsStay
  BY <1>1 DEF ClaimStays, WireKeeps, ControlsStay
<1>3. r \in DispatchRecord /\ RecordMarked(d, r) /\ Durable(d, r)
  BY <1>1, RecordKnown
<1>4. \/ dispatches' = dispatches /\ lane' = lane
      \/ MaybeRetire(d, s)
  BY DEF HandlePersisted
<1>5. CASE dispatches' = dispatches /\ lane' = lane
  <2>1. Handles
    BY <1>1, <1>2, <1>5 DEF Handles
  <2> QED BY <1>5, <2>1, SameStays
<1>6. CASE MaybeRetire(d, s)
  <2> HIDE DEF x
  <2>1. /\ s.items = r.items /\ s.suppressed = r.suppressed /\ s.gen = r.gen
        /\ s.pending = r.pending /\ s.own = r.own /\ s.released = r.released
        /\ s.kept = r.kept /\ s.life = r.life /\ s.effect = r.effect
        /\ s.acked = r.acked /\ s.persisted = r.persisted
    BY <1>3 DEF DispatchRecord
  <2> HIDE DEF s
  <2>2. Mild(r, s) /\ \A j \in s.acked \cup s.persisted : Ended(j)
    BY <1>3, <2>1, CountedEnded DEF Mild
  <2> QED BY <1>1, <1>2, <1>6, <2>2, RetireStays
<1> QED BY <1>4, <1>5, <1>6

(* a summary,                                                                *)
LEMMA SummaryTells ==
    ASSUME CancelInv, NEW d \in Ids, HandleWorksetSummary(d)
    PROVE  StillTold'
<1> DEFINE r == dispatches[d]
           s == [r EXCEPT !.summary = TRUE]
<1>1. UNCHANGED <<job, request, held, worker, claim, controls, wire>>
  BY DEF HandleWorksetSummary
<1>2. ClaimStays /\ WireKeeps /\ ControlsStay
  BY <1>1 DEF ClaimStays, WireKeeps, ControlsStay
<1>3. (dispatches' = dispatches /\ lane' = lane) \/ (d \in Registered /\ MaybeRetire(d, s))
  BY DEF HandleWorksetSummary
<1>4. CASE dispatches' = dispatches /\ lane' = lane
  <2>1. Handles
    BY <1>1, <1>2, <1>4 DEF Handles
  <2> QED BY <1>4, <2>1, SameStays
<1>5. CASE d \in Registered /\ MaybeRetire(d, s)
  <2>1. r \in DispatchRecord /\ RecordMarked(d, r) /\ Durable(d, r)
    BY <1>5, RecordKnown
  <2>2. /\ s.items = r.items /\ s.suppressed = r.suppressed /\ s.gen = r.gen
        /\ s.pending = r.pending /\ s.own = r.own /\ s.released = r.released
        /\ s.kept = r.kept /\ s.life = r.life /\ s.effect = r.effect
        /\ s.acked = r.acked /\ s.persisted = r.persisted
    BY <2>1 DEF DispatchRecord
  <2>3. MaybeRetire(d, s)
    BY <1>5
  <2> HIDE DEF s
  <2>4. Mild(r, s) /\ \A j \in s.acked \cup s.persisted : Ended(j)
    BY <2>1, <2>2, CountedEnded DEF Mild
  <2> QED BY <1>1, <1>2, <1>5, <2>3, <2>4, RetireStays
<1> QED BY <1>3, <1>4, <1>5

(* the completion of an acknowledgement,                                     *)
LEMMA ControlTells ==
    ASSUME CancelInv, NEW c \in controls, HandleWorkerControlCompletion(c)
    PROVE  StillTold'
<1> DEFINE d == c.dispatch
           r == dispatches[d]
           x == r.acked \cup {c.job}
           s == [r EXCEPT !.acked = x]
<1>1. UNCHANGED <<job, request, held, worker, claim, wire>> /\ c.at = "done" /\ controls' = controls \ {c}
  BY DEF HandleWorkerControlCompletion
<1>2. ClaimStays /\ WireKeeps /\ ControlsStay
  BY <1>1 DEF ClaimStays, WireKeeps, ControlsStay, Control
<1>3. (dispatches' = dispatches /\ lane' = lane) \/ (d \in Registered /\ MaybeRetire(d, s))
  BY DEF HandleWorkerControlCompletion
<1>4. CASE dispatches' = dispatches /\ lane' = lane
  <2>1. Handles
    BY <1>1, <1>2, <1>4 DEF Handles
  <2> QED BY <1>4, <2>1, SameStays
<1>5. CASE d \in Registered /\ MaybeRetire(d, s)
  <2>1. r \in DispatchRecord /\ RecordMarked(d, r) /\ Durable(d, r)
    BY <1>5, RecordKnown
  <2>2. c.kind = "ack"
    BY <1>1 DEF CancelInv, ClosingInv, CustodyInv, CoordinatorTypeOK, QueuesTypeOK
  <2>3. \A j \in x \cup r.persisted : Ended(j)
    <3>1. FinishedBy(c.job, d)
      BY <2>2, OldControls DEF CancelInv, ClosingInv
    <3>2. \A j \in r.acked \cup r.persisted : Ended(j)
      BY <2>1, CountedEnded
    <3> QED BY <3>1, <3>2 DEF FinishedBy, Ended
  <2>4. MaybeRetire(d, s)
    BY <1>5
  <2> HIDE DEF x
  <2>5. /\ s.items = r.items /\ s.suppressed = r.suppressed /\ s.gen = r.gen
        /\ s.pending = r.pending /\ s.own = r.own /\ s.released = r.released
        /\ s.kept = r.kept /\ s.life = r.life /\ s.effect = r.effect
        /\ s.acked = x /\ s.persisted = r.persisted
    BY <2>1 DEF DispatchRecord
  <2> HIDE DEF s
  <2>6. Mild(r, s)
    BY <2>5 DEF Mild
  <2> QED BY <1>1, <1>2, <1>5, <2>3, <2>4, <2>5, <2>6, RetireStays
<1> QED BY <1>3, <1>4, <1>5

(* and the receipt of a cancellation's mutation.                             *)
LEMMA ReceiptTells ==
    ASSUME CancelInv, NEW m \in mutations, ApplyCancellationMutationReceipts(m)
    PROVE  StillTold'
<1> DEFINE d == m.dispatch
           r == dispatches[d]
           x == r.persisted \cup {m.job}
           s == [r EXCEPT !.persisted = x]
<1>1. UNCHANGED <<job, request, held, worker, claim, controls, wire>>
  BY DEF ApplyCancellationMutationReceipts
<1>2. ClaimStays /\ WireKeeps /\ ControlsStay
  BY <1>1 DEF ClaimStays, WireKeeps, ControlsStay
<1>3. \/ dispatches' = dispatches /\ lane' = lane
      \/ /\ d \in Registered /\ m.at = "applied" /\ m.kind = "sidecar"
         /\ \/ /\ s.suppressed = s.items /\ s.persisted = s.suppressed /\ RemoveDispatch(d)
               /\ lane' = ClearWorkerIdentity(s, d)
            \/ MaybeRetire(d, s)
  BY DEF ApplyCancellationMutationReceipts
<1>4. CASE dispatches' = dispatches /\ lane' = lane
  <2>1. Handles
    BY <1>1, <1>2, <1>4 DEF Handles
  <2> QED BY <1>4, <2>1, SameStays
<1>5. CASE /\ d \in Registered /\ m.at = "applied" /\ m.kind = "sidecar"
           /\ \/ /\ s.suppressed = s.items /\ s.persisted = s.suppressed /\ RemoveDispatch(d)
                 /\ lane' = ClearWorkerIdentity(s, d)
              \/ MaybeRetire(d, s)
  <2>1. r \in DispatchRecord /\ RecordMarked(d, r) /\ Durable(d, r)
    BY <1>5, RecordKnown
  <2>2. Ended(m.job)
    BY <1>5 DEF CancelInv, ClosingInv, RequestsOK, CustodyInv, CoordinatorTypeOK, QueuesTypeOK
  <2>3. \A j \in r.acked \cup x : Ended(j)
    BY <2>1, <2>2, CountedEnded
  <2> HIDE DEF x
  <2>4. /\ s.items = r.items /\ s.suppressed = r.suppressed /\ s.gen = r.gen
        /\ s.pending = r.pending /\ s.own = r.own /\ s.released = r.released
        /\ s.kept = r.kept /\ s.life = r.life /\ s.effect = r.effect
        /\ s.acked = r.acked /\ s.persisted = x
    BY <2>1 DEF DispatchRecord
  <2>5. \/ /\ s.suppressed = s.items /\ s.persisted = s.suppressed /\ RemoveDispatch(d)
           /\ lane' = ClearWorkerIdentity(s, d)
        \/ MaybeRetire(d, s)
    BY <1>5
  <2> HIDE DEF s
  <2>6. Mild(r, s)
    BY <2>4 DEF Mild
  <2>7. CASE MaybeRetire(d, s)
    BY <1>1, <1>2, <1>5, <2>3, <2>4, <2>6, <2>7, RetireStays
  <2>8. CASE /\ s.suppressed = s.items /\ s.persisted = s.suppressed /\ RemoveDispatch(d)
             /\ lane' = ClearWorkerIdentity(s, d)
    <3>1. lane'.gen = lane.gen
      BY <2>8 DEF ClearWorkerIdentity, CancelInv, ClosingInv, CustodyInv, CoordinatorTypeOK, ActorTypeOK
    <3>2. Handles
      BY <1>1, <1>2, <3>1 DEF Handles
    <3>3. Forgettable(d)
      BY <2>3, <2>4, <2>8 DEF Forgettable
    <3> QED BY <1>5, <2>8, <3>2, <3>3, RemoveStays
  <2> QED BY <2>5, <2>7, <2>8
<1> QED BY <1>3, <1>4, <1>5

-----------------------------------------------------------------------------
(* Submission, activation and release *)

(* Who waits for an answer after a handler has waited for it before, unless  *)
(* the item was suppressed.                                                  *)
LEMMA AwaitedSame ==
    ASSUME Handles, NEW d \in Registered, NEW s, Update(d, s), s.items = dispatches[d].items,
           NEW j \in Items, Awaiting(d, j)'
    PROVE  /\ request[j] = "ACTIVE" /\ j \notin DOMAIN held
           /\ j \in dispatches[d].items \ s.suppressed
           /\ j \notin dispatches[d].suppressed => Awaiting(d, j)
<1>1. /\ Registered' = Registered /\ dispatches'[d] = s
      /\ \A e \in Registered : e # d => dispatches'[e] = dispatches[e]
  BY UpdateGives
<1>2. /\ request[j] = "ACTIVE" /\ j \notin DOMAIN held /\ job[j].dispatch = d /\ ~Ended(j)
      /\ Containing(j)' = {d} /\ j \in s.items \ s.suppressed
  BY <1>1 DEF Awaiting, Handles, Ended
<1>3. Containing(j)' = Containing(j)
  BY <1>1 DEF Containing
<1> QED BY <1>2, <1>3 DEF Awaiting

(* A record that is not released may take another owner.                     *)
LEMMA PlaceStays ==
    ASSUME CancelInv, Handles, NEW d \in Registered, NEW s, Update(d, s),
           s.items = dispatches[d].items, ~Gone(dispatches[d]),
           s.own # "Closed", ~s.released, ~s.kept, s.effect # ReleaseApplied,
           s.own = "Worker" => s.life \in {"Active", "Draining", "Faulted"},
           \A j \in Items : Awaiting(d, j)' => Told(d, j)'
    PROVE  StillTold'
<1>1. Registered' = Registered /\ dispatches'[d] = s
  BY UpdateGives
<1>2. LostForGood(dispatches[d])'
  BY <1>1 DEF LostForGood
<1>3. \A j \in s.items : job[j].dispatch = d
  BY RecordKnown DEF JobsBound
<1>4. JobsBound(d, dispatches[d])'
  BY <1>1, <1>3 DEF JobsBound, Handles, ReleaseApplied
<1>5. Placed(d)
  BY <1>1, <1>2, <1>4 DEF Placed
<1> QED BY <1>5, UpdateStays

(* The sidecar frozen at the admission suppresses what waits for an answer;  *)
LEMMA AdmitTells ==
    ASSUME CancelInv, NEW d \in Registered, AdmitPreparedDispatch(d)
    PROVE  StillTold'
<1> DEFINE r == dispatches[d]
           frozen == r.items \cap index
           g == lane.gen
           bound == [r EXCEPT !.gen = g, !.suppressed = frozen]
           begun == Begin("Submission")
           s == [bound EXCEPT !.effect = begun]
<1>1. r \in DispatchRecord /\ LostForGood(r)
  BY RecordKnown
<1>2. /\ r.own = "Coordinator" /\ r.effect = NoEffect /\ r.life = "Prepared"
      /\ UNCHANGED <<job, request, held, worker, claim, controls, wire>>
      /\ Update(d, bound) \/ Update(d, s)
  BY DEF AdmitPreparedDispatch
<1>3. lane'.gen = lane.gen
  BY DEF AdmitPreparedDispatch, CancelInv, ClosingInv, CustodyInv, CoordinatorTypeOK, ActorTypeOK
<1>4. Handles
  BY <1>2, <1>3 DEF Handles, ControlsStay, ClaimStays, WireKeeps
<1>5. ~Gone(r) /\ ~r.released /\ ~r.kept
  BY <1>1, <1>2 DEF Gone, LostForGood, NoEffect, ReleaseApplied
<1> HIDE DEF g, begun
<1>6. /\ bound.items = r.items /\ bound.suppressed = frozen /\ bound.own = "Coordinator"
      /\ bound.released = r.released /\ bound.kept = r.kept /\ bound.effect = NoEffect
  BY <1>1, <1>2 DEF DispatchRecord
<1>7. /\ s.items = r.items /\ s.suppressed = frozen /\ s.own = "Coordinator"
      /\ s.released = r.released /\ s.kept = r.kept /\ s.effect = begun
  BY <1>1, <1>2 DEF DispatchRecord
<1>8. NoEffect # ReleaseApplied /\ begun # ReleaseApplied
  BY DEF begun, Begin, NoEffect, ReleaseApplied
<1> HIDE DEF bound, s
<1>9. ASSUME NEW t, t \in {bound, s}, Update(d, t), NEW j \in Items, Awaiting(d, j)'
      PROVE  FALSE
  <2>1. t.items = r.items /\ t.suppressed = frozen
    BY <1>6, <1>7, <1>9
  <2>2. request[j] = "ACTIVE" /\ j \notin DOMAIN held /\ j \in r.items \ frozen
    BY <1>4, <1>9, <2>1, AwaitedSame
  <2> QED BY <2>2 DEF CancelInv, RequestsIndexed
<1>10. CASE Update(d, bound)
  <2>1. \A j \in Items : Awaiting(d, j)' => Told(d, j)'
    BY <1>9, <1>10
  <2> QED BY <1>4, <1>5, <1>6, <1>8, <1>10, <2>1, PlaceStays
<1>11. CASE Update(d, s)
  <2>1. \A j \in Items : Awaiting(d, j)' => Told(d, j)'
    BY <1>9, <1>11
  <2> QED BY <1>4, <1>5, <1>7, <1>8, <1>11, <2>1, PlaceStays
<1> QED BY <1>2, <1>10, <1>11

(* the process that takes the workset does not own it yet;                   *)
LEMMA SubmitTells ==
    ASSUME CancelInv, NEW d \in Registered, SubmitWorksetToWorker(d)
    PROVE  StillTold'
<1> DEFINE r == dispatches[d]
<1>1. r \in DispatchRecord /\ EffectOwned(r) /\ d \in Ids
  BY RecordKnown
<1>2. PICK at \in {"written", "unwritten", "unknown"} : Update(d, [r EXCEPT !.effect.at = at])
  BY DEF SubmitWorksetToWorker
<1>3. /\ r.effect = Begin("Submission") /\ UNCHANGED <<job, request, held, lane, claim, controls, wire>>
      /\ worker' \in {worker, AcceptWorkset(d)}
  BY DEF SubmitWorksetToWorker
<1>4. /\ r.effect # NoEffect /\ r.effect # ReleaseApplied /\ r.effect.kind # "Release"
      /\ r.own = "Coordinator"
  BY <1>1, <1>3 DEF Begin, NoEffect, ReleaseApplied, EffectOwned
<1>5. Mild(r, [r EXCEPT !.effect.at = at])
  BY <1>1, <1>4, AnswerMild
<1>6. /\ Registered' = Registered /\ Mild(r, dispatches'[d])
      /\ \A e \in Registered : e # d => dispatches'[e] = dispatches[e]
  BY <1>2, <1>5, UpdateGives
<1>7. RecordsStay
  BY <1>6 DEF RecordsStay, Mild
<1>8. /\ worker'.gen = worker.gen /\ worker'.up = worker.up
      /\ worker' = worker \/ worker'.dispatch = d
  BY <1>1, <1>3, AcceptedTyped DEF CancelInv, ClosingInv, CustodyInv
<1>9. TasksStay
  BY <1>3, <1>4, <1>6, <1>8 DEF TasksStay, Mild
<1>10. MailboxLive' /\ DeadStays
  BY <1>3, <1>8, MailSame DEF WireKeeps
<1>11. JobsStay /\ RequestsStay /\ ClaimStays
  BY <1>3 DEF JobsStay, RequestsStay, ClaimStays, Ended
<1> QED BY <1>7, <1>9, <1>10, <1>11, StepStays DEF StillTold

(* when the answer comes, what waits is kept for the activation,             *)
LEMMA SubmissionTells ==
    ASSUME CancelInv, NEW d \in Registered, HandleSubmissionCompletion(d)
    PROVE  StillTold'
<1> DEFINE r == dispatches[d]
           e == Begin(IF r.effect.at = "written" THEN "Activation" ELSE "Residence")
           s == [r EXCEPT !.own = "MayOwn", !.life = "Prepared", !.effect = e]
           t == [r EXCEPT !.life = "Prepared", !.effect = NoEffect, !.gen = 0, !.suppressed = {}]
<1>1. r \in DispatchRecord /\ LostForGood(r) /\ EffectOwned(r)
  BY RecordKnown
<1>2. /\ r.effect.kind = "Submission"
      /\ UNCHANGED <<job, request, held, worker, claim, controls, wire>>
      /\ Update(d, s) \/ Update(d, t)
  BY DEF HandleSubmissionCompletion
<1>3. lane'.gen = lane.gen
  BY DEF HandleSubmissionCompletion, CancelInv, ClosingInv, CustodyInv, CoordinatorTypeOK, ActorTypeOK
<1>4. Handles
  BY <1>2, <1>3 DEF Handles, ControlsStay, ClaimStays, WireKeeps
<1>5. ~Gone(r) /\ ~r.released /\ ~r.kept /\ r.own = "Coordinator"
  BY <1>1, <1>2 DEF Gone, LostForGood, EffectOwned, ReleaseApplied
<1>6. e.kind \in {"Activation", "Residence"}
  BY DEF Begin
<1> HIDE DEF e
<1>7. /\ s.items = r.items /\ s.suppressed = r.suppressed /\ s.own = "MayOwn"
      /\ s.released = r.released /\ s.kept = r.kept /\ s.effect = e /\ s.pending = r.pending
  BY <1>1 DEF DispatchRecord
<1>8. /\ t.items = r.items /\ t.own = "Coordinator" /\ t.effect = NoEffect
      /\ t.released = r.released /\ t.kept = r.kept
  BY <1>1, <1>5 DEF DispatchRecord
<1>9. e # ReleaseApplied /\ NoEffect # ReleaseApplied
  BY <1>6 DEF NoEffect, ReleaseApplied
<1> HIDE DEF s, t
<1>10. CASE Update(d, s)
  <2>1. dispatches'[d] = s
    BY <1>10, UpdateGives
  <2>2. ASSUME NEW j \in Items, Awaiting(d, j)'
        PROVE  Told(d, j)'
    <3>1. Awaiting(d, j)
      BY <1>4, <1>7, <1>10, <2>2, AwaitedSame
    <3>2. j \in r.pending
      BY <1>2, <3>1 DEF CancelInv, ToldOK, Told
    <3> QED BY <1>7, <2>1, <3>2 DEF Told
  <2> QED BY <1>4, <1>5, <1>7, <1>9, <1>10, <2>2, PlaceStays
<1>11. CASE Update(d, t)
  <2>1. dispatches'[d] = t
    BY <1>11, UpdateGives
  <2>2. \A j \in Items : Told(d, j)'
    BY <1>8, <2>1 DEF Told, NoEffect
  <2> QED BY <1>4, <1>5, <1>8, <1>9, <1>11, <2>2, PlaceStays
<1> QED BY <1>2, <1>10, <1>11

(* and the activation queues it to the process that has the workset.         *)
LEMMA ActivatedTells ==
    ASSUME CancelInv, NEW d \in Registered, dispatches[d].effect.kind = "Activation",
           dispatches[d].life # "Faulted", Activated(d),
           UNCHANGED <<job, request, held, claim, wire>>
    PROVE  StillTold'
<1> DEFINE r == dispatches[d]
           life == IF r.observed THEN "Draining" ELSE "Active"
           active == [r EXCEPT !.own = "Worker", !.effect = NoEffect, !.pending = {}, !.life = life]
           flushed == IF Overflows(stream[d], stream[d].buffered) THEN ReleaseDispatch(active, FALSE)
                      ELSE active
           after == IF r.observed THEN MarkDispatchDraining(flushed) ELSE flushed
           s == ContinueContainment(after)
<1>1. r \in DispatchRecord /\ LostForGood(r) /\ EffectOwned(r)
  BY RecordKnown
<1>2. /\ Update(d, s) /\ UNCHANGED worker
      /\ EnqueueControls(r.gen, {Control("cancel", d, j) : j \in r.pending})
  BY DEF Activated
<1>3. lane'.gen = lane.gen
  BY DEF Activated, CancelInv, ClosingInv, CustodyInv, CoordinatorTypeOK, ActorTypeOK
<1>4. Handles
  BY <1>2, <1>3 DEF Handles, ControlsStay, ClaimStays, WireKeeps, EnqueueControls
<1>5. r.own = "MayOwn" /\ ~Gone(r) /\ ~r.released /\ ~r.kept
  BY <1>1 DEF Gone, LostForGood, EffectOwned, ReleaseApplied
<1>6. NoEffect \in Effect /\ life \in {"Draining", "Active"}
  BY DEF Effect
<1> HIDE DEF life
<1>7. /\ active \in DispatchRecord /\ active.items = r.items /\ active.suppressed = r.suppressed
      /\ active.own = "Worker" /\ active.life = life /\ active.effect = NoEffect
      /\ active.released = r.released /\ active.kept = r.kept
  BY <1>1, <1>6 DEF DispatchRecord
<1> HIDE DEF active
<1>8. flushed \in DispatchRecord /\ Mild(active, flushed)
  <2>1. Mild(active, active)
    BY DEF Mild
  <2> QED BY <1>7, <2>1, ReleaseTyped, ReleaseMild
<1> HIDE DEF flushed
<1>9. after \in DispatchRecord /\ Mild(active, after)
  BY <1>8, DrainingTyped, DrainingMild, MildMild
<1> HIDE DEF after
<1>10. Mild(active, s)
  BY <1>9, ContainmentMild, MildMild
<1> HIDE DEF s
<1>11. /\ s.items = r.items /\ s.suppressed = r.suppressed /\ s.own = "Worker"
       /\ ~s.released /\ ~s.kept
  BY <1>5, <1>7, <1>10 DEF Mild
<1>12. s.effect # ReleaseApplied /\ s.effect.kind \notin {"Reconstruction", "Submission", "Residence"}
  BY <1>7, <1>10 DEF Mild, NoEffect, ReleaseApplied
<1>13. s.life \in {"Active", "Draining", "Faulted"}
  BY <1>6, <1>7, <1>10 DEF Mild
<1>14. dispatches'[d] = s
  BY <1>2, UpdateGives
<1>15. ASSUME NEW j \in Items, Awaiting(d, j)'
       PROVE  Told(d, j)'
  <2>1. Awaiting(d, j)
    BY <1>2, <1>4, <1>11, <1>15, AwaitedSame
  <2>2. j \in r.pending
    BY <1>5, <2>1 DEF CancelInv, ToldOK, Told
  <2>3. ASSUME worker.dispatch = d, worker.items[j] = "waiting"
        PROVE  Control("cancel", d, j) \in controls'
    <3>1. Executed(j)
      BY <2>3 DEF Executed
    <3>2. r.gen = worker.gen /\ worker.up
      BY <2>3, <3>1, ExecutedIsUp DEF CancelInv, ClosingInv, CustodyInv, ExecutedKnown
    <3>3. lane.gen = r.gen
      BY <3>2 DEF CancelInv, MailboxLive
    <3> QED BY <1>2, <2>2, <3>3 DEF EnqueueControls
  <2>4. worker' = worker
    BY <1>2
  <2>5. worker'.dispatch = d /\ worker'.items[j] = "waiting" => Control("cancel", d, j) \in controls'
    BY <2>3, <2>4
  <2> QED BY <1>11, <1>12, <1>14, <2>5 DEF Told, Control
<1> QED BY <1>2, <1>4, <1>5, <1>11, <1>12, <1>13, <1>15, PlaceStays

(* So does every other completion of an activation                           *)
LEMMA ActivationTells ==
    ASSUME CancelInv, NEW d \in Registered, HandleActivationIoCompletion(d)
    PROVE  StillTold'
<1> DEFINE r == dispatches[d]
           idle == [r EXCEPT !.effect = NoEffect]
           again == Retry("Activation")
<1>1. r \in DispatchRecord
  BY RecordKnown
<1>2. r.effect.kind = "Activation" /\ UNCHANGED <<job, request, held, claim, wire>>
  BY DEF HandleActivationIoCompletion
<1>3. \/ /\ Update(d, ContinueContainment(idle))
         /\ worker' \in {worker, Retire(worker, r.gen)} /\ UNCHANGED <<lane, controls>>
      \/ Update(d, [r EXCEPT !.effect = again]) /\ UNCHANGED <<lane, controls, worker>>
      \/ r.life # "Faulted" /\ Activated(d)
  BY DEF HandleActivationIoCompletion
<1>4. /\ NoEffect \in Effect /\ again \in Effect
      /\ again.kind = "Activation" /\ NoEffect.kind = "none"
  BY DEF Effect, Kinds, Retry, NoEffect
<1>5. r.effect # ReleaseApplied /\ again # ReleaseApplied /\ NoEffect # ReleaseApplied
  BY <1>2, <1>4 DEF ReleaseApplied
<1>6. Mild(r, idle) /\ Mild(r, [r EXCEPT !.effect = again]) /\ idle \in DispatchRecord
  BY <1>1, <1>2, <1>4, <1>5, EffectMild, EffectSet
<1> HIDE DEF idle
<1>7. Mild(r, ContinueContainment(idle))
  BY <1>6, ContainmentMild, MildMild
<1>8. ~(r.life # "Faulted" /\ Activated(d)) => Handles
  BY <1>2, <1>3 DEF Handles, ControlsStay, ClaimStays, WireKeeps
<1> QED BY <1>2, <1>3, <1>6, <1>7, <1>8, ActivatedTells, UpdateStays

(* and of a release: what it keeps had lost its process before.              *)
LEMMA ReleaseTells ==
    ASSUME CancelInv, NEW d \in Registered, HandleReleaseIoCompletion(d)
    PROVE  StillTold'
<1> DEFINE r == dispatches[d]
           again == Retry("Release")
           closed == [r EXCEPT !.own = "Closed", !.effect = NoEffect, !.released = TRUE, !.contain = "none"]
<1>1. r \in DispatchRecord /\ LostForGood(r) /\ JobsBound(d, r) /\ r.gen \in {0} \cup Generations
  BY RecordKnown
<1>2. r.effect.kind = "Release" /\ UNCHANGED <<job, request, held, worker, claim, controls, wire>>
  BY DEF HandleReleaseIoCompletion
<1>3. lane'.gen = lane.gen
  BY DEF HandleReleaseIoCompletion, ClearWorkerIdentity, CancelInv, ClosingInv, CustodyInv,
     CoordinatorTypeOK, ActorTypeOK
<1>4. Handles
  BY <1>2, <1>3 DEF Handles, ControlsStay, ClaimStays, WireKeeps
<1>5. \/ r.effect.at # "applied" /\ Update(d, [r EXCEPT !.effect = again])
      \/ r.effect.at = "applied" /\ r.kept /\ Update(d, closed) 
      \/ r.effect.at = "applied" /\ RemoveDispatch(d)
  BY DEF HandleReleaseIoCompletion
<1>6. r.effect.at = "applied" => r.effect = ReleaseApplied
  BY <1>1, <1>2 DEF DispatchRecord, Effect, NoEffect, ReleaseApplied
<1>7. CASE r.effect.at # "applied" /\ Update(d, [r EXCEPT !.effect = again])
  <2>1. again \in Effect /\ again.kind = "Release" /\ again # ReleaseApplied /\ r.effect # ReleaseApplied
    BY <1>7 DEF Effect, Kinds, Retry, ReleaseApplied
  <2>2. Mild(r, [r EXCEPT !.effect = again])
    BY <1>1, <2>1, EffectMild
  <2> QED BY <1>4, <1>7, <2>2, UpdateStays
<1>8. CASE r.effect.at = "applied" /\ r.kept /\ Update(d, closed) 
  <2>1. /\ closed.items = r.items /\ closed.own = "Closed" /\ closed.effect = NoEffect
        /\ closed.released = TRUE /\ closed.gen = r.gen /\ closed.life = r.life
    BY <1>1 DEF DispatchRecord
  <2>2. Update(d, closed)
    BY <1>8
  <2> HIDE DEF closed
  <2>3. dispatches'[d] = closed /\ Registered' = Registered
    BY <2>2, UpdateGives
  <2>4. r.life = "Faulted" /\ Dead(r.gen)
    BY <1>1, <1>8 DEF LostForGood
  <2>5. Dead(r.gen) => Dead(dispatches[d].gen)'
    <3>1. DeadStays
      BY <1>2, <1>3, MailSame DEF WireKeeps
    <3>2. PICK g : g = r.gen
      OBVIOUS
    <3>3. Dead(g) => Dead(g)'
      BY <1>1, <3>1, <3>2 DEF DeadStays
    <3> QED BY <2>1, <2>3, <3>2, <3>3 DEF Dead
  <2>6. LostForGood(dispatches[d])'
    BY <2>1, <2>3, <2>4, <2>5 DEF LostForGood, NoEffect
  <2>7. JobsBound(d, dispatches[d])'
    BY <2>1, <2>3 DEF JobsBound, Gone, NoEffect, ReleaseApplied
  <2>8. \A j \in Items : Told(d, j)'
    BY <2>1, <2>3 DEF Told, NoEffect
  <2>9. Placed(d)
    BY <2>1, <2>3, <2>6, <2>7, <2>8 DEF Placed, NoEffect, ReleaseApplied
  <2> QED BY <1>4, <2>2, <2>9, UpdateStays
<1>9. CASE r.effect.at = "applied" /\ RemoveDispatch(d)
  <2>1. Forgettable(d)
    BY <1>1, <1>6, <1>9 DEF Forgettable, JobsBound
  <2> QED BY <1>4, <1>9, <2>1, RemoveStays
<1> QED BY <1>5, <1>7, <1>8, <1>9

-----------------------------------------------------------------------------
(* The loss of the worker and the store's transitions *)

(* What the loss makes of a record: it is the coordinator's, and released if *)
(* a worker may have had it.                                                 *)
LEMMA LostReleases ==
    ASSUME NEW r \in DispatchRecord
    PROVE  LET s == Lost(r) IN
           /\ s.released <=> r.released \/ r.own # "Coordinator"
           /\ s.kept => r.kept \/ s.released
<1> DEFINE owned == r.own # "Coordinator"
           e == IF r.effect.kind \in {"Submission", "Residence"} THEN NoEffect ELSE r.effect
           k == IF r.contain = "none" THEN owned ELSE r.keep
           left == r.released \/ owned
           lost == [r EXCEPT !.effect = e, !.released = left, !.own = "Coordinator",
                             !.life = "Faulted", !.keep = k, !.contain = "release"]
           s == Lost(r)
<1>1. owned \in BOOLEAN /\ left \in BOOLEAN
  OBVIOUS
<1>2. k \in BOOLEAN
  BY <1>1 DEF DispatchRecord
<1>3. e \in Effect
  BY DEF DispatchRecord, Effect
<1>4. s = IF Quiescing THEN lost ELSE ReleaseDispatch(lost, owned)
  BY DEF Lost
<1>5. left <=> r.released \/ r.own # "Coordinator"
  OBVIOUS
<1> HIDE DEF owned, e, k, left
<1>6. lost \in DispatchRecord /\ lost.released = left /\ lost.kept = r.kept
  BY <1>1, <1>2, <1>3 DEF DispatchRecord
<1> HIDE DEF lost
<1>7. Mild(lost, lost)
  BY DEF Mild
<1>8. Mild(lost, s)
  BY <1>1, <1>4, <1>6, <1>7, ReleaseMild
<1> HIDE DEF s
<1>9. (s.released <=> r.released \/ r.own # "Coordinator") /\ (s.kept => r.kept \/ s.released)
  BY <1>5, <1>6, <1>8 DEF Mild
<1> QED BY <1>9 DEF s

(* The loss of a process is the last that comes of it, and what it had is    *)
(* released for good;                                                        *)
LEMMA UnavailableTells ==
    ASSUME CancelInv, HandleWorkerUnavailable
    PROVE  StillTold'
<1>1. /\ wire # <<>> /\ Head(wire).type = "Unavailable" /\ wire' = Tail(wire)
      /\ UNCHANGED <<job, request, held, claim, worker>>
  BY DEF HandleWorkerUnavailable, Arrives
<1>2. PICK g : /\ g = Head(wire).gen
               /\ dispatches' = [d \in Registered |->
                     IF dispatches[d].gen = g THEN Lost(dispatches[d]) ELSE dispatches[d]]
  BY DEF HandleWorkerUnavailable
<1>3. /\ wire \in Seq(EventRecord) /\ Head(wire) \in Range(wire) /\ ReportOK(Head(wire))
      /\ Head(wire) \in EventRecord
  BY <1>1, ArrivalKnown DEF CancelInv, ClosingInv, CustodyInv, CoordinatorTypeOK, WorkerTypeOK
<1>4. ~worker.up /\ worker.items = NoItem
  BY <1>1, <1>3 DEF CancelInv, ClosingInv, CustodyInv, WorkerOK
<1>5. wire' = <<>>
  <2>1. Len(wire) = 1
    <3>1. 1 \in 1 .. Len(wire) /\ wire[1] = Head(wire)
      BY <1>1, <1>3
    <3> QED BY <1>1, <3>1 DEF CancelInv, MailboxLive
  <2> QED BY <1>1, <1>3, <2>1
<1>6. MailboxLive' /\ DeadStays
  BY <1>1, <1>4, MailSame DEF WireKeeps
<1>7. g <= worker.gen
  BY <1>2, <1>3 DEF ReportOK
<1>8. JobsStay /\ RequestsStay /\ ClaimStays
  BY <1>1 DEF JobsStay, RequestsStay, ClaimStays, Ended
<1>9. TasksStay
  BY <1>1, <1>4, NoItemTyped DEF TasksStay
<1>10. Registered' = Registered
  BY <1>2 DEF Registered
<1>11. ASSUME NEW d \in Registered
       PROVE  Mild(dispatches[d], dispatches'[d]) \/ Placed(d)
  <2> DEFINE r == dispatches[d]
             e == IF r.effect.kind \in {"Submission", "Residence"} THEN NoEffect ELSE r.effect
  <2>1. r \in DispatchRecord /\ LostForGood(r) /\ JobsBound(d, r) /\ EffectOwned(r)
    BY RecordKnown
  <2>2. CASE r.gen # g
    <3>1. dispatches'[d] = r
      BY <1>2, <2>2
    <3> QED BY <3>1 DEF Mild
  <2>3. CASE r.gen = g
    <3>1. PICK s : s = Lost(r) /\ dispatches'[d] = s
      BY <1>2, <2>3
    <3>2. ~r.released /\ ~r.kept /\ r.own # "Closed"
      BY <1>1, <1>2, <1>3, <2>1, <2>3 DEF LostForGood, Dead
    <3>3. (s.released <=> r.own # "Coordinator") /\ (s.kept => s.released)
      BY <2>1, <3>1, <3>2, LostReleases
    <3>4. /\ s.items = r.items /\ s.gen = g /\ s.own = "Coordinator" /\ s.life = "Faulted"
          /\ s.effect = e \/ s.effect = Begin("Release")
      BY <2>1, <2>3, <3>1, LostKeeps DEF Kept
    <3>5. /\ s.released => s.effect.kind \notin {"Reconstruction", "Submission", "Residence"}
          /\ s.effect.kind # "Submission"
          /\ s.effect = ReleaseApplied => r.effect = ReleaseApplied
          /\ r.effect = ReleaseApplied => s.effect = ReleaseApplied \/ s.effect = Begin("Release")
      BY <2>1, <3>3, <3>4 DEF EffectOwned, NoEffect, Begin, ReleaseApplied
    <3>6. Dead(dispatches[d].gen)'
      BY <1>1, <1>4, <1>5, <1>7, <3>1, <3>4 DEF Dead, Range
    <3>7. LostForGood(dispatches[d])'
      BY <3>1, <3>3, <3>4, <3>5, <3>6 DEF LostForGood
    <3>8. JobsBound(d, dispatches[d])'
      <4>1. Gone(r) => Gone(s)
        <5>1. Gone(r) => r.effect = ReleaseApplied
          BY <3>2 DEF Gone
        <5>2. r.effect = ReleaseApplied => s.effect = ReleaseApplied
          BY <2>1, <3>1, LostKeeps DEF Waits, Retry, NoEffect, ReleaseApplied
        <5> QED BY <5>1, <5>2 DEF Gone
      <4> QED BY <1>1, <1>10, <2>1, <3>1, <3>4, <3>5, <4>1 DEF JobsBound, Gone, ReleaseApplied
    <3>9. \A j \in Items : Told(d, j)'
      BY <3>1, <3>4, <3>5 DEF Told
    <3> QED BY <3>1, <3>4, <3>5, <3>7, <3>8, <3>9 DEF Placed, ReleaseApplied
  <2> QED BY <2>2, <2>3
<1>12. RecordsStay
  BY <1>10, <1>11 DEF RecordsStay
<1> QED BY <1>6, <1>8, <1>9, <1>12, StepStays DEF StillTold

(* and a release in the store gives the jobs back at once, or interrupts     *)
(* them.                                                                     *)
LEMMA IoTells ==
    ASSUME CancelInv, NEW d \in Registered, CoordinationIo(d)
    PROVE  StillTold'
<1> DEFINE r == dispatches[d]
           at == IF r.effect.kind = "MarkDraining" /\ attempt[d] = "CLAIMED" THEN "rejected" ELSE "applied"
           s == [r EXCEPT !.effect.at = at]
<1>1. r \in DispatchRecord /\ LostForGood(r) /\ JobsBound(d, r) /\ EffectOwned(r) /\ d \in Ids
      /\ r.gen \in {0} \cup Generations /\ r.items \subseteq Items
  BY RecordKnown
<1>2. /\ UNCHANGED <<request, held, worker, claim, lane, controls, wire>>
      /\ Update(d, s)
      /\ \/ r.effect.kind \in {"Activation", "MarkDraining"} /\ job' = job
         \/ r.effect = Begin("Release") /\ job' = ReturnJobs({d})
  BY DEF CoordinationIo, MarkWorksetActive, MarkWorksetDraining, ReleaseWorksetDispatch, Begin
<1>3. at \in Outcomes
  BY DEF Outcomes
<1>4. CASE r.effect.kind \in {"Activation", "MarkDraining"} /\ job' = job
  <2>1. Handles
    BY <1>2, <1>4 DEF Handles, ControlsStay, ClaimStays, WireKeeps
  <2>2. r.effect # NoEffect /\ r.effect # ReleaseApplied /\ r.effect.kind # "Release"
    BY <1>4 DEF NoEffect, ReleaseApplied
  <2> HIDE DEF at
  <2>3. Mild(r, s)
    BY <1>1, <1>3, <2>2, AnswerMild
  <2> QED BY <1>2, <2>1, <2>3, UpdateStays
<1>5. CASE r.effect = Begin("Release") /\ job' = ReturnJobs({d})
  <2>1. /\ r.effect.kind = "Release" /\ r.effect # NoEffect /\ r.own = "Coordinator" /\ ~Gone(r)
    BY <1>1, <1>5 DEF Begin, NoEffect, ReleaseApplied, Gone, EffectOwned
  <2>2. at = "applied"
    BY <2>1
  <2> HIDE DEF at
  <2>3. s.released = r.released /\ s.kept = r.kept
    BY <1>1 DEF DispatchRecord
  <2>4. /\ s.items = r.items /\ s.suppressed = r.suppressed /\ s.gen = r.gen
        /\ s.own = "Coordinator" /\ s.life = r.life /\ s.effect = ReleaseApplied
    <3>1. Kept(r, s) /\ s.own = r.own /\ s.life = r.life /\ s.effect = [kind |-> r.effect.kind, at |-> at]
      BY <1>1, <1>3, <2>1, EffectAtSet
    <3> QED BY <2>1, <2>2, <3>1 DEF Kept, ReleaseApplied
  <2>5. Update(d, s)
    BY <1>2
  <2> HIDE DEF s
  <2>6. /\ Registered' = Registered /\ dispatches'[d] = s
        /\ \A e \in Registered : e # d => dispatches'[e] = dispatches[e]
    BY <2>5, UpdateGives
  <2>7. \A j \in Items :
          \/ job'[j] = job[j]
          \/ /\ job[j].state \in {"CLAIMED", "RUNNING"} /\ job[j].dispatch = d
             /\ \/ job'[j] = [state |-> "QUEUED", dispatch |-> 0]
                \/ job'[j].state = "INTERRUPTED" /\ job'[j].dispatch = job[j].dispatch
    BY <1>1, <1>5, Returned DEF CancelInv, ClosingInv, CustodyInv, CoordinatorTypeOK
  <2>8. 0 \notin Registered
    BY DEF CancelInv, ClosingInv, CustodyInv, CoordinatorTypeOK, ActorTypeOK, Ids
  <2>9. JobsStay
    <3> SUFFICES ASSUME NEW j \in Items
                 PROVE  /\ Ended(j) => Ended(j)'
                        /\ \/ job'[j].dispatch = job[j].dispatch
                           \/ /\ job'[j].dispatch = 0 /\ job[j].dispatch \in Registered
                              /\ job[j].dispatch \in Registered' => Gone(dispatches'[job[j].dispatch])
      BY DEF JobsStay
    <3>1. Ended(j) => Ended(j)'
      BY <2>7 DEF Ended
    <3>2. Gone(dispatches'[d])
      BY <2>4, <2>6 DEF Gone
    <3> QED BY <2>7, <2>8, <3>1, <3>2
  <2>10. MailboxLive' /\ DeadStays
    BY <1>2, MailSame DEF WireKeeps
  <2>11. RequestsStay /\ TasksStay /\ ClaimStays
    BY <1>2 DEF RequestsStay, TasksStay, ClaimStays
  <2>12. LostForGood(dispatches[d])'
    <3>1. PICK g : g = r.gen
      OBVIOUS
    <3>2. Dead(g) => Dead(g)'
      BY <1>1, <2>10, <3>1 DEF DeadStays
    <3>3. Dead(r.gen) => Dead(dispatches[d].gen)'
      BY <2>4, <2>6, <3>1, <3>2 DEF Dead
    <3> QED BY <1>1, <2>1, <2>3, <2>4, <2>6, <3>3 DEF LostForGood, ReleaseApplied
  <2>13. \A j \in r.items : job[j].dispatch = d
    BY <1>1, <2>1 DEF JobsBound
  <2>14. JobsBound(d, dispatches[d])'
    <3>1. \A j \in r.items : job'[j].dispatch \in {d, 0}
      BY <1>1, <2>7, <2>13
    <3> QED BY <2>4, <2>6, <2>8, <3>1 DEF JobsBound, Gone, ReleaseApplied
  <2>15. \A j \in Items : Told(d, j)'
    BY <2>4, <2>6 DEF Told, ReleaseApplied
  <2>16. claim.at = "done" => r.items \cap claim.items = {}
    <3>1. ClaimOK
      BY DEF CancelInv, ClosingInv, CustodyInv
    <3>2. ASSUME claim.at = "done"
          PROVE  \A j \in claim.items : job[j].dispatch \notin Registered
      <4>1. PICK c \in Ids : c \notin Registered /\ \A j \in claim.items : Taken(j, c)
        BY <3>1, <3>2 DEF ClaimOK
      <4> QED BY <4>1 DEF Taken
    <3> QED BY <2>13, <3>2
  <2>17. Placed(d)
    BY <2>4, <2>6, <2>12, <2>14, <2>15, <2>16 DEF Placed
  <2>18. \A e \in Registered : e # d => Mild(dispatches[e], dispatches'[e])
    BY <2>6 DEF Mild
  <2>19. RecordsStay
    BY <2>6, <2>17, <2>18 DEF RecordsStay
  <2> QED BY <2>9, <2>10, <2>11, <2>19, StepStays DEF StillTold
<1> QED BY <1>2, <1>4, <1>5

-----------------------------------------------------------------------------
(* The claim *)

(* A claim takes queued jobs, of which no dispatch says anything,            *)
LEMMA ClaimIoTells ==
    ASSUME CancelInv, ClaimIo
    PROVE  StillTold'
<1> DEFINE n == NextId
<1>1. PICK S \in SUBSET {j \in Items : job[j].state = "QUEUED"} :
         /\ S # {}
         /\ claim' = [at |-> "done", items |-> S, before |-> Completed]
         /\ job' = [j \in Items |-> IF j \in S THEN [state |-> "CLAIMED", dispatch |-> NextId] ELSE job[j]]
  BY DEF ClaimIo
<1>2. UNCHANGED <<request, dispatches, lane, controls, held, worker, wire>> /\ claim.at = "queued"
  BY DEF ClaimIo
<1>3. n \in Ids /\ attempt[n] = "none"
  <2>1. ClaimOK
    BY DEF CancelInv, ClosingInv, CustodyInv
  <2>2. PICK d \in Ids : attempt[d] = "none"
    BY <1>2, <2>1 DEF ClaimOK
  <2> QED BY <2>2, NextIdIsNew
<1>4. JobsOK
  BY DEF CancelInv, ClosingInv, CustodyInv
<1>5. n \notin Registered /\ n # 0 /\ 0 \notin Registered /\ \A j \in Items : job[j].dispatch # n
  BY <1>3, <1>4, RecordKnown DEF JobsOK, Ids
<1>6. \A j \in S : j \in Items /\ job[j].dispatch = 0 /\ ~Ended(j)
  BY <1>4 DEF JobsOK, Ended
<1>7. /\ \A j \in S : job'[j].dispatch = n
      /\ \A j \in Items : j \notin S => job'[j] = job[j]
  BY <1>1, <1>6
<1> HIDE DEF n
<1>8. MailboxLive'
  BY <1>2, MailSame DEF WireKeeps
<1>9. Registered' = Registered
  BY <1>2 DEF Registered
<1>10. BoundOK'
  <2> SUFFICES ASSUME NEW d \in Registered
               PROVE  LostForGood(dispatches[d])' /\ JobsBound(d, dispatches[d])'
    BY <1>9 DEF BoundOK
  <2> DEFINE r == dispatches[d]
  <2>1. LostForGood(r) /\ JobsBound(d, r) /\ r.items \subseteq Items
    BY RecordKnown
  <2>2. LostForGood(r)'
    BY <1>2, <2>1 DEF LostForGood, Dead
  <2>3. ASSUME ~Gone(r), NEW j \in r.items
        PROVE  job'[j].dispatch = d
    BY <1>5, <1>6, <1>7, <2>1, <2>3 DEF JobsBound
  <2>4. ASSUME r.effect = ReleaseApplied, NEW j \in r.items
        PROVE  job'[j].dispatch \notin Registered \ {d}
    BY <1>5, <1>7, <2>1, <2>4 DEF JobsBound
  <2> QED BY <1>2, <1>9, <2>2, <2>3, <2>4 DEF JobsBound, Gone, ReleaseApplied
<1>11. ClaimBehind'
  <2>1. claim'.items = S /\ claim'.before = Completed
    BY <1>1
  <2>2. ASSUME NEW i \in S, NEW j \in Items, job'[j].dispatch = job'[i].dispatch
        PROVE  j \in S
    BY <1>5, <1>7, <2>2
  <2>3. ASSUME NEW d \in Registered, dispatches[d].effect = ReleaseApplied
        PROVE  <<d, "Release">> \in Completed
    BY <2>3 DEF Completed, ReleaseApplied, Kinds
  <2> QED BY <1>2, <1>9, <2>1, <2>2, <2>3 DEF ClaimBehind, ReleaseApplied
<1>12. ToldOK'
  <2> SUFFICES ASSUME NEW d \in Registered, NEW j \in Items, Awaiting(d, j)'
               PROVE  Told(d, j)'
    BY <1>9 DEF ToldOK
  <2>1. job'[j] = job[j]
    BY <1>5, <1>7 DEF Awaiting
  <2>2. Awaiting(d, j)
    BY <1>2, <1>9, <2>1 DEF Awaiting, Ended, Containing
  <2>3. Told(d, j)
    BY <2>2 DEF CancelInv, ToldOK
  <2> QED BY <1>2, <2>3 DEF Told, Control
<1> QED BY <1>8, <1>10, <1>11, <1>12 DEF StillTold, CancelStill

(* and is registered after the completions that were there before it.        *)
LEMMA ClaimCompletionTells ==
    ASSUME CancelInv, HandleClaimIoCompletion
    PROVE  StillTold'
<1> DEFINE d == job[CHOOSE j \in claim.items : TRUE].dispatch
           r == NewDispatch(claim.items)
           begun == Begin("Reconstruction")
           t == [r EXCEPT !.effect = begun]
           s == IF IsDispatchAdmissionPaused THEN ReleaseDispatch(r, FALSE) ELSE t
<1>1. /\ UNCHANGED <<job, request, held, lane, controls, worker, wire>> /\ claim.at = "done"
      /\ claim' = NoClaim /\ claim.before \cap Completed = {}
      /\ dispatches' = [e \in Registered \cup {d} |-> IF e # d THEN dispatches[e] ELSE s]
  BY DEF HandleClaimIoCompletion
<1>2. ClaimOK
  BY DEF CancelInv, ClosingInv, CustodyInv
<1>3. PICK c \in Ids : /\ c \notin Registered
                       /\ \A j \in claim.items : Taken(j, c)
  BY <1>1, <1>2 DEF ClaimOK
<1>4. claim.items # {} /\ claim.items \in SUBSET Items
  BY <1>1, <1>2 DEF ClaimOK, CancelInv, ClosingInv, CustodyInv, CoordinatorTypeOK, ActorTypeOK
<1>5. d = c /\ \A j \in claim.items : job[j].dispatch = c
  BY <1>3, <1>4 DEF Taken
<1> HIDE DEF d
<1>6. /\ r \in DispatchRecord /\ r.items = claim.items /\ ~r.released /\ ~r.kept
      /\ r.own = "Coordinator" /\ r.effect = NoEffect
  BY <1>4, NewDispatchTyped DEF NewDispatch
<1>7. begun \in Effect /\ begun.kind = "Reconstruction" /\ begun # ReleaseApplied
  BY DEF Begin, Effect, Kinds, ReleaseApplied
<1> HIDE DEF r, begun
<1>8. /\ s.items = claim.items /\ s.own = "Coordinator" /\ ~s.released /\ ~s.kept
      /\ s.effect # ReleaseApplied /\ s.effect.kind # "Submission"
  <2>1. CASE s = ReleaseDispatch(r, FALSE)
    <3>1. Mild(r, s)
      BY <1>6, <2>1, ReleaseMild
    <3> HIDE DEF s
    <3> QED BY <1>6, <3>1 DEF Mild, NoEffect, ReleaseApplied
  <2>2. CASE s = t
    <3>1. /\ t.items = r.items /\ t.own = r.own /\ t.released = r.released /\ t.kept = r.kept
          /\ t.effect = begun
      BY <1>6 DEF DispatchRecord
    <3> HIDE DEF s, t
    <3> QED BY <1>6, <1>7, <2>2, <3>1
  <2> QED BY <2>1, <2>2
<1> HIDE DEF s
<1>9. /\ Registered' = Registered \cup {c} /\ dispatches'[c] = s
      /\ \A e \in Registered : dispatches'[e] = dispatches[e]
  BY <1>1, <1>3, <1>5 DEF Registered
<1>10. MailboxLive'
  BY <1>1, MailSame DEF WireKeeps
<1>11. ClaimBehind'
  BY <1>1 DEF ClaimBehind, NoClaim
<1>12. ASSUME NEW e \in Registered
       PROVE  LostForGood(dispatches[e])' /\ JobsBound(e, dispatches[e])'
  <2> DEFINE q == dispatches[e]
  <2>1. LostForGood(q) /\ JobsBound(e, q) /\ q.items \subseteq Items
    BY RecordKnown
  <2>2. LostForGood(dispatches[e])'
    BY <1>1, <1>9, <2>1 DEF LostForGood, Dead
  <2>3. ASSUME q.effect = ReleaseApplied, NEW j \in q.items
        PROVE  job[j].dispatch # c
    <3>1. <<e, "Release">> \in Completed
      BY <2>3 DEF Completed, ReleaseApplied, Kinds
    <3>2. q.items \cap claim.items = {}
      BY <1>1, <2>3, <3>1 DEF CancelInv, ClaimBehind
    <3>3. job[j].dispatch = c => j \in claim.items
      BY <1>1, <1>4, <1>5, <2>1 DEF CancelInv, ClaimBehind
    <3> QED BY <3>2, <3>3
  <2> QED BY <1>1, <1>9, <2>1, <2>2, <2>3 DEF JobsBound, Gone, ReleaseApplied
<1>13. LostForGood(dispatches[c])' /\ JobsBound(c, dispatches[c])'
  BY <1>1, <1>5, <1>8, <1>9 DEF LostForGood, JobsBound, ReleaseApplied
<1>14. BoundOK'
  BY <1>9, <1>12, <1>13 DEF BoundOK
<1>15. ToldOK'
  <2> SUFFICES ASSUME NEW e \in Registered', NEW j \in Items, Awaiting(e, j)'
               PROVE  Told(e, j)'
    BY DEF ToldOK
  <2>1. CASE e = c
    BY <1>8, <1>9, <2>1 DEF Told
  <2>2. CASE e # c
    <3>1. e \in Registered /\ dispatches'[e] = dispatches[e]
      BY <1>9, <2>2
    <3>2. \A x \in Containing(j) : x \in Containing(j)'
      BY <1>9 DEF Containing
    <3>3. Awaiting(e, j)
      BY <1>1, <3>1, <3>2 DEF Awaiting, Ended, Containing
    <3>4. Told(e, j)
      BY <3>1, <3>3 DEF CancelInv, ToldOK
    <3> QED BY <1>1, <3>1, <3>4 DEF Told, Control
  <2> QED BY <2>1, <2>2
<1> QED BY <1>10, <1>11, <1>14, <1>15 DEF StillTold, CancelStill

-----------------------------------------------------------------------------
(* The worker's process and its commands *)

(* A step of the live process that does not begin to wait for anything, and  *)
(* takes no other cancellation than that of an item which it ends.           *)
LEMMA WorkerStays ==
    ASSUME CancelInv, UNCHANGED <<job, request, held, dispatches, claim, lane>>,
           MailboxLive', DeadStays, TasksStay
    PROVE  StillTold'
<1>1. JobsStay /\ RequestsStay /\ ClaimStays
  BY DEF JobsStay, RequestsStay, ClaimStays, Ended
<1>2. RecordsStay
  BY DEF RecordsStay, Mild, Registered
<1> QED BY <1>1, <1>2, StepStays DEF StillTold

(* The process takes its steps,                                              *)
LEMMA WorkerTells ==
    ASSUME CancelInv, WorkerStep \/ WorkerDies
    PROVE  StillTold'
<1>1. UNCHANGED <<job, request, held, dispatches, claim, lane, controls>>
  BY DEF WorkerStep, WorkerDies, StartItem, EndItem, CompleteWorkset, SummariseWorkset, coordinatorVars
<1>2. /\ worker \in [gen : Generations, up : BOOLEAN, retire : BOOLEAN, dispatch : {0} \cup Ids,
                     items : [Items -> ItemStates], done : BOOLEAN]
      /\ WorkerOK /\ CoordinatorTypeOK
  BY DEF CancelInv, ClosingInv, CustodyInv, CoordinatorTypeOK, WorkerTypeOK
<1>3. worker.up
  <2>1. CASE \E j \in Items : StartItem(j) \/ EndItem(j)
    <3>1. PICK j \in Items : Executed(j)
      BY <2>1 DEF StartItem, EndItem, Executed
    <3> QED BY <1>2, <3>1, ExecutedIsUp
  <2>2. CASE CompleteWorkset \/ SummariseWorkset
    BY <1>2, <2>2 DEF CompleteWorkset, SummariseWorkset, WorkerOK
  <2> QED BY <2>1, <2>2 DEF WorkerStep, WorkerDies
<1>4. worker'.gen = worker.gen
  BY <1>2 DEF WorkerStep, WorkerDies, StartItem, EndItem, CompleteWorkset, SummariseWorkset
<1>5. PICK e \in EventRecord : wire' = Append(wire, e) /\ (e.type = "Unavailable" => e.gen = worker.gen)
  <2>1. PICK type \in {"Started", "Terminal", "Completed", "Summary", "Unavailable"}, j \in {0} \cup Items :
           wire' = Append(wire, Event(type, j, FALSE))
    BY DEF WorkerStep, WorkerDies, StartItem, EndItem, CompleteWorkset, SummariseWorkset, Send
  <2>2. Event(type, j, FALSE) \in EventRecord /\ Event(type, j, FALSE).gen = worker.gen
    BY <1>2 DEF Event, EventRecord
  <2> QED BY <2>1, <2>2
<1>6. MailboxLive' /\ DeadStays
  BY <1>1, <1>3, <1>4, <1>5, MailSent
<1>7. \A i \in Items : worker'.items[i] = "waiting" =>
         worker.items[i] = "waiting" /\ worker'.dispatch = worker.dispatch
  <2>1. CASE \E j \in Items : StartItem(j) \/ EndItem(j)
    <3>1. PICK j \in Items, x \in {"running", "ended"} : worker' = [worker EXCEPT !.items[j] = x]
      BY <2>1 DEF StartItem, EndItem
    <3> QED BY <1>2, <3>1
  <2>2. CASE CompleteWorkset
    BY <1>2, <2>2 DEF CompleteWorkset
  <2>3. CASE SummariseWorkset \/ WorkerDies
    <3>1. worker'.items = NoItem
      BY <1>2, <2>3 DEF SummariseWorkset, WorkerDies
    <3> QED BY <3>1, NoItemTyped
  <2> QED BY <2>1, <2>2, <2>3 DEF WorkerStep
<1>8. TasksStay
  BY <1>1, <1>7 DEF TasksStay
<1> QED BY <1>1, <1>6, <1>8, WorkerStays

(* the next one has nothing to do,                                           *)
LEMMA ReadyTells ==
    ASSUME CancelInv, HandleWorkerReady
    PROVE  StillTold'
<1>1. /\ UNCHANGED <<job, request, held, dispatches, claim, controls, wire>>
      /\ ~worker.up /\ wire = <<>> /\ worker' = [worker EXCEPT !.gen = @ + 1, !.up = TRUE, !.retire = FALSE]
      /\ lane' = ReadyLane(worker.gen + 1)
  BY DEF HandleWorkerReady
<1>2. /\ worker \in [gen : Generations, up : BOOLEAN, retire : BOOLEAN, dispatch : {0} \cup Ids,
                     items : [Items -> ItemStates], done : BOOLEAN]
      /\ worker.items = NoItem
  BY <1>1 DEF CancelInv, ClosingInv, CustodyInv, CoordinatorTypeOK, WorkerTypeOK, WorkerOK
<1>3. worker'.gen = worker.gen + 1 /\ worker'.items = NoItem /\ worker.gen \in Nat
  BY <1>1, <1>2 DEF Generations
<1>4. MailboxLive'
  BY <1>1, <1>3 DEF MailboxLive, ReadyLane
<1>5. DeadStays
  <2> SUFFICES ASSUME NEW g \in {0} \cup Generations, Dead(g) PROVE Dead(g)'
    BY DEF DeadStays
  <2>1. g <= worker.gen /\ g \in Nat
    BY DEF Dead, Generations
  <2>2. g <= worker.gen + 1 /\ g # worker.gen + 1
    BY <1>3, <2>1
  <2> QED BY <1>1, <1>3, <2>2 DEF Dead, Range
<1>6. JobsStay /\ RequestsStay /\ ClaimStays
  BY <1>1 DEF JobsStay, RequestsStay, ClaimStays, Ended
<1>7. RecordsStay
  BY <1>1 DEF RecordsStay, Mild, Registered
<1>8. TasksStay
  BY <1>3, NoItemTyped DEF TasksStay
<1> QED BY <1>4, <1>5, <1>6, <1>7, <1>8, StepStays DEF StillTold

(* an acknowledgement is no cancellation,                                    *)
LEMMA AcknowledgeTells ==
    ASSUME CancelInv, NEW c \in controls, ExecuteAcknowledge(c)
    PROVE  StillTold'
<1>1. /\ UNCHANGED <<job, request, held, dispatches, claim, lane, wire>> /\ c.kind = "ack"
      /\ worker' \in {worker, [worker EXCEPT !.items[c.job] = "acked"]}
      /\ controls \ {c} \subseteq controls'
  BY DEF ExecuteAcknowledge
<1>2. worker \in [gen : Generations, up : BOOLEAN, retire : BOOLEAN, dispatch : {0} \cup Ids,
                  items : [Items -> ItemStates], done : BOOLEAN]
  BY DEF CancelInv, ClosingInv, CustodyInv, CoordinatorTypeOK, WorkerTypeOK
<1>3. /\ worker'.gen = worker.gen /\ worker'.up = worker.up /\ worker'.dispatch = worker.dispatch
      /\ \A i \in Items : worker'.items[i] = "waiting" => worker.items[i] = "waiting"
  BY <1>1, <1>2
<1>4. MailboxLive' /\ DeadStays
  BY <1>1, <1>3, MailSame DEF WireKeeps
<1>5. TasksStay
  BY <1>1, <1>3 DEF TasksStay, Control
<1> QED BY <1>1, <1>4, <1>5, WorkerStays

(* and a cancellation that is delivered ends the item, if it waits.          *)
LEMMA CancelItemTells ==
    ASSUME CancelInv, NEW c \in controls, CancelWorksetItem(c)
    PROVE  StillTold'
<1>1. /\ UNCHANGED <<job, request, held, dispatches, claim, lane>> /\ controls' = controls \ {c}
      /\ \/ /\ worker.dispatch = c.dispatch /\ worker.items[c.job] = "waiting"
            /\ worker' = [worker EXCEPT !.items[c.job] = "ended"]
            /\ wire' = Append(wire, Event("Terminal", c.job, TRUE))
         \/ ~(worker.dispatch = c.dispatch /\ worker.items[c.job] = "waiting") /\ UNCHANGED workerVars
  BY DEF CancelWorksetItem, Send
<1>2. /\ worker \in [gen : Generations, up : BOOLEAN, retire : BOOLEAN, dispatch : {0} \cup Ids,
                     items : [Items -> ItemStates], done : BOOLEAN]
      /\ c.job \in Items /\ WorkerOK /\ CoordinatorTypeOK
  BY DEF CancelInv, ClosingInv, CustodyInv, CoordinatorTypeOK, WorkerTypeOK, QueuesTypeOK
<1>3. /\ worker'.gen = worker.gen /\ worker'.up = worker.up /\ worker'.dispatch = worker.dispatch
      /\ \A i \in Items : worker'.items[i] = "waiting" => worker.items[i] = "waiting"
      /\ \A i \in Items : worker'.items[i] = "waiting" => i # c.job \/ worker.dispatch # c.dispatch
  <2>1. CASE worker' = [worker EXCEPT !.items[c.job] = "ended"]
    BY <1>2, <2>1
  <2>2. CASE worker' = worker
    BY <1>1, <1>2, <2>2 DEF workerVars
  <2> QED BY <1>1, <2>1, <2>2 DEF workerVars
<1>4. TasksStay
  BY <1>1, <1>3 DEF TasksStay, Control
<1>5. CASE /\ worker.dispatch = c.dispatch /\ worker.items[c.job] = "waiting"
           /\ wire' = Append(wire, Event("Terminal", c.job, TRUE))
  <2>1. worker.up
    BY <1>2, <1>5, ExecutedIsUp DEF Executed
  <2>2. Event("Terminal", c.job, TRUE) \in EventRecord /\ Event("Terminal", c.job, TRUE).type = "Terminal"
    BY <1>2 DEF Event, EventRecord
  <2>3. MailboxLive' /\ DeadStays
    BY <1>1, <1>3, <1>5, <2>1, <2>2, MailSent
  <2> QED BY <1>1, <1>4, <2>3, WorkerStays
<1>6. CASE UNCHANGED workerVars
  <2>1. MailboxLive' /\ DeadStays
    BY <1>1, <1>3, <1>6, MailSame DEF WireKeeps, workerVars
  <2> QED BY <1>1, <1>4, <2>1, WorkerStays
<1> QED BY <1>1, <1>5, <1>6

-----------------------------------------------------------------------------
(* The store's calls and the cancellations *)

(* A step of the store that unbinds no job and asks nothing new. *)
LEMMA StoreStays ==
    ASSUME CancelInv, UNCHANGED <<dispatches, claim, lane, controls, worker, wire>>,
           EndedStays, RequestsStay, \A j \in Items : job'[j].dispatch = job[j].dispatch
    PROVE  StillTold'
<1>1. JobsStay /\ ClaimStays
  BY DEF JobsStay, ClaimStays, EndedStays
<1>2. MailboxLive' /\ DeadStays
  BY MailSame DEF WireKeeps
<1>3. RecordsStay /\ TasksStay
  BY DEF RecordsStay, Mild, Registered, TasksStay, Control
<1> QED BY <1>1, <1>2, <1>3, StepStays DEF StillTold

(* What is committed is held back at first;                                  *)
LEMMA CommitTells ==
    ASSUME CancelInv, NEW j \in Items, CommitCancellation(j)
    PROVE  StillTold'
<1>1. /\ UNCHANGED <<job, dispatches, claim, lane, controls, worker, wire>>
      /\ request' = [request EXCEPT ![j] = "ACTIVE"]
      /\ DOMAIN held' = DOMAIN held \cup {j}
  BY DEF CommitCancellation
<1>2. EndedStays /\ \A i \in Items : job'[i].dispatch = job[i].dispatch
  BY <1>1 DEF EndedStays, Ended
<1>3. StoreTypeOK
  BY DEF CancelInv, ClosingInv, CustodyInv, CoordinatorTypeOK
<1>4. RequestsStay
  BY <1>1, <1>3 DEF RequestsStay, StoreTypeOK
<1> QED BY <1>1, <1>2, <1>4, StoreStays

(* what is persisted resolves,                                               *)
LEMMA PersistKnown ==
    ASSUME CancelInv, NEW d \in Ids, PersistWorkerEvent(d)
    PROVE  /\ \A j \in Items : job'[j].dispatch = job[j].dispatch
           /\ \A j \in Items : request'[j] = request[j] \/ request'[j] = "RESOLVED"
<1> DEFINE e == EvidenceOf(d)
           write == IF e.type = "Started" THEN MarkWorksetJobStarted(d, e) ELSE StageWorkerTerminal(d, e)
<1>1. StoreTypeOK /\ e.job \in Items
  <2>1. stream[d].io = "wait" /\ ClosingInv
    BY DEF PersistWorkerEvent, CancelInv
  <2> QED BY <2>1, PersistingKnown DEF ClosingInv, CustodyInv, CoordinatorTypeOK
<1>2. \/ UNCHANGED storeVars
      \/ job' = [job EXCEPT ![e.job].state = write.state] /\ request' = write.request
  BY DEF PersistWorkerEvent
<1>3. \/ write.request = request
      \/ write.request = [request EXCEPT ![e.job] = IF @ = "ACTIVE" THEN "RESOLVED" ELSE @]
  BY DEF MarkWorksetJobStarted, StageWorkerTerminal
<1> HIDE DEF write, e
<1>4. \A j \in Items : job'[j].dispatch = job[j].dispatch
  BY <1>1, <1>2 DEF StoreTypeOK, storeVars
<1>5. \A j \in Items : request'[j] = request[j] \/ request'[j] = "RESOLVED"
  <2>1. CASE request' = request
    BY <2>1
  <2>2. CASE request' = [request EXCEPT ![e.job] = IF @ = "ACTIVE" THEN "RESOLVED" ELSE @]
    <3>1. PICK i \in Items : i = e.job
      BY <1>1
    <3>2. request' = [request EXCEPT ![i] = IF @ = "ACTIVE" THEN "RESOLVED" ELSE @]
      BY <2>2, <3>1
    <3> QED BY <1>1, <3>2 DEF StoreTypeOK
  <2> QED BY <1>2, <1>3, <2>1, <2>2 DEF storeVars
<1> QED BY <1>4, <1>5

(* so that the store call asks nothing new;                                  *)
LEMMA PersistTells ==
    ASSUME CancelInv, NEW d \in Ids, PersistWorkerEvent(d)
    PROVE  StillTold'
<1>1. UNCHANGED <<dispatches, claim, lane, controls, worker, wire, held>>
  BY DEF PersistWorkerEvent
<1>2. EndedStays
  BY PersistCloses DEF CancelInv
<1>3. RequestsStay
  BY <1>1, PersistKnown DEF RequestsStay
<1> QED BY <1>1, <1>2, <1>3, PersistKnown, StoreStays

(* and so does what a mutation cancels.                                      *)
LEMMA MutateKnown ==
    ASSUME CancelInv, NEW m \in mutations, MutateJobCancellation(m)
    PROVE  /\ \A j \in Items : job'[j].dispatch = job[j].dispatch
           /\ \A j \in Items : request'[j] = request[j] \/ request'[j] = "RESOLVED"
           /\ \E at \in {"applied", "rejected"} :
                 /\ mutations' = (mutations \ {m}) \cup {[m EXCEPT !.at = at]}
                 /\ at = "applied" => request'[m.job] = "RESOLVED"
<1> DEFINE j == m.job
<1>1. StoreTypeOK /\ j \in Items
  BY DEF CancelInv, ClosingInv, CustodyInv, CoordinatorTypeOK, QueuesTypeOK
<1>2. PICK at \in {"applied", "rejected"} :
         /\ mutations' = (mutations \ {m}) \cup {[m EXCEPT !.at = at]}
         /\ \/ job' = job
            \/ job' = [job EXCEPT ![j].state = "CANCELED"]
         /\ \/ request[j] = "RESOLVED" /\ UNCHANGED request
            \/ request' = [request EXCEPT ![j] = "RESOLVED"]
            \/ at = "rejected" /\ UNCHANGED request
  BY DEF MutateJobCancellation, storeVars
<1> HIDE DEF j
<1>3. \A i \in Items : job'[i].dispatch = job[i].dispatch
  BY <1>1, <1>2 DEF StoreTypeOK
<1>4. \A i \in Items : request'[i] = request[i] \/ request'[i] = "RESOLVED"
  BY <1>1, <1>2 DEF StoreTypeOK
<1>5. at = "applied" => request'[j] = "RESOLVED"
  BY <1>1, <1>2 DEF StoreTypeOK
<1> QED BY <1>2, <1>3, <1>4, <1>5 DEF j

(* The transaction of a cancellation asks nothing new either.                *)
LEMMA MutateTells ==
    ASSUME CancelInv, NEW m \in mutations, MutateJobCancellation(m)
    PROVE  StillTold'
<1>1. UNCHANGED <<dispatches, claim, lane, controls, worker, wire, held>>
  BY DEF MutateJobCancellation
<1>2. EndedStays
  BY MutateCloses DEF CancelInv
<1>3. RequestsStay
  BY <1>1, MutateKnown DEF RequestsStay
<1> QED BY <1>1, <1>2, <1>3, MutateKnown, StoreStays

(* The recovery leaves nothing to tell.                                      *)
LEMMA RecoveryTells ==
    ASSUME CancelInv, ShutdownRecovery
    PROVE  StillTold'
<1>1. /\ UNCHANGED <<claim, lane, worker, wire>> /\ stage = "Recovering"
      /\ Registered' = {}
  BY DEF ShutdownRecovery, Registered
<1>2. claim'.at = "none"
  BY <1>1 DEF CancelInv, ClosingInv, CustodyInv, WorkerOK
<1>3. MailboxLive'
  BY <1>1, MailSame DEF WireKeeps
<1> QED BY <1>1, <1>2, <1>3 DEF StillTold, CancelStill, BoundOK, ClaimBehind, ToldOK

(* What is registered is told, if there is a worker to tell it to.           *)
LEMMA RegisterTells ==
    ASSUME CancelInv, NEW j \in Items, RegisterCommittedCancellations(j)
    PROVE  StillTold'
<1>1. /\ UNCHANGED <<job, request, claim, lane, worker, wire>> /\ j \in DOMAIN held
      /\ held' = Restrict(held, DOMAIN held \ {j})
      /\ \/ \E d \in Containing(j) : TellDispatch(d, j)
         \/ Containing(j) = {} /\ UNCHANGED <<dispatches, controls>>
  BY DEF RegisterCommittedCancellations
<1>2. DOMAIN held' = DOMAIN held \ {j}
  BY <1>1 DEF Restrict
<1>3. /\ \A d, i : Control("cancel", d, i) \in controls => Control("cancel", d, i) \in controls'
      /\ Registered' = Registered
      /\ \A d \in Registered : Mild(dispatches[d], dispatches'[d])
  <2>1. CASE Containing(j) = {} /\ UNCHANGED <<dispatches, controls>>
    BY <2>1 DEF Mild, Registered
  <2>2. CASE \E d \in Containing(j) : TellDispatch(d, j)
    <3>1. PICK d \in Containing(j) : TellDispatch(d, j)
      BY <2>2
    <3>2. d \in Registered /\ dispatches[d] \in DispatchRecord
      BY <3>1, RecordKnown DEF Containing
    <3>3. controls \subseteq controls'
      BY <3>1 DEF TellDispatch, EnqueueControls
    <3>4. dispatches' = dispatches \/ Update(d, [dispatches[d] EXCEPT !.pending = @ \cup {j}])
      BY <3>1 DEF TellDispatch, Update
    <3> DEFINE r == dispatches[d]
               s == [r EXCEPT !.pending = @ \cup {j}]
    <3>5. Mild(r, s)
      BY <3>2 DEF Mild, DispatchRecord
    <3>6. ASSUME Update(d, s)
          PROVE  /\ Registered' = Registered /\ \A e \in Registered : Mild(dispatches[e], dispatches'[e])
      <4> HIDE DEF s
      <4>1. /\ Registered' = Registered /\ dispatches'[d] = s
            /\ \A e \in Registered : e # d => dispatches'[e] = dispatches[e]
        BY <3>2, <3>6, UpdateGives
      <4>2. ASSUME NEW e \in Registered
            PROVE  Mild(dispatches[e], dispatches'[e])
        <5>1. CASE e = d
          BY <3>5, <4>1, <5>1
        <5>2. CASE e # d
          BY <4>1, <5>2 DEF Mild
        <5> QED BY <5>1, <5>2
      <4> QED BY <4>1, <4>2
    <3>7. dispatches' = dispatches =>
             Registered' = Registered /\ \A e \in Registered : Mild(dispatches[e], dispatches'[e])
      BY DEF Mild, Registered
    <3> QED BY <3>3, <3>4, <3>6, <3>7
  <2> QED BY <1>1, <2>1, <2>2
<1>4. MailboxLive' /\ DeadStays
  BY <1>1, MailSame DEF WireKeeps
<1>5. JobsStay /\ TasksStay
  BY <1>1, <1>3 DEF JobsStay, TasksStay, Ended
<1>6. BoundOK'
  BY <1>3, <1>4, <1>5, MildLost, MildBound DEF BoundOK
<1>7. ClaimBehind'
  <2>1. \A d \in Registered : /\ dispatches'[d].items = dispatches[d].items
                              /\ dispatches'[d].effect = ReleaseApplied => dispatches[d].effect = ReleaseApplied
    BY <1>3 DEF Mild
  <2> QED BY <1>1, <1>3, <2>1 DEF CancelInv, ClaimBehind, ReleaseApplied
<1>8. \A i \in Items : Containing(i)' = Containing(i)
  <2>1. \A d \in Registered : dispatches'[d].items = dispatches[d].items
    BY <1>3 DEF Mild
  <2> QED BY <1>3, <2>1 DEF Containing
<1>9. ASSUME NEW d \in Registered, NEW i \in Items, i # j, Awaiting(d, i)'
      PROVE  Told(d, i)'
  <2>1. dispatches'[d].items = dispatches[d].items /\ dispatches'[d].suppressed = dispatches[d].suppressed
    BY <1>3 DEF Mild
  <2>2. Awaiting(d, i)
    BY <1>1, <1>2, <1>8, <1>9, <2>1 DEF Awaiting, Ended
  <2>3. Told(d, i)
    BY <2>2 DEF CancelInv, ToldOK
  <2> QED BY <1>3, <1>5, <2>3, MildTold
<1>10. ASSUME NEW d \in Registered, Awaiting(d, j)'
       PROVE  Told(d, j)'
  <2> DEFINE r == dispatches[d]
  <2>1. Containing(j) = {d} /\ job[j].dispatch = d /\ ~Ended(j)
    BY <1>1, <1>8, <1>10 DEF Awaiting, Ended
  <2>2. TellDispatch(d, j)
    BY <1>1, <2>1
  <2>3. r \in DispatchRecord /\ EffectOwned(r) /\ LostForGood(r)
    BY RecordKnown
  <2>4. PICK s : s = dispatches'[d]
    OBVIOUS
  <2>5. Mild(r, s)
    BY <1>3, <2>4
  <2>6. r.own = "MayOwn" \/ (r.own = "Coordinator" /\ r.effect.kind = "Submission") => j \in s.pending
    <3>1. ASSUME r.own = "MayOwn" \/ (r.own = "Coordinator" /\ r.effect.kind = "Submission")
          PROVE  j \in s.pending
      <4>1. dispatches' = [dispatches EXCEPT ![d].pending = @ \cup {j}]
        BY <2>2, <3>1 DEF TellDispatch
      <4>2. s = [r EXCEPT !.pending = @ \cup {j}]
        BY <2>4, <4>1 DEF Registered
      <4> QED BY <2>3, <4>2 DEF DispatchRecord
    <3> QED BY <3>1
  <2>7. s.own = "MayOwn" \/ s.effect.kind = "Submission" => j \in s.pending
    BY <2>3, <2>5, <2>6 DEF Mild, EffectOwned
  <2>8. ASSUME s.own = "Worker", s.life # "Faulted", worker.dispatch = d, worker.items[j] = "waiting"
        PROVE  Control("cancel", d, j) \in controls'
    <3>1. r.own = "Worker" /\ r.life # "Faulted"
      BY <2>5, <2>8 DEF Mild
    <3>2. r.life \in {"Active", "Draining"}
      BY <2>3, <3>1 DEF LostForGood
    <3>3. j \notin r.staged
      <4>1. AcksOK
        BY DEF CancelInv, ClosingInv, CustodyInv
      <4>2. j \in r.staged => FinishedBy(j, d)
        BY <4>1 DEF AcksOK
      <4> QED BY <2>1, <4>2 DEF FinishedBy, Ended
    <3>4. lane.gen = r.gen
      <4>1. CoordinatorTypeOK /\ WorkerOK /\ ExecutedKnown /\ MailboxLive /\ Executed(j)
        BY <2>8 DEF CancelInv, ClosingInv, CustodyInv, Executed
      <4>2. worker.up /\ r.gen = worker.gen
        BY <2>8, <4>1, ExecutedIsUp DEF ExecutedKnown
      <4> QED BY <4>1, <4>2 DEF MailboxLive
    <3>5. EnqueueControls(r.gen, {Control("cancel", d, j)})
      BY <2>2, <3>1, <3>2, <3>3 DEF TellDispatch
    <3> QED BY <3>4, <3>5 DEF EnqueueControls
  <2> QED BY <1>1, <2>4, <2>7, <2>8 DEF Told, Control
<1>11. ToldOK'
  BY <1>3, <1>9, <1>10 DEF ToldOK
<1> QED BY <1>4, <1>6, <1>7, <1>11 DEF StillTold, CancelStill

(* The other steps concern neither records nor cancellations. *)
BystanderStep ==
    \/ ScheduleClaim \/ ClaimFails
    \/ \E d \in Ids : DiscardEvidence(d) \/ BeginPersistence(d)
    \/ FinishShutdownAfterWorkersStopped \/ ProcessShutdown \/ ClearInvariantPause
    \/ UNCHANGED vars

(* They leave everything told. *)
LEMMA IdleTells ==
    ASSUME CancelInv, BystanderStep
    PROVE  StillTold'
<1>1. UNCHANGED <<job, request, held, dispatches, lane, worker, wire>>
  BY DEF BystanderStep, ScheduleClaim, ClaimFails, DiscardEvidence, BeginPersistence,
         FinishShutdownAfterWorkersStopped, ProcessShutdown, ClearInvariantPause, vars
<1>2. controls \subseteq controls'
  BY DEF BystanderStep, ScheduleClaim, ClaimFails, DiscardEvidence, BeginPersistence, Acknowledge, EnqueueControls,
         FinishShutdownAfterWorkersStopped, ProcessShutdown, ClearInvariantPause, vars
<1>3. ClaimStays
  BY DEF BystanderStep, ScheduleClaim, ClaimFails, DiscardEvidence, BeginPersistence, ClaimStays, NoClaim,
         FinishShutdownAfterWorkersStopped, ProcessShutdown, ClearInvariantPause, vars
<1>4. Handles
  BY <1>1, <1>2, <1>3 DEF Handles, ControlsStay, WireKeeps
<1> QED BY <1>1, <1>4, SameStays

-----------------------------------------------------------------------------
(* The index *)

(* What was resolved stays resolved, and nothing else leaves the index.      *)
LEMMA IndexStays ==
    ASSUME CancelInv,
           \A j \in Items : request[j] = "RESOLVED" => request'[j] = "RESOLVED",
           \A j \in Items : request'[j] = "ACTIVE" => request[j] = "ACTIVE" \/ j \in DOMAIN held' \cup index',
           \A j \in DOMAIN held \cup index : j \in DOMAIN held' \cup index' \/ request'[j] = "RESOLVED",
           \A m \in mutations' : m \in mutations \/ m.at # "applied" \/ request'[m.job] = "RESOLVED"
    PROVE  RequestsIndexed'
<1>1. RequestsIndexed /\ \A m \in mutations : m.job \in Items
  BY DEF CancelInv, ClosingInv, CustodyInv, CoordinatorTypeOK, QueuesTypeOK
<1>2. \A m \in mutations' : m.at = "applied" => request'[m.job] = "RESOLVED"
  BY <1>1 DEF RequestsIndexed
<1>3. \A j \in Items : request'[j] = "ACTIVE" => j \in DOMAIN held' \cup index'
  BY <1>1 DEF RequestsIndexed
<1> QED BY <1>2, <1>3 DEF RequestsIndexed

(* A step that at most queues a mutation,                                    *)
LEMMA IndexSame ==
    ASSUME CancelInv, UNCHANGED <<request, held, index>>,
           \A m \in mutations' : m \in mutations \/ m.at # "applied"
    PROVE  RequestsIndexed'
BY IndexStays

(* the store's calls,                                                        *)
LEMMA StoreIndexes ==
    ASSUME CancelInv, UNCHANGED <<held, index>>,
           \A j \in Items : request'[j] = request[j] \/ request'[j] = "RESOLVED",
           \A m \in mutations' : m \in mutations \/ m.at # "applied" \/ request'[m.job] = "RESOLVED"
    PROVE  RequestsIndexed'
BY IndexStays

(* the handlers that queue a mutation,                                       *)
LEMMA ActorIndexes ==
    ASSUME CancelInv,
           \/ \E d \in Registered : AdmitPreparedDispatch(d) \/ HandleActivationIoCompletion(d)
           \/ \E d \in Ids : HandlePersisted(d)
    PROVE  RequestsIndexed'
<1>1. UNCHANGED <<request, held, index>>
  BY DEF AdmitPreparedDispatch, HandleActivationIoCompletion, HandlePersisted
<1>2. CASE \E d \in Registered : AdmitPreparedDispatch(d) \/ HandleActivationIoCompletion(d)
  <2>1. PICK d \in Registered : AdmitPreparedDispatch(d) \/ HandleActivationIoCompletion(d)
    BY <1>2
  <2>2. \/ mutations' = mutations
        \/ \E F : mutations' = mutations \cup {Mutation("sidecar", j, d) : j \in F}
    <3>1. CASE AdmitPreparedDispatch(d)
      BY <3>1 DEF AdmitPreparedDispatch
    <3>2. CASE HandleActivationIoCompletion(d)
      <4>1. mutations' = mutations \/ Activated(d)
        BY <3>2 DEF HandleActivationIoCompletion
      <4> QED BY <4>1 DEF Activated
    <3> QED BY <2>1, <3>1, <3>2
  <2>3. \A m \in mutations' : m \in mutations \/ m.at = "queued"
    BY <2>2 DEF Mutation
  <2> QED BY <1>1, <2>3, IndexSame
<1>3. CASE \E d \in Ids : HandlePersisted(d)
  <2>1. PICK d \in Ids : HandlePersisted(d)
    BY <1>3
  <2>2. PICK i : i = EvidenceOf(d).job
    OBVIOUS
  <2>3. \/ mutations' = mutations
        \/ mutations' = mutations \cup {Mutation("resolved", j, d) : j \in {i} \cap index}
    BY <2>1, <2>2 DEF HandlePersisted
  <2>4. \A m \in mutations' : m \in mutations \/ m.at = "queued"
    BY <2>3 DEF Mutation
  <2> QED BY <1>1, <2>4, IndexSame
<1> QED BY <1>2, <1>3

(* and the steps of a cancellation.                                          *)
LEMMA CommitIndexes ==
    ASSUME CancelInv, NEW j \in Items, CommitCancellation(j)
    PROVE  RequestsIndexed'
<1>1. /\ UNCHANGED <<mutations, index>> /\ request[j] = "NONE"
      /\ request' = [request EXCEPT ![j] = "ACTIVE"]
      /\ DOMAIN held' = DOMAIN held \cup {j}
  BY DEF CommitCancellation
<1>2. StoreTypeOK
  BY DEF CancelInv, ClosingInv, CustodyInv, CoordinatorTypeOK
<1>3. \A i \in Items : i # j => request'[i] = request[i]
  BY <1>1, <1>2 DEF StoreTypeOK
<1> QED BY <1>1, <1>3, IndexStays

(* A registration moves the request from the holds to the index;             *)
LEMMA RegisterIndexes ==
    ASSUME CancelInv, NEW j \in Items, RegisterCommittedCancellations(j)
    PROVE  RequestsIndexed'
<1>1. /\ UNCHANGED request /\ index' = index \cup {j}
      /\ held' = Restrict(held, DOMAIN held \ {j})
  BY DEF RegisterCommittedCancellations
<1>2. \A m \in mutations' : m \in mutations \/ m.at # "applied"
  <2>1. mutations' = mutations \/ \E d : mutations' = mutations \cup {Mutation("resolved", j, d)}
    BY DEF RegisterCommittedCancellations, TellDispatch
  <2> QED BY <2>1 DEF Mutation
<1>3. DOMAIN held' = DOMAIN held \ {j}
  BY <1>1 DEF Restrict
<1> QED BY <1>1, <1>2, <1>3, IndexStays

(* a mutation is applied with the request resolved,                          *)
LEMMA MutateIndexes ==
    ASSUME CancelInv, NEW m \in mutations, MutateJobCancellation(m)
    PROVE  RequestsIndexed'
<1>1. UNCHANGED <<held, index>>
  BY DEF MutateJobCancellation
<1>2. PICK at \in {"applied", "rejected"} :
         /\ mutations' = (mutations \ {m}) \cup {[m EXCEPT !.at = at]}
         /\ at = "applied" => request'[m.job] = "RESOLVED"
  BY MutateKnown
<1>3. m \in [kind : {"sidecar", "resolved"}, job : Items, dispatch : {0} \cup Ids,
             at : {"queued"} \cup Outcomes]
  BY DEF CancelInv, ClosingInv, CustodyInv, CoordinatorTypeOK, QueuesTypeOK
<1> DEFINE n == [m EXCEPT !.at = at]
<1>4. n.job = m.job /\ n.at = at
  BY <1>3
<1>5. \A x \in mutations' : x \in mutations \/ x = n
  BY <1>2
<1> HIDE DEF n
<1>6. \A x \in mutations' : x \in mutations \/ x.at # "applied" \/ request'[x.job] = "RESOLVED"
  BY <1>2, <1>4, <1>5
<1> QED BY <1>1, <1>6, MutateKnown, StoreIndexes

(* so that its receipt takes no active request from the index.               *)
LEMMA ReceiptIndexes ==
    ASSUME CancelInv, NEW m \in mutations, ApplyCancellationMutationReceipts(m)
    PROVE  RequestsIndexed'
<1>1. /\ UNCHANGED <<request, held>> /\ mutations' \subseteq mutations
      /\ index' = index \/ (m.at = "applied" /\ index' = index \ {m.job})
  BY DEF ApplyCancellationMutationReceipts
<1>2. m.at = "applied" => request[m.job] = "RESOLVED"
  BY DEF CancelInv, RequestsIndexed
<1> QED BY <1>1, <1>2, IndexStays

-----------------------------------------------------------------------------
(* Every step *)

(* The invariant is kept by the claim's steps,                               *)
LEMMA ClaimTells ==
    ASSUME CancelInv, ClaimStep
    PROVE  StillTold' /\ RequestsIndexed'
<1>1. StillTold'
  BY IdleTells, ClaimIoTells, ClaimCompletionTells DEF ClaimStep, BystanderStep
<1>2. UNCHANGED <<request, held, index, mutations>>
  BY DEF ClaimStep, ScheduleClaim, ClaimIo, ClaimFails, HandleClaimIoCompletion
<1> QED BY <1>1, <1>2, IndexSame

(* the handlers of a dispatch,                                               *)
LEMMA DispatchTells ==
    ASSUME CancelInv, NEW d \in Registered, DispatchStep(d)
    PROVE  StillTold' /\ RequestsIndexed'
<1>1. StillTold'
  BY ReconstructTells, AdmitTells, SubmitTells, SubmissionTells, ConfirmTells, ResidenceTells, IoTells,
     IoFailsTells, ActivationTells, RetryActivationTells, PendingDrainingTells, DrainingTells,
     ReleaseTells, ContainmentTells DEF DispatchStep
<1>2. CASE AdmitPreparedDispatch(d) \/ HandleActivationIoCompletion(d)
  BY <1>1, <1>2, ActorIndexes
<1>3. CASE ~(AdmitPreparedDispatch(d) \/ HandleActivationIoCompletion(d))
  <2>1. UNCHANGED <<request, held, index, mutations>>
    <3>1. CASE CoordinationIo(d)
      BY <3>1 DEF CoordinationIo, MarkWorksetActive, MarkWorksetDraining, ReleaseWorksetDispatch
    <3>2. CASE ~CoordinationIo(d)
      BY <1>3, <3>2 DEF DispatchStep, Reconstruct, ReconstructionFails, SubmitWorksetToWorker,
         HandleSubmissionCompletion, ConfirmResidence, HandleResidenceCompletion, CoordinationIoFails,
         RetryActivation, ProcessPendingDrainingTransitions, HandleDrainingIoCompletion,
         HandleReleaseIoCompletion, ProcessContainment
    <3> QED BY <3>1, <3>2
  <2> QED BY <1>1, <2>1, IndexSame
<1> QED BY <1>2, <1>3

(* of a stream's evidence,                                                   *)
LEMMA EvidenceTells ==
    ASSUME CancelInv, NEW d \in Ids, EvidenceStep(d) \/ ApplyFaultDispatch(d)
    PROVE  StillTold' /\ RequestsIndexed'
<1>1. StillTold'
  BY IdleTells, PersistTells, PersistedTells, SummaryTells, FaultTells DEF EvidenceStep, BystanderStep
<1>2. CASE PersistWorkerEvent(d)
  <2>1. UNCHANGED <<held, index, mutations>>
    BY <1>2 DEF PersistWorkerEvent
  <2> QED BY <1>1, <1>2, <2>1, PersistKnown, StoreIndexes
<1>3. CASE HandlePersisted(d)
  BY <1>1, <1>3, ActorIndexes
<1>4. CASE DiscardEvidence(d) \/ BeginPersistence(d) \/ HandleWorksetSummary(d) \/ ApplyFaultDispatch(d)
  <2>1. UNCHANGED <<request, held, index, mutations>>
    BY <1>4 DEF DiscardEvidence, BeginPersistence, HandleWorksetSummary, ApplyFaultDispatch
  <2> QED BY <1>1, <2>1, IndexSame
<1> QED BY <1>2, <1>3, <1>4 DEF EvidenceStep

(* of commands and cancellations, and of the shutdown,                       *)
LEMMA CommandTells ==
    ASSUME CancelInv, ControlStep \/ CancellationStep \/ ShutdownStep
    PROVE  StillTold' /\ RequestsIndexed'
<1>1. CASE ControlStep
  <2>1. StillTold'
    BY <1>1, AcknowledgeTells, ControlTells, CancelItemTells DEF ControlStep
  <2>2. UNCHANGED <<request, held, index, mutations>>
    BY <1>1 DEF ControlStep, ExecuteAcknowledge, HandleWorkerControlCompletion, CancelWorksetItem
  <2> QED BY <2>1, <2>2, IndexSame
<1>2. CASE CancellationStep
  BY <1>2, RegisterTells, RegisterIndexes, MutateTells, MutateIndexes, ReceiptTells, ReceiptIndexes
     DEF CancellationStep
<1>3. CASE ShutdownStep
  <2>1. StillTold'
    BY <1>3, IdleTells, RecoveryTells DEF ShutdownStep, BystanderStep
  <2>2. UNCHANGED <<request, held, index, mutations>>
    BY <1>3 DEF ShutdownStep, FinishShutdownAfterWorkersStopped, ProcessShutdown, ShutdownRecovery
  <2> QED BY <2>1, <2>2, IndexSame
<1> QED BY <1>1, <1>2, <1>3

(* of the worker's events, and of the worker itself.                         *)
LEMMA WorkerSideTells ==
    ASSUME CancelInv, WorkerEventStep \/ WorkerStep \/ WorkerDies \/ HandleWorkerReady
    PROVE  StillTold' /\ RequestsIndexed'
<1>1. StillTold'
  BY RouteTells, WorksetStateTells, UnavailableTells, WorkerTells, ReadyTells DEF WorkerEventStep
<1>2. UNCHANGED <<request, held, index, mutations>>
  BY DEF WorkerEventStep, RoutePersistenceEvent, HandleWorksetState, HandleWorkerUnavailable, WorkerStep,
         StartItem, EndItem, CompleteWorkset, SummariseWorkset, WorkerDies, HandleWorkerReady, coordinatorVars
<1> QED BY <1>1, <1>2, IndexSame

(* The invariant is inductive,                                               *)
LEMMA CancelNext == CancelInv /\ [Next]_vars => CancelInv'
<1> SUFFICES ASSUME CancelInv, [Next]_vars PROVE CancelInv'
  OBVIOUS
<1>1. ClosingInv'
  BY ClosingNext DEF CancelInv
<1>2. StillTold' /\ RequestsIndexed'
  <2>1. CASE ClaimStep
    BY <2>1, ClaimTells
  <2>2. CASE \E d \in Registered : DispatchStep(d)
    BY <2>2, DispatchTells
  <2>3. CASE \E d \in Ids : EvidenceStep(d) \/ ApplyFaultDispatch(d)
    BY <2>3, EvidenceTells
  <2>4. CASE ControlStep \/ CancellationStep \/ ShutdownStep
    BY <2>4, CommandTells
  <2>5. CASE WorkerEventStep \/ WorkerStep \/ WorkerDies \/ HandleWorkerReady
    BY <2>5, WorkerSideTells
  <2>6. CASE \E j \in Items : CommitCancellation(j)
    BY <2>6, CommitTells, CommitIndexes
  <2>7. CASE BeginShutdown
    BY <2>7, BeginShutdownTells, IndexSame DEF BeginShutdown
  <2>8. CASE ClearInvariantPause \/ UNCHANGED vars
    <3>1. UNCHANGED <<request, held, index, mutations>>
      BY <2>8 DEF ClearInvariantPause, vars
    <3> QED BY <2>8, <3>1, IdleTells, IndexSame DEF BystanderStep
  <2> QED BY <2>1, <2>2, <2>3, <2>4, <2>5, <2>6, <2>7, <2>8 DEF Next
<1> QED BY <1>1, <1>2 DEF CancelInv, StillTold, CancelStill

(* and holds initially, when nothing is registered or requested.             *)
LEMMA CancelInit == Init => CancelInv
<1> SUFFICES ASSUME Init PROVE CancelInv
  OBVIOUS
<1>1. /\ \A j \in Items : request[j] = "NONE"
      /\ mutations = {} /\ Registered = {} /\ claim.at = "none"
      /\ lane.gen = 1 /\ worker.gen = 1 /\ wire = <<>>
  BY DEF Init, NoClaim, Registered, ReadyLane
<1>2. RequestsIndexed /\ MailboxLive /\ BoundOK /\ ClaimBehind /\ ToldOK
  BY <1>1 DEF RequestsIndexed, MailboxLive, BoundOK, ClaimBehind, ToldOK
<1> QED BY <1>2, ClosingInit DEF CancelInv

(* A committed cancellation of an item that waits in a live worker is held   *)
(* back, kept for the activation or in the worker's mailbox, whether it was  *)
(* committed before, during or after the submission and whichever handlers   *)
(* came between, unless the dispatch is faulted or the job is also in        *)
(* another one.                                                              *)
THEOREM SpecCancellationOnItsWay == Spec => []CancellationOnItsWay
BY ToldImplies, CancelInit, CancelNext, PTL DEF Spec

-----------------------------------------------------------------------------
(* No command is left without an answer *)

MailboxKinds == {"Submission", "Residence"}

(* The process g has the mailbox: it is up, or its loss is still to be       *)
(* handled.                                                                  *)
LossComes(g) == \E e \in Range(wire) : e.type = "Unavailable" /\ e.gen = g
Attended(g) ==
    /\ g # 0 /\ lane.gen = g
    /\ worker.gen = g /\ (worker.up \/ LossComes(g))

(* A submission or residence command the coordinator waits for, queued or    *)
(* answered, is in the mailbox of the process the dispatch is bound to; this *)
(* process will answer, or its loss ends the command.                        *)
CommandsAttended ==
    \A d \in Registered : dispatches[d].effect.kind \in MailboxKinds => Attended(dispatches[d].gen)

LaneAttended ==
    /\ lane.state = "Ready" => lane.gen # 0
    /\ lane.gen # 0 => Attended(lane.gen)
AttendInv == CustodyInv /\ LaneAttended /\ CommandsAttended

(* What a step leaves of it: a record does not come by a mailbox command,    *)
Attends(r, s) ==
    s.effect.kind \in MailboxKinds => r.effect.kind \in MailboxKinds /\ s.gen = r.gen
RecordsAttend ==
    \A d \in Registered' : d \in Registered /\ Attends(dispatches[d], dispatches'[d])
(* the lane stays with its process,                                          *)
LaneStays ==
    /\ lane'.gen = lane.gen
    /\ lane'.state = "Ready" => lane.gen # 0
(* which stays as it is or whose loss is sent.                               *)
ProcessStays ==
    /\ worker'.gen = worker.gen
    /\ worker.up => worker'.up \/ LossComes(worker.gen)'
    /\ \A e \in Range(wire) : e.type = "Unavailable" => e \in Range(wire)'

(* Such a step keeps the lane attended                                       *)
LEMMA LaneKeeps ==
    ASSUME AttendInv, LaneStays, ProcessStays
    PROVE  LaneAttended' /\ \A g : Attended(g) => Attended(g)'
<1>1. ASSUME NEW g, Attended(g)
      PROVE  Attended(g)'
  BY <1>1 DEF Attended, LaneStays, ProcessStays, LossComes
<1>2. lane.gen # 0 => Attended(lane.gen)
  BY DEF AttendInv, LaneAttended
<1>3. PICK g : g = lane.gen
  OBVIOUS
<1>4. lane'.gen = g /\ (g # 0 => Attended(g)')
  BY <1>1, <1>2, <1>3 DEF LaneStays
<1> QED BY <1>1, <1>3, <1>4 DEF LaneAttended, LaneStays

(* and the commands.                                                         *)
LEMMA AttendKeeps ==
    ASSUME AttendInv, LaneStays, ProcessStays, RecordsAttend
    PROVE  LaneAttended' /\ CommandsAttended'
<1>1. LaneAttended' /\ \A g : Attended(g) => Attended(g)'
  BY LaneKeeps
<1>2. ASSUME NEW d \in Registered', dispatches'[d].effect.kind \in MailboxKinds
      PROVE  Attended(dispatches[d].gen)'
  <2>1. PICK g : g = dispatches'[d].gen
    OBVIOUS
  <2>2. d \in Registered /\ dispatches[d].effect.kind \in MailboxKinds /\ dispatches[d].gen = g
    BY <1>2, <2>1 DEF RecordsAttend, Attends
  <2>3. Attended(g)
    BY <2>2 DEF AttendInv, CommandsAttended
  <2> QED BY <1>1, <2>1, <2>3
<1> QED BY <1>1, <1>2 DEF CommandsAttended

(* Mild changes, the loss of an effect and other effects attend.             *)
LEMMA MildAttends ==
    ASSUME NEW r, NEW s, Mild(r, s)
    PROVE  Attends(r, s)
BY DEF Mild, Attends, MailboxKinds

(* A step that changes one record,                                           *)
LEMMA UpdateAttends ==
    ASSUME NEW d \in Registered, NEW s, Update(d, s), Attends(dispatches[d], s)
    PROVE  RecordsAttend
<1>1. /\ Registered' = Registered /\ dispatches'[d] = s
      /\ \A e \in Registered : e # d => dispatches'[e] = dispatches[e]
  BY UpdateGives
<1>2. \A e \in Registered : e # d => Attends(dispatches[e], dispatches'[e])
  BY <1>1 DEF Attends
<1> QED BY <1>1, <1>2 DEF RecordsAttend

(* none,                                                                     *)
LEMMA SameAttends ==
    ASSUME dispatches' = dispatches
    PROVE  RecordsAttend
BY DEF RecordsAttend, Attends, Registered

(* or forgets one.                                                           *)
LEMMA RemoveAttends ==
    ASSUME NEW d \in Registered, RemoveDispatch(d)
    PROVE  RecordsAttend
<1>1. /\ Registered' = Registered \ {d}
      /\ \A e \in Registered : e # d => dispatches'[e] = dispatches[e]
  BY RemoveGives
<1> QED BY <1>1 DEF RecordsAttend, Attends

(* The lane of a dispatch that is cleared has a process.                     *)
LEMMA ClearStays ==
    ASSUME AttendInv, NEW r, NEW d, lane' = lane \/ lane' = ClearWorkerIdentity(r, d)
    PROVE  LaneStays
<1>1. lane \in [gen : {0} \cup Generations, submitting : {0} \cup Ids, active : {0} \cup Ids,
                state : {"none", "Ready", "Submitting", "Active", "Draining"}]
  BY DEF AttendInv, CustodyInv, CoordinatorTypeOK, ActorTypeOK
<1>2. lane.state = "Ready" => lane.gen # 0
  BY DEF AttendInv, LaneAttended
<1>3. CASE lane' = lane
  BY <1>2, <1>3 DEF LaneStays
<1>4. CASE lane' = ClearWorkerIdentity(r, d)
  BY <1>1, <1>2, <1>4 DEF LaneStays, ClearWorkerIdentity
<1> QED BY <1>3, <1>4

(* MaybeRetire changes the record or forgets it.                             *)
LEMMA RetireAttends ==
    ASSUME AttendInv, NEW d \in Registered, NEW s, MaybeRetire(d, s), Attends(dispatches[d], s)
    PROVE  RecordsAttend /\ LaneStays
<1>1. CASE ReadyToRetire(s)
  BY <1>1, RemoveAttends, ClearStays DEF MaybeRetire
<1>2. CASE ~ReadyToRetire(s)
  BY <1>2, UpdateAttends, ClearStays DEF MaybeRetire
<1> QED BY <1>1, <1>2

(* The process stays when the actor handles something,                       *)
LEMMA HandlerLeaves ==
    ASSUME AttendInv, WireKeeps, wire' = wire \/ Head(wire).type # "Unavailable",
           NEW g, worker' \in {worker, Retire(worker, g)}
    PROVE  ProcessStays
<1>1. /\ worker \in [gen : Generations, up : BOOLEAN, retire : BOOLEAN, dispatch : {0} \cup Ids,
                     items : [Items -> ItemStates], done : BOOLEAN]
      /\ wire \in Seq(EventRecord)
  BY DEF AttendInv, CustodyInv, CoordinatorTypeOK, WorkerTypeOK
<1>2. worker'.gen = worker.gen /\ worker'.up = worker.up
  BY <1>1 DEF Retire
<1>3. CASE wire' = wire
  BY <1>2, <1>3 DEF ProcessStays
<1>4. CASE wire # <<>> /\ wire' = Tail(wire) /\ Head(wire).type # "Unavailable"
  <2>1. ASSUME NEW e \in Range(wire), e.type = "Unavailable"
        PROVE  e \in Range(wire)'
    <3>1. PICK i \in 1 .. Len(wire) : wire[i] = e
      BY <1>1 DEF Range
    <3>2. i # 1
      BY <1>1, <1>4, <2>1, <3>1
    <3>3. i - 1 \in 1 .. Len(wire') /\ wire'[i - 1] = e /\ wire' \in Seq(EventRecord)
      BY <1>1, <1>4, <3>1, <3>2
    <3> QED BY <3>3 DEF Range
  <2> QED BY <1>2, <2>1 DEF ProcessStays
<1> QED BY <1>3, <1>4 DEF WireKeeps

(* and when the worker sends something.                                      *)
LEMMA SendLeaves ==
    ASSUME AttendInv, NEW e \in EventRecord, wire' = Append(wire, e), worker'.gen = worker.gen,
           worker'.up = worker.up \/ (e.type = "Unavailable" /\ e.gen = worker.gen)
    PROVE  ProcessStays
<1>1. wire \in Seq(EventRecord)
  BY DEF AttendInv, CustodyInv, CoordinatorTypeOK, WorkerTypeOK
<1>2. /\ wire' \in Seq(EventRecord) /\ Len(wire') = Len(wire) + 1 /\ Len(wire) \in Nat
      /\ wire'[Len(wire) + 1] = e /\ \A i \in 1 .. Len(wire) : wire'[i] = wire[i]
  BY <1>1
<1>3. e \in Range(wire)'
  BY <1>2 DEF Range
<1>4. ASSUME NEW x \in Range(wire)
      PROVE  x \in Range(wire)'
  <2>1. PICK i \in 1 .. Len(wire) : wire[i] = x
    BY <1>1 DEF Range
  <2>2. i \in 1 .. Len(wire') /\ wire'[i] = x
    BY <1>2, <2>1
  <2> QED BY <1>2, <2>2 DEF Range
<1> QED BY <1>3, <1>4 DEF ProcessStays, LossComes

StillAttended == LaneAttended /\ CommandsAttended

(* A handler that keeps records and lane keeps the invariant.                *)
LEMMA HandlerAttends ==
    ASSUME AttendInv, wire' = wire, NEW g, worker' \in {worker, Retire(worker, g)}, LaneStays, RecordsAttend
    PROVE  StillAttended'
<1>1. ProcessStays
  BY HandlerLeaves DEF WireKeeps
<1> QED BY <1>1, AttendKeeps DEF StillAttended

(* It does so when it changes one record.                                    *)
LEMMA ChangeAttends ==
    ASSUME AttendInv, UNCHANGED <<lane, wire>>, NEW g, worker' \in {worker, Retire(worker, g)},
           NEW d \in Registered, NEW s, Update(d, s), Attends(dispatches[d], s)
    PROVE  StillAttended'
BY UpdateAttends, ClearStays, HandlerAttends

(* A step of the others leaves records and lane alone.                       *)
LEMMA OthersAttend ==
    ASSUME AttendInv, UNCHANGED <<dispatches, lane>>, ProcessStays
    PROVE  StillAttended'
BY SameAttends, ClearStays, AttendKeeps DEF StillAttended

(* Records are typed.                                                        *)
LEMMA AttendedTyped ==
    ASSUME AttendInv, NEW d \in Registered
    PROVE  dispatches[d] \in DispatchRecord
BY DEF AttendInv, CustodyInv, CoordinatorTypeOK, ActorTypeOK

(* An effect of another kind, or of the same, attends.                       *)
LEMMA EffectAttends ==
    ASSUME NEW r \in DispatchRecord, NEW e, e.kind \in MailboxKinds => r.effect.kind \in MailboxKinds
    PROVE  Attends(r, [r EXCEPT !.effect = e])
BY DEF Attends, DispatchRecord

(* So does an answer.                                                        *)
LEMMA AnswerAttends ==
    ASSUME NEW r \in DispatchRecord, NEW at
    PROVE  Attends(r, [r EXCEPT !.effect.at = at])
<1> DEFINE e == [r.effect EXCEPT !.at = at]
<1>1. e.kind = r.effect.kind
  BY DEF DispatchRecord, Effect, NoEffect
<1>2. [r EXCEPT !.effect.at = at] = [r EXCEPT !.effect = e]
  BY DEF DispatchRecord
<1> HIDE DEF e
<1> QED BY <1>1, <1>2, EffectAttends

(* A change that keeps effect and process attends.                           *)
LEMMA SameCommandAttends ==
    ASSUME NEW r, NEW s, s.effect = r.effect \/ s.effect.kind \notin MailboxKinds, s.gen = r.gen
    PROVE  Attends(r, s)
BY DEF Attends

(* An effect that ends is none of the mailbox's.                             *)
LEMMA OtherKinds ==
    /\ NoEffect.kind \notin MailboxKinds
    /\ \A k : Begin(k).kind = k /\ Retry(k).kind = k
    /\ "Activation" \notin MailboxKinds /\ "Release" \notin MailboxKinds
    /\ "MarkDraining" \notin MailboxKinds /\ "Reconstruction" \notin MailboxKinds
BY DEF NoEffect, Begin, Retry, MailboxKinds

-----------------------------------------------------------------------------
(* The steps of a dispatch *)

(* The answers of the database lane and of the mailbox.                      *)
LEMMA AnswersAttend ==
    ASSUME AttendInv, NEW d \in Registered,
           Reconstruct(d) \/ ReconstructionFails(d) \/ ConfirmResidence(d) \/ HandleResidenceCompletion(d)
           \/ CoordinationIo(d) \/ CoordinationIoFails(d) \/ RetryActivation(d)
    PROVE  StillAttended'
<1> DEFINE r == dispatches[d]
<1>1. r \in DispatchRecord
  BY AttendedTyped
<1>2. UNCHANGED <<lane, wire>> /\ worker' \in {worker, Retire(worker, r.gen)}
  BY DEF Reconstruct, ReconstructionFails, ConfirmResidence, HandleResidenceCompletion, CoordinationIo,
     CoordinationIoFails, RetryActivation
<1>3. ASSUME NEW s, Update(d, s), Attends(r, s)
      PROVE  StillAttended'
  BY <1>2, <1>3, ChangeAttends
<1>4. CASE Reconstruct(d)
  <2>1. PICK s : s = [r EXCEPT !.effect = NoEffect, !.life = "Prepared"]
    OBVIOUS
  <2>2. s.effect = NoEffect /\ Update(d, s)
    BY <1>1, <1>4, <2>1 DEF DispatchRecord, Reconstruct
  <2> QED BY <1>3, <2>2, OtherKinds DEF Attends
<1>5. CASE ReconstructionFails(d)
  BY <1>1, <1>3, <1>5, EffectAttends, OtherKinds DEF ReconstructionFails
<1>6. CASE ConfirmResidence(d)
  BY <1>1, <1>3, <1>6, AnswerAttends DEF ConfirmResidence
<1>7. CASE HandleResidenceCompletion(d)
  <2>1. PICK e \in {NoEffect, Begin("Activation")} : Update(d, [r EXCEPT !.effect = e])
    BY <1>7 DEF HandleResidenceCompletion
  <2> QED BY <1>1, <1>3, <2>1, EffectAttends, OtherKinds
<1>8. CASE CoordinationIo(d) \/ CoordinationIoFails(d)
  <2>1. PICK at : Update(d, [r EXCEPT !.effect.at = at])
    BY <1>8 DEF CoordinationIo, CoordinationIoFails
  <2> QED BY <1>1, <1>3, <2>1, AnswerAttends
<1>9. CASE RetryActivation(d)
  BY <1>1, <1>3, <1>9, EffectAttends, OtherKinds DEF RetryActivation
<1> QED BY <1>4, <1>5, <1>6, <1>7, <1>8, <1>9

(* The admission binds a submission to the lane's process, which is there.   *)
LEMMA AdmitAttends ==
    ASSUME AttendInv, NEW d \in Registered, AdmitPreparedDispatch(d)
    PROVE  StillAttended'
<1> DEFINE r == dispatches[d]
           g == lane.gen
           frozen == r.items \cap index
           bound == [r EXCEPT !.gen = g, !.suppressed = frozen]
           begun == Begin("Submission")
           s == [bound EXCEPT !.effect = begun]
<1>1. r \in DispatchRecord
  BY AttendedTyped
<1>2. /\ r.effect = NoEffect /\ lane.state = "Ready" /\ UNCHANGED <<worker, wire>>
      /\ (Update(d, bound) /\ lane' = lane) \/ Update(d, s)
      /\ lane' \in {lane, [lane EXCEPT !.submitting = d, !.state = "Submitting"]}
  BY DEF AdmitPreparedDispatch
<1>3. Attended(g)
  BY <1>2 DEF AttendInv, LaneAttended
<1>4. LaneStays
  BY <1>2, <1>3 DEF LaneStays, Attended, AttendInv, CustodyInv, CoordinatorTypeOK, ActorTypeOK
<1>5. ProcessStays
  BY <1>2, HandlerLeaves DEF WireKeeps
<1>6. LaneAttended' /\ Attended(lane.gen)'
  BY <1>3, <1>4, <1>5, LaneKeeps DEF LaneStays
<1>7. PICK h : h = g /\ Attended(h)'
  BY <1>3, <1>4, <1>5, LaneKeeps
<1> HIDE DEF begun, frozen, g
<1>8. bound.effect = NoEffect /\ s.gen = g
  BY <1>1, <1>2 DEF DispatchRecord
<1> HIDE DEF bound, s
<1>9. CASE Update(d, bound) /\ lane' = lane
  <2>1. Attends(r, bound)
    BY <1>8, OtherKinds DEF Attends
  <2> QED BY <1>2, <1>9, <2>1, ChangeAttends
<1>10. CASE Update(d, s)
  <2>1. /\ Registered' = Registered /\ dispatches'[d] = s
        /\ \A e \in Registered : e # d => dispatches'[e] = dispatches[e]
    BY <1>10, UpdateGives
  <2>2. ASSUME NEW e \in Registered, e # d, dispatches'[e].effect.kind \in MailboxKinds
        PROVE  Attended(dispatches[e].gen)'
    <3>1. PICK i : i = dispatches[e].gen /\ dispatches'[e].gen = i
      BY <2>1, <2>2
    <3>2. Attended(i)
      BY <2>1, <2>2, <3>1 DEF AttendInv, CommandsAttended
    <3> QED BY <1>4, <1>5, <3>1, <3>2, LaneKeeps
  <2>3. Attended(dispatches[d].gen)'
    BY <1>7, <1>8, <2>1
  <2>4. CommandsAttended'
    BY <2>1, <2>2, <2>3 DEF CommandsAttended
  <2> QED BY <1>6, <2>4 DEF StillAttended
<1> QED BY <1>2, <1>9, <1>10

(* A submission ends without owner or goes on with the same process.         *)
LEMMA SubmissionAttends ==
    ASSUME AttendInv, NEW d \in Registered, SubmitWorksetToWorker(d) \/ HandleSubmissionCompletion(d)
    PROVE  StillAttended'
<1> DEFINE r == dispatches[d]
<1>1. r \in DispatchRecord /\ d \in Ids
  BY AttendedTyped DEF AttendInv, CustodyInv, CoordinatorTypeOK, ActorTypeOK
<1>2. CASE SubmitWorksetToWorker(d)
  <2>1. PICK at : Update(d, [r EXCEPT !.effect.at = at])
    BY <1>2 DEF SubmitWorksetToWorker
  <2>2. UNCHANGED <<lane, wire>> /\ worker' \in {worker, AcceptWorkset(d)}
    BY <1>2 DEF SubmitWorksetToWorker
  <2>3. worker'.gen = worker.gen /\ worker'.up = worker.up
    BY <1>1, <2>2, AcceptedTyped DEF AttendInv, CustodyInv
  <2>4. ProcessStays
    BY <2>2, <2>3 DEF ProcessStays
  <2>5. Attends(r, [r EXCEPT !.effect.at = at])
    BY <1>1, AnswerAttends
  <2> QED BY <2>1, <2>2, <2>4, <2>5, UpdateAttends, ClearStays, AttendKeeps DEF StillAttended
<1>3. CASE HandleSubmissionCompletion(d)
  <2> DEFINE e == Begin(IF r.effect.at = "written" THEN "Activation" ELSE "Residence")
             s == [r EXCEPT !.own = "MayOwn", !.life = "Prepared", !.effect = e]
             t == [r EXCEPT !.life = "Prepared", !.effect = NoEffect, !.gen = 0, !.suppressed = {}]
  <2>1. r.effect.kind = "Submission" /\ UNCHANGED <<worker, wire>> /\ (Update(d, s) \/ Update(d, t))
    BY <1>3 DEF HandleSubmissionCompletion
  <2>2. lane.gen # 0
    BY <2>1 DEF AttendInv, CommandsAttended, Attended, MailboxKinds
  <2>3. LaneStays
    BY <1>3, <2>2 DEF LaneStays, HandleSubmissionCompletion, AttendInv, CustodyInv, CoordinatorTypeOK, ActorTypeOK
  <2> HIDE DEF e
  <2>4. s.gen = r.gen /\ t.effect = NoEffect
    BY <1>1 DEF DispatchRecord
  <2> HIDE DEF s, t
  <2>5. Attends(r, s) /\ Attends(r, t)
    BY <2>1, <2>4, OtherKinds DEF Attends, MailboxKinds
  <2>6. RecordsAttend
    BY <2>1, <2>5, UpdateAttends
  <2> QED BY <2>1, <2>3, <2>6, HandlerAttends
<1> QED BY <1>2, <1>3

(* The end of the activation,                                                *)
LEMMA ActivationAttends ==
    ASSUME AttendInv, NEW d \in Registered, HandleActivationIoCompletion(d)
    PROVE  StillAttended'
<1> DEFINE r == dispatches[d]
           idle == [r EXCEPT !.effect = NoEffect]
           again == Retry("Activation")
<1>1. r \in DispatchRecord /\ wire' = wire
  BY AttendedTyped DEF HandleActivationIoCompletion
<1>2. \/ /\ Update(d, ContinueContainment(idle))
         /\ worker' \in {worker, Retire(worker, r.gen)} /\ UNCHANGED lane
      \/ Update(d, [r EXCEPT !.effect = again]) /\ UNCHANGED <<lane, worker>>
      \/ Activated(d)
  BY DEF HandleActivationIoCompletion
<1>3. CASE Update(d, ContinueContainment(idle)) /\ worker' \in {worker, Retire(worker, r.gen)} /\ UNCHANGED lane
  <2>1. idle \in DispatchRecord /\ idle.effect = NoEffect
    BY <1>1 DEF DispatchRecord, Effect
  <2> HIDE DEF idle
  <2>2. Attends(idle, ContinueContainment(idle))
    BY <2>1, ContainmentMild, MildAttends
  <2>3. Attends(r, ContinueContainment(idle))
    BY <2>1, <2>2, OtherKinds DEF Attends
  <2> QED BY <1>1, <1>3, <2>3, ChangeAttends
<1>4. CASE Update(d, [r EXCEPT !.effect = again]) /\ UNCHANGED <<lane, worker>>
  <2>1. Attends(r, [r EXCEPT !.effect = again])
    BY <1>1, EffectAttends, OtherKinds
  <2> QED BY <1>1, <1>4, <2>1, ChangeAttends
<1>5. CASE Activated(d)
  <2> DEFINE life == IF r.observed THEN "Draining" ELSE "Active"
             active == [r EXCEPT !.own = "Worker", !.effect = NoEffect, !.pending = {}, !.life = life]
             flushed == IF Overflows(stream[d], stream[d].buffered) THEN ReleaseDispatch(active, FALSE)
                        ELSE active
             after == IF r.observed THEN MarkDispatchDraining(flushed) ELSE flushed
             s == ContinueContainment(after)
  <2>1. Update(d, s) /\ UNCHANGED worker
    BY <1>5 DEF Activated
  <2>2. NoEffect \in Effect /\ life \in {"Draining", "Active"}
    BY DEF Effect
  <2> HIDE DEF life
  <2>3. active \in DispatchRecord /\ active.effect = NoEffect
    BY <1>1, <2>2 DEF DispatchRecord
  <2> HIDE DEF active
  <2>4. flushed \in DispatchRecord /\ Mild(active, flushed)
    <3>1. Mild(active, active)
      BY DEF Mild
    <3> QED BY <2>3, <3>1, ReleaseTyped, ReleaseMild
  <2> HIDE DEF flushed
  <2>5. after \in DispatchRecord /\ Mild(active, after)
    BY <2>4, DrainingTyped, DrainingMild, MildMild
  <2> HIDE DEF after
  <2>6. Attends(active, s)
    BY <2>5, ContainmentMild, MildMild, MildAttends
  <2> HIDE DEF s
  <2>7. Attends(r, s)
    BY <2>3, <2>6, OtherKinds DEF Attends
  <2>8. LaneStays
    BY <1>5 DEF Activated, LaneStays, AttendInv, LaneAttended, CustodyInv, CoordinatorTypeOK, ActorTypeOK
  <2>9. RecordsAttend
    BY <2>1, <2>7, UpdateAttends
  <2> QED BY <1>1, <2>1, <2>8, <2>9, HandlerAttends
<1> QED BY <1>2, <1>3, <1>4, <1>5

(* of the draining mark                                                      *)
LEMMA DrainingAttends ==
    ASSUME AttendInv, NEW d \in Registered, HandleDrainingIoCompletion(d)
    PROVE  StillAttended'
<1> DEFINE r == dispatches[d]
           idle == [r EXCEPT !.effect = NoEffect]
           again == Retry("MarkDraining")
           b == idle.drained \/ (r.own = "Worker" /\ r.life = "Draining")
           marked == [idle EXCEPT !.drained = b]
<1>1. r \in DispatchRecord /\ UNCHANGED <<worker, wire>>
  BY AttendedTyped DEF HandleDrainingIoCompletion
<1>2. idle \in DispatchRecord /\ idle.effect = NoEffect
  BY <1>1 DEF DispatchRecord, Effect
<1>3. [idle EXCEPT !.drained = @ \/ (r.own = "Worker" /\ r.life = "Draining")] = marked
  BY <1>2 DEF DispatchRecord
<1>4. \/ Update(d, [r EXCEPT !.effect = again]) /\ lane' = lane
      \/ MaybeRetire(d, marked)
      \/ Update(d, idle) /\ lane' = lane
  BY <1>3 DEF HandleDrainingIoCompletion
<1>5. Attends(r, [r EXCEPT !.effect = again]) /\ Attends(r, idle)
  BY <1>1, EffectAttends, OtherKinds
<1> HIDE DEF idle, b
<1>6. marked.effect = NoEffect
  BY <1>2 DEF DispatchRecord
<1> HIDE DEF marked
<1>7. Attends(r, marked)
  BY <1>6, OtherKinds DEF Attends
<1>8. CASE MaybeRetire(d, marked)
  BY <1>1, <1>7, <1>8, RetireAttends, HandlerAttends
<1> QED BY <1>1, <1>4, <1>5, <1>8, ChangeAttends

(* and of the release,                                                       *)
LEMMA ReleaseAttends ==
    ASSUME AttendInv, NEW d \in Registered, HandleReleaseIoCompletion(d)
    PROVE  StillAttended'
<1> DEFINE r == dispatches[d]
           again == Retry("Release")
           closed == [r EXCEPT !.own = "Closed", !.effect = NoEffect, !.released = TRUE, !.contain = "none"]
<1>1. r \in DispatchRecord /\ UNCHANGED <<worker, wire>>
  BY AttendedTyped DEF HandleReleaseIoCompletion
<1>2. /\ lane' \in {lane, ClearWorkerIdentity(r, d)}
      /\ Update(d, [r EXCEPT !.effect = again]) \/ Update(d, closed) \/ RemoveDispatch(d)
  BY DEF HandleReleaseIoCompletion
<1>3. LaneStays
  BY <1>2, ClearStays
<1>4. Attends(r, [r EXCEPT !.effect = again])
  BY <1>1, EffectAttends, OtherKinds
<1>5. closed.effect = NoEffect
  BY <1>1 DEF DispatchRecord
<1> HIDE DEF closed
<1>6. Attends(r, closed)
  BY <1>5, OtherKinds DEF Attends
<1>7. RecordsAttend
  BY <1>2, <1>4, <1>6, UpdateAttends, RemoveAttends
<1> QED BY <1>1, <1>3, <1>7, HandlerAttends

(* the draining that was put off, and the containment.                       *)
LEMMA ContainmentAttends ==
    ASSUME AttendInv, NEW d \in Registered, ProcessPendingDrainingTransitions(d) \/ ProcessContainment(d)
    PROVE  StillAttended'
<1> DEFINE r == dispatches[d]
<1>1. r \in DispatchRecord
  BY AttendedTyped
<1>2. CASE ProcessPendingDrainingTransitions(d)
  <2>1. UNCHANGED <<lane, worker, wire>> /\ Update(d, MarkDispatchDraining(r))
    BY <1>2 DEF ProcessPendingDrainingTransitions
  <2> QED BY <1>1, <2>1, DrainingMild, MildAttends, ChangeAttends
<1>3. CASE ProcessContainment(d)
  <2>1. /\ UNCHANGED <<lane, wire>> /\ worker' \in {worker, Retire(worker, r.gen)}
        /\ Update(d, ContinueContainment(r))
    BY <1>3 DEF ProcessContainment
  <2> QED BY <1>1, <2>1, ContainmentMild, MildAttends, ChangeAttends
<1> QED BY <1>2, <1>3

(* All of these together.                                                    *)
LEMMA DispatchAttends ==
    ASSUME AttendInv, NEW d \in Registered, DispatchStep(d)
    PROVE  StillAttended'
BY AnswersAttend, AdmitAttends, SubmissionAttends, ActivationAttends, DrainingAttends, ReleaseAttends,
   ContainmentAttends DEF DispatchStep

-----------------------------------------------------------------------------
(* Faults, events and evidence *)

(* A fault that is applied,                                                  *)
LEMMA FaultAttends ==
    ASSUME AttendInv, NEW d \in Ids, ApplyFaultDispatch(d)
    PROVE  StillAttended'
<1>1. CASE d \notin Registered
  BY <1>1, SameAttends, ClearStays, HandlerAttends DEF ApplyFaultDispatch
<1>2. CASE d \in Registered
  <2> DEFINE r == dispatches[d]
             retire == r.own \in {"MayOwn", "Worker"}
             c == IF retire THEN "retire" ELSE "release"
             f == [r EXCEPT !.life = "Faulted", !.keep = retire, !.contain = c]
  <2>1. r \in DispatchRecord
    BY <1>2, AttendedTyped
  <2>2. /\ Update(d, ContinueContainment(f)) /\ UNCHANGED <<lane, wire>>
        /\ worker' \in {worker, Retire(worker, r.gen)}
    BY <1>2 DEF ApplyFaultDispatch
  <2>3. retire \in BOOLEAN /\ c \in {"retire", "release"}
    OBVIOUS
  <2> HIDE DEF retire, c
  <2>4. f \in DispatchRecord /\ f.effect = r.effect /\ f.gen = r.gen
    BY <2>1, <2>3 DEF DispatchRecord
  <2> HIDE DEF f
  <2>5. Attends(f, ContinueContainment(f))
    BY <2>4, ContainmentMild, MildAttends
  <2>6. Attends(r, ContinueContainment(f))
    BY <2>4, <2>5 DEF Attends
  <2> QED BY <1>2, <2>2, <2>6, ChangeAttends
<1> QED BY <1>1, <1>2

(* evidence beyond the limit,                                                *)
LEMMA RouteAttends ==
    ASSUME AttendInv, RoutePersistenceEvent
    PROVE  StillAttended'
<1>1. /\ UNCHANGED <<lane, worker>> /\ WireKeeps /\ Head(wire).type # "Unavailable"
      /\ \/ dispatches' = dispatches
         \/ \E d \in Registered : Update(d, ReleaseDispatch(dispatches[d], FALSE))
  BY DEF RoutePersistenceEvent, WireKeeps, Arrives
<1>2. ProcessStays
  BY <1>1, HandlerLeaves
<1>3. RecordsAttend
  BY <1>1, SameAttends, AttendedTyped, ReleaseMild, MildAttends, UpdateAttends
<1> QED BY <1>1, <1>2, <1>3, ClearStays, AttendKeeps DEF StillAttended

(* the report of a completed workset,                                        *)
LEMMA WorksetStateAttends ==
    ASSUME AttendInv, HandleWorksetState
    PROVE  StillAttended'
<1> DEFINE d == Head(wire).dispatch
           r == dispatches[d]
           x == IF r.own = "Worker" /\ r.life = "Active" THEN "Draining" ELSE r.life
           s == [r EXCEPT !.observed = TRUE, !.life = x]
<1>1. LaneStays
  BY DEF HandleWorksetState, LaneStays, AttendInv, LaneAttended, CustodyInv, CoordinatorTypeOK, ActorTypeOK
<1>2. /\ UNCHANGED worker /\ WireKeeps /\ Head(wire).type # "Unavailable"
      /\ dispatches' = dispatches \/ (d \in Registered /\ Update(d, s))
  BY DEF HandleWorksetState, WireKeeps, Arrives
<1>3. ProcessStays
  BY <1>2, HandlerLeaves
<1>4. CASE d \in Registered /\ Update(d, s)
  <2>1. r \in DispatchRecord /\ Update(d, s)
    BY <1>4, AttendedTyped
  <2> HIDE DEF x
  <2>2. s.effect = r.effect /\ s.gen = r.gen
    BY <2>1 DEF DispatchRecord
  <2> HIDE DEF s
  <2>3. RecordsAttend
    BY <1>4, <2>1, <2>2, SameCommandAttends, UpdateAttends
  <2> QED BY <1>1, <1>3, <2>3, AttendKeeps DEF StillAttended
<1> QED BY <1>1, <1>2, <1>3, <1>4, SameAttends, AttendKeeps DEF StillAttended

(* and evidence that was stored, summaries, acknowledgements and receipts.   *)
LEMMA RetiringAttends ==
    ASSUME AttendInv, UNCHANGED <<worker, wire>>,
           \/ dispatches' = dispatches /\ lane' = lane
           \/ \E d \in Registered : \E s :
                /\ s.effect = dispatches[d].effect /\ s.gen = dispatches[d].gen
                /\ \/ MaybeRetire(d, s)
                   \/ RemoveDispatch(d) /\ lane' = ClearWorkerIdentity(s, d)
    PROVE  StillAttended'
<1>1. RecordsAttend /\ LaneStays
  <2>1. CASE dispatches' = dispatches /\ lane' = lane
    BY <2>1, SameAttends, ClearStays
  <2>2. ASSUME NEW d \in Registered, NEW s, s.effect = dispatches[d].effect, s.gen = dispatches[d].gen,
               MaybeRetire(d, s)
        PROVE  RecordsAttend /\ LaneStays
    BY <2>2, SameCommandAttends, RetireAttends
  <2>3. ASSUME NEW d \in Registered, NEW s, RemoveDispatch(d), lane' = ClearWorkerIdentity(s, d)
        PROVE  RecordsAttend /\ LaneStays
    BY <2>3, RemoveAttends, ClearStays
  <2> QED BY <2>1, <2>2, <2>3
<1> QED BY <1>1, HandlerAttends

(* The evidence that was stored;                                             *)
LEMMA PersistedAttends ==
    ASSUME AttendInv, NEW d \in Ids, HandlePersisted(d)
    PROVE  StillAttended'
<1> DEFINE e == EvidenceOf(d)
           r == dispatches[d]
           x == r.staged \cup {e.job}
           s == [r EXCEPT !.staged = x]
<1>1. /\ d \in Registered /\ UNCHANGED <<worker, wire>>
      /\ \/ dispatches' = dispatches /\ lane' = lane
         \/ MaybeRetire(d, s)
  BY DEF HandlePersisted, RoutedToOwner
<1>2. r \in DispatchRecord
  BY <1>1, AttendedTyped
<1> HIDE DEF x
<1>3. s.effect = r.effect /\ s.gen = r.gen
  BY <1>2 DEF DispatchRecord
<1> HIDE DEF s
<1> QED BY <1>1, <1>3, RetiringAttends

(* a summary;                                                                *)
LEMMA SummaryAttends ==
    ASSUME AttendInv, NEW d \in Ids, HandleWorksetSummary(d)
    PROVE  StillAttended'
<1> DEFINE r == dispatches[d]
           s == [r EXCEPT !.summary = TRUE]
<1>1. UNCHANGED <<worker, wire>>
      /\ ((dispatches' = dispatches /\ lane' = lane) \/ (d \in Registered /\ MaybeRetire(d, s)))
  BY DEF HandleWorksetSummary
<1>2. d \in Registered => s.effect = r.effect /\ s.gen = r.gen
  BY AttendedTyped DEF DispatchRecord
<1> HIDE DEF s
<1> QED BY <1>1, <1>2, RetiringAttends

(* an acknowledgement that the worker took;                                  *)
LEMMA ControlAttends ==
    ASSUME AttendInv, NEW c \in controls, HandleWorkerControlCompletion(c)
    PROVE  StillAttended'
<1> DEFINE d == c.dispatch
           r == dispatches[d]
           x == r.acked \cup {c.job}
           s == [r EXCEPT !.acked = x]
<1>1. UNCHANGED <<worker, wire>>
      /\ ((dispatches' = dispatches /\ lane' = lane) \/ (d \in Registered /\ MaybeRetire(d, s)))
  BY DEF HandleWorkerControlCompletion
<1> HIDE DEF x
<1>2. d \in Registered => s.effect = r.effect /\ s.gen = r.gen
  BY AttendedTyped DEF DispatchRecord
<1> HIDE DEF s
<1> QED BY <1>1, <1>2, RetiringAttends

(* the receipt of a cancellation.                                            *)
LEMMA ReceiptAttends ==
    ASSUME AttendInv, NEW m \in mutations, ApplyCancellationMutationReceipts(m)
    PROVE  StillAttended'
<1> DEFINE d == m.dispatch
           r == dispatches[d]
           x == r.persisted \cup {m.job}
           s == [r EXCEPT !.persisted = x]
<1>1. UNCHANGED <<worker, wire>>
      /\ \/ dispatches' = dispatches /\ lane' = lane
         \/ d \in Registered /\ RemoveDispatch(d) /\ lane' = ClearWorkerIdentity(s, d)
         \/ d \in Registered /\ MaybeRetire(d, s)
  BY DEF ApplyCancellationMutationReceipts
<1> HIDE DEF x
<1>2. d \in Registered => s.effect = r.effect /\ s.gen = r.gen
  BY AttendedTyped DEF DispatchRecord
<1> HIDE DEF s
<1> QED BY <1>1, <1>2, RetiringAttends

-----------------------------------------------------------------------------
(* The process and the mailbox *)

(* The loss of a process ends what was in its mailbox.                       *)
LEMMA UnavailableAttends ==
    ASSUME AttendInv, HandleWorkerUnavailable
    PROVE  StillAttended'
<1>1. /\ wire # <<>> /\ wire' = Tail(wire) /\ worker' = worker
      /\ wire \in Seq(EventRecord)
  BY DEF HandleWorkerUnavailable, Arrives, AttendInv, CustodyInv, CoordinatorTypeOK, WorkerTypeOK
<1>2. PICK g : /\ g = Head(wire).gen
               /\ dispatches' = [d \in Registered |->
                     IF dispatches[d].gen = g THEN Lost(dispatches[d]) ELSE dispatches[d]]
               /\ lane' = IF lane.gen = g THEN NoLane ELSE lane
  BY DEF HandleWorkerUnavailable
<1>3. Registered' = Registered
  BY <1>2 DEF Registered
<1>4. ASSUME NEW h, h # g, Attended(h)
      PROVE  Attended(h)'
  <2>1. lane'.gen = h /\ worker'.gen = h /\ h # 0
    BY <1>1, <1>2, <1>4 DEF Attended
  <2>2. ASSUME NEW e \in Range(wire), e.type = "Unavailable", e.gen = h
        PROVE  e \in Range(wire)'
    <3>1. PICK i \in 1 .. Len(wire) : wire[i] = e
      BY <1>1 DEF Range
    <3>2. i # 1
      BY <1>1, <1>2, <1>4, <2>2, <3>1
    <3>3. i - 1 \in 1 .. Len(wire') /\ wire'[i - 1] = e /\ wire' \in Seq(EventRecord)
      BY <1>1, <3>1, <3>2
    <3> QED BY <3>3 DEF Range
  <2> QED BY <1>1, <1>4, <2>1, <2>2 DEF Attended, LossComes
<1>5. ASSUME NEW d \in Registered, dispatches'[d].effect.kind \in MailboxKinds
      PROVE  Attended(dispatches[d].gen)'
  <2> DEFINE r == dispatches[d]
             e == IF r.effect.kind \in {"Submission", "Residence"} THEN NoEffect ELSE r.effect
  <2>1. r \in DispatchRecord
    BY AttendedTyped
  <2>2. r.gen # g
    <3>1. SUFFICES ASSUME r.gen = g PROVE FALSE
      OBVIOUS
    <3>2. PICK s : s = Lost(r) /\ dispatches'[d] = s
      BY <1>2, <3>1
    <3>3. s.effect = e \/ s.effect = Begin("Release")
      BY <2>1, <3>2, LostKeeps
    <3> QED BY <1>5, <3>2, <3>3, OtherKinds DEF MailboxKinds
  <2>3. PICK h : h = r.gen /\ dispatches'[d] = r
    BY <1>2, <2>2
  <2>4. Attended(h)
    BY <1>5, <2>3 DEF AttendInv, CommandsAttended
  <2> QED BY <1>4, <2>2, <2>3, <2>4
<1>6. LaneAttended'
  <2>1. CASE lane.gen = g
    BY <1>2, <2>1 DEF LaneAttended, NoLane
  <2>2. CASE lane.gen # g
    <3>1. PICK h : h = lane.gen /\ lane' = lane
      BY <1>2, <2>2
    <3>2. (lane.state = "Ready" => h # 0) /\ (h # 0 => Attended(h))
      BY <3>1 DEF AttendInv, LaneAttended
    <3> QED BY <1>4, <2>2, <3>1, <3>2 DEF LaneAttended
  <2> QED BY <2>1, <2>2
<1> QED BY <1>3, <1>5, <1>6 DEF StillAttended, CommandsAttended

(* The next process finds no command, for nothing was attended.              *)
LEMMA ReadyAttends ==
    ASSUME AttendInv, HandleWorkerReady
    PROVE  StillAttended'
<1>1. /\ dispatches' = dispatches /\ ~worker.up /\ wire = <<>>
      /\ worker' = [worker EXCEPT !.gen = @ + 1, !.up = TRUE, !.retire = FALSE]
      /\ lane' = ReadyLane(worker.gen + 1)
  BY DEF HandleWorkerReady
<1>2. worker.gen \in Nat /\ worker'.gen = worker.gen + 1 /\ worker'.up
  BY <1>1 DEF AttendInv, CustodyInv, CoordinatorTypeOK, WorkerTypeOK, Generations
<1>3. \A g : ~Attended(g)
  BY <1>1 DEF Attended, LossComes, Range
<1>4. \A d \in Registered : dispatches[d].effect.kind \notin MailboxKinds
  BY <1>3 DEF AttendInv, CommandsAttended
<1>5. CommandsAttended'
  BY <1>1, <1>4 DEF CommandsAttended, Registered
<1>6. lane'.gen = worker.gen + 1
  BY <1>1 DEF ReadyLane
<1>7. LaneAttended'
  BY <1>2, <1>6 DEF LaneAttended, Attended
<1> QED BY <1>5, <1>7 DEF StillAttended

(* The process works and dies,                                               *)
LEMMA WorkerAttends ==
    ASSUME AttendInv, WorkerStep \/ WorkerDies
    PROVE  StillAttended'
<1>1. UNCHANGED <<dispatches, lane>>
  BY DEF WorkerStep, WorkerDies, StartItem, EndItem, CompleteWorkset, SummariseWorkset, coordinatorVars
<1>2. worker \in [gen : Generations, up : BOOLEAN, retire : BOOLEAN, dispatch : {0} \cup Ids,
                  items : [Items -> ItemStates], done : BOOLEAN]
  BY DEF AttendInv, CustodyInv, CoordinatorTypeOK, WorkerTypeOK
<1>3. worker'.gen = worker.gen
  BY <1>2 DEF WorkerStep, WorkerDies, StartItem, EndItem, CompleteWorkset, SummariseWorkset
<1>4. PICK type \in {"Started", "Terminal", "Completed", "Summary", "Unavailable"}, j \in {0} \cup Items :
         /\ wire' = Append(wire, Event(type, j, FALSE))
         /\ type = "Unavailable" \/ worker'.up = worker.up
  <2>1. CASE \E j \in Items : StartItem(j) \/ EndItem(j)
    <3>1. PICK j \in Items, type \in {"Started", "Terminal"}, x \in {"running", "ended"} :
             worker' = [worker EXCEPT !.items[j] = x] /\ wire' = Append(wire, Event(type, j, FALSE))
      BY <2>1 DEF StartItem, EndItem, Send
    <3> QED BY <1>2, <3>1
  <2>2. CASE CompleteWorkset
    BY <1>2, <2>2 DEF CompleteWorkset, Send
  <2>3. CASE SummariseWorkset
    BY <1>2, <2>3 DEF SummariseWorkset, Send
  <2>4. CASE WorkerDies
    BY <2>4 DEF WorkerDies, Send
  <2> QED BY <2>1, <2>2, <2>3, <2>4 DEF WorkerStep
<1> DEFINE e == Event(type, j, FALSE)
<1>5. e \in EventRecord /\ e.gen = worker.gen /\ e.type = type
  BY <1>2 DEF Event, EventRecord
<1> HIDE DEF e
<1>6. ProcessStays
  BY <1>3, <1>4, <1>5, SendLeaves DEF e
<1> QED BY <1>1, <1>6, OthersAttend

(* and takes its commands.                                                   *)
LEMMA CommandsLeave ==
    ASSUME AttendInv, NEW c \in controls, ExecuteAcknowledge(c) \/ CancelWorksetItem(c)
    PROVE  StillAttended'
<1>1. UNCHANGED <<dispatches, lane>>
  BY DEF ExecuteAcknowledge, CancelWorksetItem
<1>2. worker \in [gen : Generations, up : BOOLEAN, retire : BOOLEAN, dispatch : {0} \cup Ids,
                  items : [Items -> ItemStates], done : BOOLEAN] /\ c.job \in Items
  BY DEF AttendInv, CustodyInv, CoordinatorTypeOK, WorkerTypeOK, QueuesTypeOK
<1>3. /\ worker' \in {worker, [worker EXCEPT !.items[c.job] = "acked"], [worker EXCEPT !.items[c.job] = "ended"]}
      /\ wire' = wire \/ wire' = Append(wire, Event("Terminal", c.job, TRUE))
  BY DEF ExecuteAcknowledge, CancelWorksetItem, Send, workerVars
<1>4. worker'.gen = worker.gen /\ worker'.up = worker.up
  BY <1>2, <1>3
<1>5. CASE wire' = wire
  <2>1. ProcessStays
    BY <1>4, <1>5 DEF ProcessStays
  <2> QED BY <1>1, <2>1, OthersAttend
<1>6. CASE wire' = Append(wire, Event("Terminal", c.job, TRUE))
  <2>1. Event("Terminal", c.job, TRUE) \in EventRecord
    BY <1>2 DEF Event, EventRecord
  <2>2. ProcessStays
    BY <1>4, <1>6, <2>1, SendLeaves
  <2> QED BY <1>1, <2>2, OthersAttend
<1> QED BY <1>3, <1>5, <1>6

-----------------------------------------------------------------------------
(* Claims, cancellations, the shutdown and the others *)

(* A claimed dispatch comes without a mailbox command.                       *)
LEMMA ClaimCompletionAttends ==
    ASSUME AttendInv, HandleClaimIoCompletion
    PROVE  StillAttended'
<1> DEFINE d == job[CHOOSE j \in claim.items : TRUE].dispatch
           r == NewDispatch(claim.items)
           begun == Begin("Reconstruction")
           t == [r EXCEPT !.effect = begun]
           s == IF IsDispatchAdmissionPaused THEN ReleaseDispatch(r, FALSE) ELSE t
<1>1. /\ UNCHANGED <<lane, worker, wire>>
      /\ dispatches' = [e \in Registered \cup {d} |-> IF e # d THEN dispatches[e] ELSE s]
  BY DEF HandleClaimIoCompletion
<1> HIDE DEF d
<1>2. r \in DispatchRecord /\ r.effect = NoEffect
  BY NewDispatchTyped DEF AttendInv, CustodyInv, CoordinatorTypeOK, ActorTypeOK
<1> HIDE DEF r, begun
<1>3. s.effect.kind \notin MailboxKinds
  <2>1. CASE s = ReleaseDispatch(r, FALSE)
    <3>1. Mild(r, s)
      BY <1>2, <2>1, ReleaseMild
    <3>2. Attends(r, s)
      BY <3>1, MildAttends
    <3> HIDE DEF s
    <3> QED BY <1>2, <3>2, OtherKinds DEF Attends
  <2>2. CASE s = t
    <3>1. t.effect = begun
      BY <1>2 DEF DispatchRecord
    <3> HIDE DEF s, t
    <3> QED BY <2>2, <3>1, OtherKinds DEF begun
  <2> QED BY <2>1, <2>2
<1> HIDE DEF s
<1>4. LaneStays /\ ProcessStays
  BY <1>1, ClearStays DEF ProcessStays
<1>5. LaneAttended' /\ \A g : Attended(g) => Attended(g)'
  BY <1>4, LaneKeeps
<1>6. ASSUME NEW e \in Registered', dispatches'[e].effect.kind \in MailboxKinds
      PROVE  Attended(dispatches[e].gen)'
  <2>1. PICK g : g = dispatches'[e].gen
    OBVIOUS
  <2>2. e \in Registered /\ dispatches'[e] = dispatches[e]
    BY <1>1, <1>3, <1>6 DEF Registered
  <2>3. Attended(g)
    BY <1>6, <2>1, <2>2 DEF AttendInv, CommandsAttended
  <2> QED BY <1>5, <2>1, <2>3
<1> QED BY <1>5, <1>6 DEF StillAttended, CommandsAttended

(* The registration of a cancellation notes it in a record,                  *)
LEMMA RegisterAttends ==
    ASSUME AttendInv, NEW j \in Items, RegisterCommittedCancellations(j)
    PROVE  StillAttended'
<1>1. /\ UNCHANGED <<lane, worker, wire>>
      /\ \/ \E d \in Containing(j) : TellDispatch(d, j)
         \/ dispatches' = dispatches
  BY DEF RegisterCommittedCancellations
<1>2. RecordsAttend
  <2>1. ASSUME NEW d \in Containing(j), TellDispatch(d, j)
        PROVE  RecordsAttend
    <3> DEFINE r == dispatches[d]
               s == [r EXCEPT !.pending = @ \cup {j}]
    <3>1. d \in Registered
      BY DEF Containing
    <3>2. r \in DispatchRecord
      BY <3>1, AttendedTyped
    <3>3. dispatches' = dispatches \/ Update(d, s)
      BY <2>1 DEF TellDispatch, Update
    <3>4. s.effect = r.effect /\ s.gen = r.gen
      BY <3>2 DEF DispatchRecord
    <3> HIDE DEF s
    <3>5. Attends(r, s)
      BY <3>4, SameCommandAttends
    <3> QED BY <3>1, <3>3, <3>5, UpdateAttends, SameAttends
  <2> QED BY <1>1, <2>1, SameAttends
<1>3. LaneStays
  BY <1>1, ClearStays
<1> QED BY <1>1, <1>2, <1>3, HandlerAttends

(* and the begin of the shutdown stops what is not yet claimed for good.     *)
LEMMA BeginShutdownAttends ==
    ASSUME AttendInv, BeginShutdown
    PROVE  StillAttended'
<1>1. /\ UNCHANGED <<lane, worker, wire>>
      /\ dispatches' = [d \in Registered |->
                        IF dispatches[d].effect = Begin("Reconstruction")
                        THEN [dispatches[d] EXCEPT !.effect = NoEffect, !.life = "Faulted"]
                        ELSE dispatches[d]]
  BY DEF BeginShutdown
<1>2. Registered' = Registered
  BY <1>1 DEF Registered
<1>3. ASSUME NEW d \in Registered
      PROVE  Attends(dispatches[d], dispatches'[d])
  <2> DEFINE r == dispatches[d]
             s == [r EXCEPT !.effect = NoEffect, !.life = "Faulted"]
  <2>1. r \in DispatchRecord
    BY AttendedTyped
  <2>2. s.effect = NoEffect
    BY <2>1 DEF DispatchRecord
  <2>3. dispatches'[d] = r \/ dispatches'[d] = s
    BY <1>1
  <2> HIDE DEF s
  <2> QED BY <2>2, <2>3, OtherKinds DEF Attends
<1>4. RecordsAttend
  BY <1>2, <1>3 DEF RecordsAttend
<1>5. LaneStays
  BY <1>1, ClearStays
<1> QED BY <1>1, <1>4, <1>5, HandlerAttends

(* The steps that leave records, lane and process alone.                     *)
AloofStep ==
    \/ ScheduleClaim \/ ClaimIo \/ ClaimFails \/ ClearInvariantPause
    \/ \E d \in Ids : DiscardEvidence(d) \/ BeginPersistence(d) \/ PersistWorkerEvent(d)
    \/ \E m \in mutations : MutateJobCancellation(m)
    \/ \E j \in Items : CommitCancellation(j)
    \/ FinishShutdownAfterWorkersStopped \/ ProcessShutdown \/ ShutdownRecovery
    \/ UNCHANGED vars

(* They leave everything attended; the recovery forgets all records.         *)
LEMMA AloofAttends ==
    ASSUME AttendInv, AloofStep
    PROVE  StillAttended'
<1>1. UNCHANGED <<lane, worker, wire>>
  BY DEF AloofStep, ScheduleClaim, ClaimIo, ClaimFails, ClearInvariantPause, DiscardEvidence, BeginPersistence,
         PersistWorkerEvent, MutateJobCancellation, CommitCancellation, FinishShutdownAfterWorkersStopped,
         ProcessShutdown, ShutdownRecovery, vars
<1>2. dispatches' \in {dispatches, <<>>}
  BY DEF AloofStep, ScheduleClaim, ClaimIo, ClaimFails, ClearInvariantPause, DiscardEvidence, BeginPersistence,
         PersistWorkerEvent, MutateJobCancellation, CommitCancellation, FinishShutdownAfterWorkersStopped,
         ProcessShutdown, ShutdownRecovery, vars
<1>3. RecordsAttend
  BY <1>2, SameAttends DEF RecordsAttend, Registered
<1> QED BY <1>1, <1>3, ClearStays, HandlerAttends

(* The invariant is inductive,                                               *)
LEMMA AttendNext == AttendInv /\ [Next]_vars => AttendInv'
<1> SUFFICES ASSUME AttendInv, [Next]_vars PROVE AttendInv'
  OBVIOUS
<1>1. CustodyInv'
  BY CustodyNext DEF AttendInv
<1>2. StillAttended'
  <2>1. CASE ClaimStep
    BY <2>1, ClaimCompletionAttends, AloofAttends DEF ClaimStep, AloofStep
  <2>2. CASE \E d \in Registered : DispatchStep(d)
    BY <2>2, DispatchAttends
  <2>3. CASE \E d \in Ids : EvidenceStep(d) \/ ApplyFaultDispatch(d)
    BY <2>3, FaultAttends, PersistedAttends, SummaryAttends, AloofAttends DEF EvidenceStep, AloofStep
  <2>4. CASE WorkerEventStep
    BY <2>4, RouteAttends, WorksetStateAttends, UnavailableAttends DEF WorkerEventStep
  <2>5. CASE ControlStep
    BY <2>5, ControlAttends, CommandsLeave DEF ControlStep
  <2>6. CASE CancellationStep
    BY <2>6, RegisterAttends, ReceiptAttends, AloofAttends DEF CancellationStep, AloofStep
  <2>7. CASE ShutdownStep
    BY <2>7, AloofAttends DEF ShutdownStep, AloofStep
  <2>8. CASE WorkerStep \/ WorkerDies
    BY <2>8, WorkerAttends
  <2>9. CASE HandleWorkerReady
    BY <2>9, ReadyAttends
  <2>10. CASE BeginShutdown
    BY <2>10, BeginShutdownAttends
  <2>11. CASE (\E j \in Items : CommitCancellation(j)) \/ ClearInvariantPause \/ UNCHANGED vars
    BY <2>11, AloofAttends DEF AloofStep
  <2> QED BY <2>1, <2>2, <2>3, <2>4, <2>5, <2>6, <2>7, <2>8, <2>9, <2>10, <2>11 DEF Next
<1> QED BY <1>1, <1>2 DEF AttendInv, StillAttended

(* and holds initially, when the first process is up.                        *)
LEMMA AttendInit == Init => AttendInv
<1> SUFFICES ASSUME Init PROVE AttendInv
  OBVIOUS
<1>1. Registered = {} /\ lane.gen = 1 /\ worker.gen = 1 /\ worker.up
  BY DEF Init, Registered, ReadyLane
<1>2. LaneAttended /\ CommandsAttended
  BY <1>1 DEF LaneAttended, CommandsAttended, Attended
<1> QED BY <1>2, CustodyInit DEF AttendInv

(* No handler waits for an answer that nobody will give: a submission or a   *)
(* residence command whose effect is pending is in the mailbox of the very   *)
(* process the dispatch is bound to, and this process is up or the message   *)
(* of its loss, which ends the command, is still to be handled.  Without it  *)
(* the shutdown, which waits for every effect, would never recover.          *)
THEOREM SpecCommandsAttended == Spec => []CommandsAttended
<1>1. AttendInv => CommandsAttended
  BY DEF AttendInv
<1> QED BY <1>1, AttendInit, AttendNext, PTL DEF Spec
=============================================================================
