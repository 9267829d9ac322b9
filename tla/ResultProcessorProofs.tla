------------------------- MODULE ResultProcessorProofs -------------------------
(***************************************************************************)
(* What holds of ResultProcessor for every set of jobs, every batch size   *)
(* and any number of faults, restarts and crashes: no claimed result is    *)
(* lost silently, no result is finalized twice, no committed cancellation  *)
(* is unknown to the coordinator while it may dispatch, no hold outlives   *)
(* its finalization, and every finalization is announced once committed.   *)
(*                                                                         *)
(* The argument follows a finalization through the pipeline of the two     *)
(* threads: the batch the finalization thread has taken, and the queue     *)
(* behind it. A job is in one place at a time (OnePlace), because a        *)
(* campaign claims only when the pipeline of the one before is empty       *)
(* (CampaignOver), for which the one that is waited for has to be the last *)
(* of the pipeline (Awaited).                                              *)
(***************************************************************************)
EXTENDS ResultProcessor, TLAPS, SequenceTheorems, LeastElement

(* The finalizations under way, in the order in which they are reported:   *)
(* the first Taken of them are the batch.                                  *)
Pipeline == batch \o queue
Size == Len(Pipeline)
Taken == Len(batch)

(* The processor has been told to stop, or has died. *)
Halted == Stopping \/ runtime = "crashed"

(* The coordinator's actor serves its queue. *)
Live == runtime \notin {"actorStop", "actorGone", "stop", "notified", "down", "crashed"}

(* The cancellations of the first of the batch are in the index. *)
Delivered == finalizer = "deliver" /\ rendezvous["finalizer"] = "returned"

ProcessorTypes ==
    /\ row \in [Jobs -> {"none", "PENDING", "PROCESSING", "PROCESSED", "EXHAUSTED"}]
    /\ request \in [Jobs -> Jobs \cup {NoJob}]
    /\ claimed \subseteq Jobs
    /\ current \subseteq Items
    /\ queue \in Seq(Items)
    /\ batch \in Seq(Items)
    /\ holds \in [Jobs -> SUBSET Jobs]
    /\ rendezvous \in [Threads -> {"idle", "enqueue", "queued", "blocked", "returned"}]

(* Where the loop thread is tells what it has in hand. *)
LoopPlaces ==
    /\ \A a, b \in current : a = b
    /\ current # {} <=> loop \in {"hold", "push", "await", "awaiting"}
    /\ claimed # {} => loop \in {"start", "process", "hold", "push", "await", "awaiting"}
    /\ \A item \in current : /\ item.job \notin claimed
                             /\ item.retry => item.targets = {}
                             /\ loop # "push" => item.targets # {}
    /\ loop # "hold" => rendezvous["loop"] = "idle"
    /\ loop = "start" => finalizer = "wait" /\ runtime \in {"starting", "crashed"}

(* Where the finalization thread is tells what it has in hand. *)
FinalizerPlaces ==
    /\ finalizer \in {"wait", "done"} => Taken = 0
    /\ finalizer \in {"commit", "failed"} => applied = {}
    /\ finalizer = "failed" => error
    /\ finalizer # "deliver" => rendezvous["finalizer"] = "idle"
    /\ finalizer = "deliver" =>
          Taken # 0 /\ Pipeline[1].job \in applied /\ Pipeline[1].targets # {}

(* A job is in one place: no two finalizations are of the same result. *)
OnePlace ==
    /\ \A p, q \in 1 .. Size : Pipeline[p].job = Pipeline[q].job => p = q
    /\ \A p \in 1 .. Size : Pipeline[p].job \notin claimed
    /\ loop \in {"hold", "push"} =>
          \A item \in current, p \in 1 .. Size : Pipeline[p].job # item.job

(* What is in hand is PROCESSING until its finalization is applied. *)
Undecided ==
    /\ \A j \in claimed : row[j] = "PROCESSING"
    /\ loop \in {"hold", "push"} => \A item \in current : row[item.job] = "PROCESSING"
    /\ \A p \in 1 .. Size :
          p > Taken \/ Pipeline[p].job \notin applied => row[Pipeline[p].job] = "PROCESSING"

(* What was applied is finalized, or on its way to run again. *)
Decided ==
    \A p \in 1 .. Taken :
        Pipeline[p].job \in applied =>
            /\ Pipeline[p].retry => row[Pipeline[p].job] \in {"none", "PENDING", "EXHAUSTED"}
            /\ ~ Pipeline[p].retry => row[Pipeline[p].job] = "PROCESSED"

(* A campaign begins when the one before is over. *)
CampaignOver ==
    /\ loop \in {"wait", "blocking", "asleep"} => Size = 0 \/ Halted
    /\ loop \in {"claim", "start"} => Size = 0

(* The finalization that is waited for is the last of the pipeline. *)
Awaited ==
    loop \in {"await", "awaiting"} =>
        /\ result = "none" => Size # 0 /\ Pipeline[Size] \in current
        /\ result # "none" => Size = 0
        /\ result = "ok" => \A item \in current : row[item.job] = "PROCESSED"

(* A finalization that can be rejected is waited for. *)
Noticed ==
    /\ \A p \in 1 .. Size : /\ Pipeline[p].retry => Pipeline[p].targets = {}
                            /\ Pipeline[p].targets # {} => Pipeline[p] \in current \/ error
    /\ finalizer \in {"report", "deliver"} =>
          \A p \in 1 .. Taken :
             Pipeline[p].job \notin applied => Pipeline[p].targets # {} \/ error

(* The holds of the jobs in hand: none before the rendezvous, and that of  *)
(* the finalization from there until its cancellations are in the index.   *)
Held ==
    /\ \A j \in Jobs : row[j] \in {"none", "PENDING"} \/ j \in claimed => holds[j] = {}
    /\ loop = "hold" /\ rendezvous["loop"] # "returned" =>
          \A item \in current : holds[item.job] = {}
    /\ loop \in {"hold", "push"} => \A item \in current : holds[item.job] \in {{}, item.targets}
    /\ Live /\ (loop = "push" \/ (loop = "hold" /\ rendezvous["loop"] = "returned")) =>
          \A item \in current : holds[item.job] = item.targets
    /\ \A p \in 1 .. Size : holds[Pipeline[p].job] \in {{}, Pipeline[p].targets}
    /\ Live => \A p \in 1 .. Size :
                  ~ (p = 1 /\ Delivered) => holds[Pipeline[p].job] = Pipeline[p].targets
    /\ Live /\ Delivered =>
          holds[Pipeline[1].job] = {} /\ Pipeline[1].targets \subseteq indexed

(* A requested cancellation is in the index or under a hold. *)
Covered ==
    Live => \A t \in Jobs : request[t] # NoJob => t \in indexed \/ \E j \in Jobs : t \in holds[j]

(* A hold is that of a finalization that is undecided or being reported. *)
HeldUndecided ==
    Live => \A j \in Jobs : holds[j] # {} =>
                row[j] = "PROCESSING" \/ \E p \in 1 .. Taken : Pipeline[p].job = j

Announced ==
    /\ announced \subseteq InState("PROCESSED")
    /\ \A j \in Jobs : row[j] = "PROCESSED" =>
          j \in announced \/ \E p \in 1 .. Taken : Pipeline[p].job = j

NotLost ==
    \A j \in Jobs : row[j] = "PROCESSING" =>
        \/ j \in claimed \/ \E item \in current : item.job = j
        \/ \E p \in 1 .. Size : Pipeline[p].job = j
        \/ error \/ Halted

(* The inductive invariant. *)
ProcessorInv ==
    /\ ProcessorTypes
    /\ LoopPlaces /\ FinalizerPlaces
    /\ OnePlace /\ Undecided /\ Decided
    /\ CampaignOver /\ Awaited /\ Noticed
    /\ Held /\ Covered /\ HeldUndecided
    /\ Announced /\ NotLost

-----------------------------------------------------------------------------
(* The pipeline *)

(* The pipeline is the batch and the queue behind it. *)
LEMMA PipelineFacts ==
    ASSUME batch \in Seq(Items), queue \in Seq(Items)
    PROVE  /\ Taken \in Nat /\ Size \in Nat /\ Taken <= Size
           /\ Size = Taken + Len(queue) /\ Len(queue) \in Nat
           /\ \A p \in 1 .. Size : Pipeline[p] \in Items
           /\ \A p \in 1 .. Taken : Pipeline[p] = batch[p]
           /\ \A p \in 1 .. Len(queue) : Pipeline[Taken + p] = queue[p]
           /\ batch = <<>> <=> Taken = 0
           /\ batch # <<>> => Head(batch) = Pipeline[1]
           /\ queue = <<>> <=> Size = Taken
  <1>1. Taken \in Nat /\ Len(queue) \in Nat
    BY LenProperties DEF Taken
  <1>2. Pipeline \in Seq(Items) /\ Size = Taken + Len(queue)
    BY ConcatProperties DEF Pipeline, Size, Taken
  <1>3. /\ \A p \in 1 .. Taken : Pipeline[p] = batch[p]
        /\ \A p \in 1 .. Len(queue) : Pipeline[Taken + p] = queue[p]
    BY <1>1 DEF Pipeline, Taken
  <1>4. \A p \in 1 .. Size : Pipeline[p] \in Items
    BY <1>2, ElementOfSeq DEF Size
  <1>5. (batch = <<>> <=> Taken = 0) /\ (queue = <<>> <=> Len(queue) = 0)
    BY EmptySeq DEF Taken
  <1>6. batch # <<>> => Head(batch) = Pipeline[1]
    BY <1>1, <1>3, <1>5, HeadTailProperties DEF Taken
  <1> QED BY <1>1, <1>2, <1>3, <1>4, <1>5, <1>6

(* The items of the invariant are about jobs. *)
LEMMA ItemFacts ==
    ASSUME ProcessorTypes
    PROVE  /\ Taken \in Nat /\ Size \in Nat /\ Taken <= Size
           /\ \A p \in 1 .. Size : Pipeline[p].job \in Jobs /\ Pipeline[p].targets \subseteq Jobs
           /\ \A item \in current : item.job \in Jobs /\ item.targets \subseteq Jobs
  BY PipelineFacts DEF ProcessorTypes, Items

(* A step that leaves batch and queue alone leaves the pipeline alone. *)
LEMMA SamePipeline ==
    ASSUME UNCHANGED <<batch, queue>>
    PROVE  Pipeline' = Pipeline /\ Size' = Size /\ Taken' = Taken
  BY DEF Pipeline, Size, Taken

(* A finalization enters at the end of the pipeline. *)
LEMMA PipelinePush ==
    ASSUME batch \in Seq(Items), queue \in Seq(Items), UNCHANGED batch,
           NEW item \in Items, queue' = Append(queue, item)
    PROVE  /\ Taken' = Taken /\ Size' = Size + 1
           /\ \A p \in 1 .. Size : Pipeline'[p] = Pipeline[p]
           /\ Pipeline'[Size + 1] = item
           /\ \A p \in 1 .. Size' : p \in 1 .. Size \/ p = Size + 1
           /\ Size + 1 \in 1 .. Size'
  <1>1. /\ Taken \in Nat /\ Len(queue) \in Nat /\ Size = Taken + Len(queue)
        /\ \A p \in 1 .. Taken : Pipeline[p] = batch[p]
        /\ \A p \in 1 .. Len(queue) : Pipeline[Taken + p] = queue[p]
    BY PipelineFacts
  <1>2. /\ queue' \in Seq(Items) /\ Len(queue') = Len(queue) + 1
        /\ \A p \in 1 .. Len(queue) : queue'[p] = queue[p]
        /\ queue'[Len(queue) + 1] = item
    BY AppendProperties
  <1>3. Taken' = Taken /\ Size' = Taken + Len(queue')
    <2>1. Pipeline' = batch \o queue' /\ Len(batch \o queue') = Len(batch) + Len(queue')
      BY <1>2, ConcatProperties DEF Pipeline
    <2> QED BY <2>1 DEF Size, Taken
  <1>4. /\ \A p \in 1 .. Taken : Pipeline'[p] = batch[p]
        /\ \A p \in 1 .. Len(queue') : Pipeline'[Taken + p] = queue'[p]
    BY <1>1, <1>2 DEF Pipeline, Taken
  <1>5. ASSUME NEW p \in 1 .. Size
        PROVE  Pipeline'[p] = Pipeline[p]
    <2>1. CASE p \in 1 .. Taken
      BY <1>1, <1>4, <2>1
    <2>2. CASE p \notin 1 .. Taken
      <3> DEFINE i == p - Taken
      <3>1. i \in 1 .. Len(queue) /\ p = Taken + i /\ i \in 1 .. Len(queue')
        BY <1>1, <1>2, <2>2
      <3> HIDE DEF i
      <3> QED BY <1>1, <1>2, <1>4, <3>1
    <2> QED BY <2>1, <2>2
  <1>6. Pipeline'[Size + 1] = item
    <2>1. Size + 1 = Taken + (Len(queue) + 1) /\ Len(queue) + 1 \in 1 .. Len(queue')
      BY <1>1, <1>2
    <2> QED BY <1>2, <1>4, <2>1
  <1> QED BY <1>1, <1>2, <1>3, <1>5, <1>6

(* Taking a batch cuts the pipeline elsewhere. *)
LEMMA PipelineTake ==
    ASSUME batch \in Seq(Items), queue \in Seq(Items), Taken = 0, TakeBatch
    PROVE  /\ batch' \in Seq(Items) /\ queue' \in Seq(Items) /\ Taken' \in Nat /\ Taken' <= Size
           /\ Size' = Size /\ \A p \in 1 .. Size : Pipeline'[p] = Pipeline[p]
  <1> DEFINE c == IF Len(queue) < FinalizationBatch THEN Len(queue) ELSE FinalizationBatch
  <1>1. /\ Len(queue) \in Nat /\ Size = Len(queue)
        /\ \A p \in 1 .. Size : Pipeline[p] = queue[p]
    BY PipelineFacts
  <1>2. c \in Nat /\ c <= Len(queue)
    BY <1>1, ProcessorAssumption
  <1>3. batch' = SubSeq(queue, 1, c) /\ queue' = SubSeq(queue, c + 1, Len(queue))
    BY DEF TakeBatch
  <1> HIDE DEF c
  <1>4. /\ batch' \in Seq(Items) /\ Len(batch') = c
        /\ \A p \in 1 .. c : batch'[p] = queue[p]
    BY <1>1, <1>2, <1>3, SubSeqProperties
  <1>5. /\ queue' \in Seq(Items) /\ Len(queue') = Len(queue) - c
        /\ \A p \in 1 .. Len(queue) - c : queue'[p] = queue[c + p]
    BY <1>1, <1>2, <1>3, SubSeqProperties
  <1>6. Taken' = c /\ Size' = Size
    <2>1. Pipeline' = batch' \o queue' /\ Len(batch' \o queue') = Len(batch') + Len(queue')
      BY <1>4, <1>5, ConcatProperties DEF Pipeline
    <2> QED BY <1>1, <1>2, <1>4, <1>5, <2>1 DEF Size, Taken
  <1>7. /\ \A p \in 1 .. c : Pipeline'[p] = batch'[p]
        /\ \A p \in 1 .. Len(queue) - c : Pipeline'[c + p] = queue'[p]
    BY <1>1, <1>2, <1>4, <1>5 DEF Pipeline
  <1>8. ASSUME NEW p \in 1 .. Size
        PROVE  Pipeline'[p] = Pipeline[p]
    <2>1. CASE p \in 1 .. c
      BY <1>1, <1>4, <1>7, <2>1
    <2>2. CASE p \notin 1 .. c
      <3>1. p - c \in 1 .. Len(queue) - c /\ p = c + (p - c)
        BY <1>1, <1>2, <2>2
      <3> QED BY <1>1, <1>5, <1>7, <3>1
    <2> QED BY <2>1, <2>2
  <1> QED BY <1>1, <1>2, <1>4, <1>5, <1>6, <1>8

(* The report on the first of the batch shifts the pipeline. *)
LEMMA PipelineReport ==
    ASSUME batch \in Seq(Items), queue \in Seq(Items), batch # <<>>,
           batch' = Tail(batch), UNCHANGED queue
    PROVE  /\ batch' \in Seq(Items)
           /\ Taken' = Taken - 1 /\ Size' = Size - 1
           /\ \A p \in 1 .. Size - 1 : Pipeline'[p] = Pipeline[p + 1]
           /\ \A p \in 1 .. Size - 1 : p + 1 \in 1 .. Size /\ p + 1 # 1
           /\ \A p \in 1 .. Taken - 1 : p \in 1 .. Size - 1 /\ p + 1 \in 1 .. Taken
           /\ \A p \in 1 .. Size : p # 1 =>
                 p - 1 \in 1 .. Size - 1 /\ Pipeline'[p - 1] = Pipeline[p]
           /\ \A p \in 1 .. Taken : p # 1 => p - 1 \in 1 .. Taken - 1
           /\ 1 \in 1 .. Taken /\ 1 \in 1 .. Size
  <1>1. /\ Taken \in Nat /\ Taken # 0 /\ Len(queue) \in Nat /\ Size = Taken + Len(queue)
        /\ \A p \in 1 .. Taken : Pipeline[p] = batch[p]
        /\ \A p \in 1 .. Len(queue) : Pipeline[Taken + p] = queue[p]
    BY PipelineFacts
  <1>2. /\ batch' \in Seq(Items) /\ Len(batch') = Taken - 1
        /\ \A p \in 1 .. Taken - 1 : batch'[p] = batch[p + 1]
    BY HeadTailProperties DEF Taken
  <1>3. Taken' = Taken - 1 /\ Size' = Size - 1
    <2>1. Pipeline' = batch' \o queue /\ Len(batch' \o queue) = Len(batch') + Len(queue)
      BY <1>2, ConcatProperties DEF Pipeline
    <2> QED BY <1>1, <1>2, <2>1 DEF Size, Taken
  <1>4. /\ \A p \in 1 .. Taken - 1 : Pipeline'[p] = batch'[p]
        /\ \A p \in 1 .. Len(queue) : Pipeline'[Taken - 1 + p] = queue[p]
    <2>1. Pipeline' = batch' \o queue
      BY DEF Pipeline
    <2> QED BY <1>1, <1>2, <2>1
  <1>5. ASSUME NEW p \in 1 .. Size - 1
        PROVE  Pipeline'[p] = Pipeline[p + 1]
    <2>1. CASE p \in 1 .. Taken - 1
      <3>1. p + 1 \in 1 .. Taken
        BY <1>1, <2>1
      <3> QED BY <1>1, <1>2, <1>4, <2>1, <3>1
    <2>2. CASE p \notin 1 .. Taken - 1
      <3> DEFINE i == p - (Taken - 1)
      <3>1. i \in 1 .. Len(queue) /\ p = Taken - 1 + i /\ p + 1 = Taken + i
        BY <1>1, <2>2
      <3> HIDE DEF i
      <3> QED BY <1>1, <1>4, <3>1
    <2> QED BY <2>1, <2>2
  <1>6. ASSUME NEW p \in 1 .. Size, p # 1
        PROVE  p - 1 \in 1 .. Size - 1 /\ Pipeline'[p - 1] = Pipeline[p]
    <2>1. p - 1 \in 1 .. Size - 1 /\ (p - 1) + 1 = p
      BY <1>1, <1>6
    <2> QED BY <1>5, <2>1
  <1>7. /\ \A p \in 1 .. Size - 1 : p + 1 \in 1 .. Size /\ p + 1 # 1
        /\ \A p \in 1 .. Taken - 1 : p \in 1 .. Size - 1 /\ p + 1 \in 1 .. Taken
        /\ \A p \in 1 .. Taken : p # 1 => p - 1 \in 1 .. Taken - 1
        /\ 1 \in 1 .. Taken /\ 1 \in 1 .. Size
    BY <1>1
  <1> QED BY <1>2, <1>3, <1>5, <1>6, <1>7

-----------------------------------------------------------------------------
(* The transaction that commits a batch *)

Rows == {"none", "PENDING", "PROCESSING", "PROCESSED", "EXHAUSTED"}

Stores == [row : [Jobs -> Rows], request : [Jobs -> Jobs \cup {NoJob}], applied : SUBSET Jobs]

(* What the first n finalizations of the batch may have done to the store: *)
(* each was applied, or was rejected over one of its requests and left its *)
(* job alone; no request was replaced, and each new one is one of theirs.  *)
After(n, s) ==
    /\ s \in Stores
    /\ \A j \in Jobs : (\A p \in 1 .. n : batch[p].job # j) =>
                          s.row[j] = row[j] /\ j \notin s.applied
    /\ \A p \in 1 .. n :
          /\ batch[p].job \in s.applied =>
                /\ batch[p].retry => s.row[batch[p].job] \in {"none", "EXHAUSTED"}
                /\ ~ batch[p].retry => s.row[batch[p].job] = "PROCESSED"
          /\ batch[p].job \notin s.applied =>
                s.row[batch[p].job] = row[batch[p].job] /\ batch[p].targets # {}
    /\ \A t \in Jobs : request[t] # NoJob => s.request[t] = request[t]
    /\ \A t \in Jobs : s.request[t] # NoJob =>
          request[t] # NoJob \/ \E p \in 1 .. n : t \in batch[p].targets

(* One finalization more. *)
LEMMA FinalizeAfter ==
    ASSUME ProcessorTypes, OnePlace, NEW n \in 1 .. Len(batch), NEW s, After(n - 1, s),
           NEW b, NEW e
    PROVE  After(n, Finalize(s, batch[n], b, e))
  <1> DEFINE item == batch[n]
             f == Finalize(s, batch[n], b, e)
             free == {t \in item.targets : s.request[t] \in {NoJob, item.job}}
             rejected == free # item.targets
             entered == IF rejected THEN free \cap b ELSE item.targets
             outcome == IF ~ item.retry THEN "PROCESSED"
                        ELSE IF item.job \in e THEN "EXHAUSTED" ELSE "none"
  <1>1. n \in Nat /\ n - 1 \in Nat /\ Len(batch) \in Nat /\ Len(batch) <= Size /\ Size \in Nat
    BY PipelineFacts DEF ProcessorTypes, Taken
  <1>2. \A p \in 1 .. n : p \in 1 .. n - 1 \/ p = n
    BY <1>1
  <1>3. \A p \in 1 .. n : p \in 1 .. Size /\ batch[p] = Pipeline[p] /\ batch[p] \in Items
    BY <1>1, PipelineFacts DEF ProcessorTypes, Taken
  <1>4. /\ \A p \in 1 .. n : batch[p].job \in Jobs /\ batch[p].targets \subseteq Jobs
        /\ \A p \in 1 .. n - 1 : batch[p].job # item.job
    <2>1. \A p \in 1 .. n : batch[p].job \in Jobs /\ batch[p].targets \subseteq Jobs
      BY <1>3 DEF Items
    <2>2. \A p \in 1 .. n - 1 : p \in 1 .. n /\ n \in 1 .. n /\ p # n
      BY <1>1
    <2> QED BY <1>3, <2>1, <2>2 DEF OnePlace
  <1>5. /\ s \in Stores /\ s.row \in [Jobs -> Rows] /\ s.request \in [Jobs -> Jobs \cup {NoJob}]
        /\ s.applied \subseteq Jobs
    BY DEF After, Stores
  <1>6. item.job \in Jobs /\ item.targets \subseteq Jobs
    BY <1>1, <1>4
  <1>7. /\ f.row = IF rejected THEN s.row ELSE [s.row EXCEPT ![item.job] = outcome]
        /\ f.request = [t \in Jobs |-> IF t \in entered THEN item.job ELSE s.request[t]]
        /\ f.applied = IF rejected THEN s.applied ELSE s.applied \cup {item.job}
        /\ f = [row |-> f.row, request |-> f.request, applied |-> f.applied]
    BY DEF Finalize
  <1>8. outcome \in Rows /\ (item.retry => outcome \in {"none", "EXHAUSTED"})
        /\ (~ item.retry => outcome = "PROCESSED")
    BY DEF Rows
  <1>9. /\ entered \subseteq item.targets
        /\ \A t \in entered : s.request[t] \in {NoJob, item.job}
        /\ rejected => item.targets # {}
    OBVIOUS
  <1> HIDE DEF item, f, rejected, entered, outcome
  <1>10. f \in Stores
    <2>1. /\ f.row \in [Jobs -> Rows] /\ f.request \in [Jobs -> Jobs \cup {NoJob}]
          /\ f.applied \in SUBSET Jobs
      BY <1>5, <1>6, <1>7, <1>8
    <2> QED BY <1>7, <2>1 DEF Stores
  <1>11. item.job \notin s.applied /\ s.row[item.job] = row[item.job]
    BY <1>4, <1>6 DEF After
  <1>12. /\ rejected => f.row = s.row /\ f.applied = s.applied
         /\ ~ rejected => f.row[item.job] = outcome /\ item.job \in f.applied
         /\ \A j \in Jobs : j # item.job => /\ f.row[j] = s.row[j]
                                            /\ j \in f.applied <=> j \in s.applied
    BY <1>5, <1>6, <1>7
  <1>13. \A j \in Jobs : (\A p \in 1 .. n : batch[p].job # j) =>
                            f.row[j] = row[j] /\ j \notin f.applied
    <2> SUFFICES ASSUME NEW j \in Jobs, \A p \in 1 .. n : batch[p].job # j
                 PROVE  f.row[j] = row[j] /\ j \notin f.applied
      OBVIOUS
    <2>1. j # item.job /\ \A p \in 1 .. n - 1 : batch[p].job # j
      BY <1>1 DEF item
    <2> QED BY <1>12, <2>1 DEF After
  <1>14. ASSUME NEW p \in 1 .. n
         PROVE  /\ batch[p].job \in f.applied =>
                      /\ batch[p].retry => f.row[batch[p].job] \in {"none", "EXHAUSTED"}
                      /\ ~ batch[p].retry => f.row[batch[p].job] = "PROCESSED"
                /\ batch[p].job \notin f.applied =>
                      f.row[batch[p].job] = row[batch[p].job] /\ batch[p].targets # {}
    <2>1. CASE p \in 1 .. n - 1
      <3>1. batch[p].job \in Jobs /\ batch[p].job # item.job
        BY <1>4, <2>1
      <3> QED BY <1>12, <2>1, <3>1 DEF After
    <2>2. CASE p = n
      BY <1>8, <1>9, <1>11, <1>12, <2>2 DEF item
    <2> QED BY <1>2, <2>1, <2>2
  <1>15. \A t \in Jobs : request[t] # NoJob => f.request[t] = request[t]
    BY <1>7, <1>9 DEF After
  <1>16. ASSUME NEW t \in Jobs, f.request[t] # NoJob
         PROVE  request[t] # NoJob \/ \E p \in 1 .. n : t \in batch[p].targets
    <2>1. CASE t \in entered
      BY <1>1, <1>9, <2>1 DEF item
    <2>2. CASE t \notin entered
      <3>1. f.request[t] = s.request[t]
        BY <1>7, <2>2
      <3> QED BY <1>1, <1>16, <3>1 DEF After
    <2> QED BY <2>1, <2>2
  <1> QED BY <1>10, <1>13, <1>14, <1>15, <1>16 DEF After, f

(* The steps of the transaction on the first n items of the batch. *)
Transaction(n, before, exhausted, g) ==
    /\ g = [i \in 0 .. n |-> g[i]]
    /\ g[0] = [row |-> row, request |-> request, applied |-> {}]
    /\ \A i \in 1 .. n :
          g[i] = Finalize(g[i - 1], batch[i], {t \in Jobs : <<i, t>> \in before}, exhausted)

(* Every step of it does what After allows. *)
LEMMA TransactionAfter ==
    ASSUME ProcessorTypes, OnePlace, NEW before, NEW exhausted,
           NEW g, Transaction(Len(batch), before, exhausted, g)
    PROVE  After(Len(batch), g[Len(batch)])
  <1> DEFINE n == Len(batch)
             bad == {i \in 0 .. n : ~ After(i, g[i])}
  <1>0. n \in Nat
    BY LenProperties DEF ProcessorTypes
  <1> SUFFICES ASSUME bad # {} PROVE FALSE
    BY <1>0
  <1>1. PICK i \in bad : \A m \in bad : i <= m
    <2>1. bad \subseteq Nat
      BY <1>0
    <2> QED BY <2>1, LeastNat
  <1>2. i \in 0 .. n /\ i \in Nat /\ ~ After(i, g[i])
    BY <1>0, <1>1
  <1>3. After(0, g[0])
    <2>1. g[0] = [row |-> row, request |-> request, applied |-> {}]
      BY DEF Transaction
    <2>2. /\ g[0].row = row /\ g[0].request = request /\ g[0].applied = {}
          /\ g[0] \in Stores
      BY <2>1 DEF Stores, ProcessorTypes, Rows
    <2> QED BY <2>2 DEF After
  <1>4. i # 0
    BY <1>2, <1>3
  <1>5. i \in 1 .. n /\ i - 1 \in 0 .. n /\ i - 1 < i
    BY <1>0, <1>2, <1>4
  <1>6. After(i - 1, g[i - 1])
    BY <1>0, <1>1, <1>2, <1>5
  <1>7. g[i] = Finalize(g[i - 1], batch[i], {t \in Jobs : <<i, t>> \in before}, exhausted)
    BY <1>5 DEF Transaction
  <1>8. After(i, g[i])
    BY <1>5, <1>6, <1>7, FinalizeAfter
  <1> QED BY <1>2, <1>8

(* There is such a transaction on every prefix of the batch. *)
LEMMA TransactionExists ==
    ASSUME batch \in Seq(Items), NEW before, NEW exhausted
    PROVE  \E g : Transaction(Len(batch), before, exhausted, g)
  <1> DEFINE bad == {n \in Nat : ~ \E g : Transaction(n, before, exhausted, g)}
  <1> SUFFICES ASSUME bad # {} PROVE FALSE
    BY LenProperties
  <1>1. PICK n \in bad : \A m \in bad : n <= m
    BY LeastNat
  <1>2. n \in Nat /\ ~ \E g : Transaction(n, before, exhausted, g)
    BY <1>1
  <1> DEFINE start == [row |-> row, request |-> request, applied |-> {}]
  <1>3. n # 0
    <2> HIDE DEF start
    <2>1. [i \in 0 .. 0 |-> start][0] = start
      OBVIOUS
    <2>2. Transaction(0, before, exhausted, [i \in 0 .. 0 |-> start])
      BY <2>1 DEF Transaction, start
    <2> QED BY <1>2, <2>2
  <1>4. n - 1 \in Nat /\ n - 1 < n /\ n \in 1 .. n
    BY <1>2, <1>3
  <1>5. PICK g : Transaction(n - 1, before, exhausted, g)
    BY <1>1, <1>2, <1>4
  <1> DEFINE last == Finalize(g[n - 1], batch[n], {t \in Jobs : <<n, t>> \in before}, exhausted)
             h == [i \in 0 .. n |-> IF i = n THEN last ELSE g[i]]
  <1>6. Transaction(n, before, exhausted, h)
    <2> HIDE DEF last
    <2>1. h = [i \in 0 .. n |-> h[i]]
      OBVIOUS
    <2>2. h[n] = last /\ \A i \in 0 .. n - 1 : h[i] = g[i]
      BY <1>2
    <2>3. h[0] = start
      <3>1. g[0] = start
        BY <1>5 DEF Transaction
      <3>2. 0 \in 0 .. n - 1
        BY <1>4
      <3> HIDE DEF h, start
      <3> QED BY <2>2, <3>1, <3>2
    <2> HIDE DEF h
    <2>4. ASSUME NEW i \in 1 .. n
          PROVE  h[i] = Finalize(h[i - 1], batch[i], {t \in Jobs : <<i, t>> \in before}, exhausted)
      <3>1. i - 1 \in 0 .. n - 1 /\ h[i - 1] = g[i - 1]
        BY <1>2, <2>2
      <3>2. CASE i = n
        BY <2>2, <3>1, <3>2 DEF last
      <3>3. CASE i \in 1 .. n - 1
        <4>1. h[i] = g[i]
          BY <2>2, <3>3
        <4> QED BY <1>5, <3>1, <3>3, <4>1 DEF Transaction
      <3> QED BY <1>2, <3>2, <3>3
    <2> QED BY <2>1, <2>3, <2>4 DEF Transaction, start
  <1> QED BY <1>2, <1>6

(* What the transaction of a whole batch does. *)
LEMMA FinalizedAfter ==
    ASSUME ProcessorTypes, OnePlace, NEW before, NEW exhausted
    PROVE  After(Len(batch), Finalized(before, exhausted))
  <1> DEFINE n == Len(batch)
             start == [row |-> row, request |-> request, applied |-> {}]
             next(f, i) ==
               Finalize(f[i - 1], batch[i], {t \in Jobs : <<i, t>> \in before}, exhausted)
             after == CHOOSE f : f = [i \in 0 .. n |-> IF i = 0 THEN start ELSE next(f, i)]
  <1>0. n \in Nat
    BY LenProperties DEF ProcessorTypes
  <1>1. PICK g : Transaction(n, before, exhausted, g)
    BY TransactionExists DEF ProcessorTypes
  <1>2. g = [i \in 0 .. n |-> IF i = 0 THEN start ELSE next(g, i)]
    <2>1. g = [i \in 0 .. n |-> g[i]]
      BY <1>1 DEF Transaction
    <2>2. \A i \in 0 .. n : g[i] = IF i = 0 THEN start ELSE next(g, i)
      <3>1. g[0] = start /\ \A i \in 1 .. n : g[i] = next(g, i)
        BY <1>1 DEF Transaction
      <3>2. \A i \in 0 .. n : i = 0 \/ i \in 1 .. n
        BY <1>0
      <3> HIDE DEF start, next
      <3> QED BY <3>1, <3>2
    <2> HIDE DEF start, next
    <2> QED BY <2>1, <2>2
  <1>3. after = [i \in 0 .. n |-> IF i = 0 THEN start ELSE next(after, i)]
    <2> HIDE DEF start, next
    <2> QED BY <1>2
  <1>4. Transaction(n, before, exhausted, after)
    <2> HIDE DEF after
    <2>1. after = [i \in 0 .. n |-> after[i]]
      <3> HIDE DEF start, next
      <3> QED BY <1>3
    <2>2. after[0] = start /\ \A i \in 1 .. n : after[i] = next(after, i)
      <3>1. 0 \in 0 .. n /\ \A i \in 1 .. n : i \in 0 .. n /\ i # 0
        BY <1>0
      <3> HIDE DEF start, next
      <3> QED BY <1>3, <3>1
    <2> QED BY <2>1, <2>2 DEF Transaction
  <1>5. Finalized(before, exhausted) = after[n]
    BY DEF Finalized
  <1> HIDE DEF after
  <1> QED BY <1>4, <1>5, TransactionAfter

-----------------------------------------------------------------------------
(* The steps *)

(* The steps of the loop thread that only move it. *)
LoopMoves ==
    \/ EvaluateWait \/ FallAsleep \/ Wake \/ BatchHandled
    \/ EvaluateBarrier \/ BarrierNotified \/ StartThreads
    \/ loop = "await" /\ LoopTo("awaiting")

(* A job without a result gets one.                                        *)
LEMMA StageResultKeeps ==
    ASSUME ProcessorInv, NEW j \in Jobs, StageResult(j)
    PROVE  ProcessorInv'
  <1>1. /\ row[j] = "none" /\ row' = [row EXCEPT ![j] = "PENDING"]
        /\ UNCHANGED <<request, loop, claimed, current, result, finalizer, batch, applied,
                      queue, error, announced, holds, indexed, rendezvous, runtime>>
    BY DEF StageResult, storeVars, loopVars, finalizerVars, coordinatorVars, boundVars
  <1>2. Taken \in Nat /\ Size \in Nat /\ Taken <= Size
    BY ItemFacts DEF ProcessorInv
  <1>3. /\ \A p \in 1 .. Size : Pipeline[p].job \in Jobs /\ Pipeline[p].targets \subseteq Jobs
        /\ \A item \in current : item.job \in Jobs /\ item.targets \subseteq Jobs
    BY ItemFacts DEF ProcessorInv
  <1>4. Pipeline' = Pipeline /\ Size' = Size /\ Taken' = Taken
    BY <1>1, SamePipeline
  <1>5. ProcessorTypes'
    BY <1>1, <1>2, <1>3, <1>4 DEF ProcessorInv, ProcessorTypes
  <1>6. Undecided'
    BY <1>1, <1>2, <1>3, <1>4 DEF ProcessorInv, Undecided
  <1>7. Decided'
    BY <1>1, <1>2, <1>3, <1>4 DEF ProcessorInv, Decided
  <1>8. Awaited'
    BY <1>1, <1>2, <1>3, <1>4 DEF ProcessorInv, Awaited
  <1>9. Held'
    BY <1>1, <1>2, <1>3, <1>4 DEF ProcessorInv, Held, Live, Delivered
  <1>10. HeldUndecided'
    BY <1>1, <1>2, <1>3, <1>4 DEF ProcessorInv, HeldUndecided, Live
  <1>11. Announced'
    BY <1>1, <1>2, <1>3, <1>4 DEF ProcessorInv, Announced, InState
  <1>12. NotLost'
    BY <1>1, <1>2, <1>3, <1>4 DEF ProcessorInv, NotLost, Halted, Stopping
  <1>13. /\ LoopPlaces' /\ FinalizerPlaces' /\ OnePlace' /\ CampaignOver'
         /\ Noticed' /\ Covered'
    BY <1>1, <1>4 DEF ProcessorInv, LoopPlaces, FinalizerPlaces, OnePlace, CampaignOver,
       Halted, Stopping, Noticed, Covered, Live
  <1> QED BY <1>5, <1>6, <1>7, <1>8, <1>9, <1>10, <1>11, <1>12, <1>13 DEF ProcessorInv

(* The loop goes from one place to another: a campaign begins, or ends, with *)
(* an empty pipeline unless the processor is being stopped.                *)
LEMMA LoopMovesKeeps ==
    ASSUME ProcessorInv, LoopMoves, runtime \notin {"down", "crashed"}
    PROVE  ProcessorInv'
  <1>1. /\ \/ loop = "wait" /\ loop' = "done"
           \/ loop = "wait" /\ loop' \in {"claim", "blocking"} /\ ~ Stopping
           \/ loop = "blocking" /\ loop' = "asleep"
           \/ loop = "asleep" /\ loop' = "wait"
           \/ loop = "process" /\ claimed = {} /\ loop' = "barrier"
           \/ loop \in {"barrier", "flushing"} /\ loop' = "wait" /\ (Drained \/ Stopping)
           \/ loop \in {"barrier", "flushing"} /\ loop' = "claim" /\ Drained
           \/ loop = "barrier" /\ loop' = "flushing"
           \/ loop = "await" /\ loop' = "awaiting"
           \/ loop = "start" /\ claimed = {} /\ loop' = "wait"
        /\ UNCHANGED <<row, request, claimed, current, result, finalizer, batch, applied, queue,
                      error, announced, holds, indexed, rendezvous, runtime>>
    BY DEF LoopMoves, EvaluateWait, FallAsleep, Wake, BatchHandled, EvaluateBarrier,
       BarrierNotified, BarrierEnds, StartThreads, LoopTo, storeVars, loopVars,
       finalizerVars, coordinatorVars, boundVars
  <1>2. Taken \in Nat /\ Size \in Nat /\ Taken <= Size
    BY ItemFacts DEF ProcessorInv
  <1>3. /\ \A p \in 1 .. Size : Pipeline[p].job \in Jobs /\ Pipeline[p].targets \subseteq Jobs
        /\ \A item \in current : item.job \in Jobs /\ item.targets \subseteq Jobs
    BY ItemFacts DEF ProcessorInv
  <1>4. Pipeline' = Pipeline /\ Size' = Size /\ Taken' = Taken
    BY <1>1, SamePipeline
  <1>5. Drained => Size = 0
    BY PipelineFacts DEF ProcessorInv, ProcessorTypes, FinalizerPlaces, Drained
  <1>6. LoopPlaces'
    BY <1>1, <1>2, <1>3, <1>4, <1>5 DEF ProcessorInv, LoopPlaces
  <1>7. OnePlace'
    BY <1>1, <1>2, <1>3, <1>4, <1>5 DEF ProcessorInv, OnePlace
  <1>8. Undecided'
    BY <1>1, <1>2, <1>3, <1>4, <1>5 DEF ProcessorInv, Undecided
  <1>9. CampaignOver'
    BY <1>1, <1>3, <1>4, <1>5 DEF ProcessorInv, CampaignOver, Halted, Stopping
  <1>10. Awaited'
    BY <1>1, <1>2, <1>3, <1>4, <1>5 DEF ProcessorInv, Awaited
  <1>11. Held'
    BY <1>1, <1>3, <1>4, <1>5 DEF ProcessorInv, Held, Live, Delivered
  <1>12. /\ ProcessorTypes' /\ FinalizerPlaces' /\ Decided' /\ Noticed'
         /\ Covered' /\ HeldUndecided' /\ Announced' /\ NotLost'
    BY <1>1, <1>4 DEF ProcessorInv, ProcessorTypes, FinalizerPlaces, Decided, Noticed,
       Covered, Live, HeldUndecided, Announced, InState, NotLost, Halted, Stopping
  <1> QED BY <1>6, <1>7, <1>8, <1>9, <1>10, <1>11, <1>12 DEF ProcessorInv

(* The claimed jobs were pending, so they are nowhere in the pipeline, which *)
(* is empty, and have no holds.                                            *)
LEMMA ClaimKeeps ==
    ASSUME ProcessorInv, Claim
    PROVE  ProcessorInv'
  <1>1. /\ loop = "claim"
        /\ \E S \in SUBSET InState("PENDING") :
              /\ row' = [j \in Jobs |-> IF j \in S THEN "PROCESSING" ELSE row[j]]
              /\ claimed' = S
              /\ loop' = IF S = {} THEN "wait" ELSE "process"
        /\ UNCHANGED <<request, current, result, finalizer, batch, applied, queue, error,
                      announced, holds, indexed, rendezvous, runtime>>
    BY DEF Claim, storeVars, loopVars, finalizerVars, coordinatorVars, boundVars
  <1>2. Taken \in Nat /\ Size \in Nat /\ Taken <= Size
    BY ItemFacts DEF ProcessorInv
  <1>3. /\ \A p \in 1 .. Size : Pipeline[p].job \in Jobs /\ Pipeline[p].targets \subseteq Jobs
        /\ \A item \in current : item.job \in Jobs /\ item.targets \subseteq Jobs
    BY ItemFacts DEF ProcessorInv
  <1>4. Pipeline' = Pipeline /\ Size' = Size /\ Taken' = Taken
    BY <1>1, SamePipeline
  <1>5. PICK S \in SUBSET InState("PENDING") :
              /\ row' = [j \in Jobs |-> IF j \in S THEN "PROCESSING" ELSE row[j]]
              /\ claimed' = S
              /\ loop' = IF S = {} THEN "wait" ELSE "process"
    BY <1>1
  <1>6. /\ S \subseteq Jobs /\ \A j \in S : row[j] = "PENDING"
        /\ \A j \in Jobs : row'[j] = IF j \in S THEN "PROCESSING" ELSE row[j]
    BY <1>5 DEF InState
  <1>7. Size = 0 /\ Taken = 0 /\ claimed = {} /\ current = {}
    BY <1>1, <1>2 DEF ProcessorInv, CampaignOver, LoopPlaces
  <1>8. ProcessorTypes'
    BY <1>1, <1>5, <1>6, <1>7 DEF ProcessorInv, ProcessorTypes
  <1>9. LoopPlaces'
    BY <1>1, <1>7 DEF ProcessorInv, LoopPlaces
  <1>10. OnePlace'
    BY <1>4, <1>7 DEF ProcessorInv, OnePlace
  <1>11. Undecided'
    BY <1>4, <1>5, <1>6, <1>7 DEF ProcessorInv, Undecided
  <1>12. Decided'
    BY <1>4, <1>7 DEF ProcessorInv, Decided
  <1>13. CampaignOver'
    BY <1>4, <1>7 DEF ProcessorInv, CampaignOver, Halted
  <1>14. Awaited'
    BY <1>5, <1>6 DEF Awaited
  <1>15. Held'
    BY <1>1, <1>2, <1>3, <1>4, <1>5, <1>6, <1>7 DEF ProcessorInv, Held, Live, Delivered
  <1>16. HeldUndecided'
    BY <1>1, <1>7 DEF ProcessorInv, HeldUndecided, Live
  <1>17. Announced'
    BY <1>1, <1>7 DEF ProcessorInv, Announced, InState
  <1>18. NotLost'
    BY <1>1, <1>2, <1>7 DEF ProcessorInv, NotLost, Halted, Stopping
  <1>19. FinalizerPlaces' /\ Noticed' /\ Covered'
    BY <1>1, <1>4 DEF ProcessorInv, FinalizerPlaces, Noticed, Covered, Live
  <1> QED BY <1>8, <1>9, <1>10, <1>11, <1>12, <1>13, <1>14, <1>15, <1>16, <1>17, <1>18,
     <1>19 DEF ProcessorInv

(* A claim that fails changes nothing but is recorded.                     *)
LEMMA ClaimFailsKeeps ==
    ASSUME ProcessorInv, ClaimFails
    PROVE  ProcessorInv'
  <1>1. /\ loop = "claim" /\ loop' = "wait" /\ error' = TRUE
        /\ UNCHANGED <<row, request, claimed, current, result, finalizer, batch, applied, queue,
                      announced, holds, indexed, rendezvous, runtime>>
    BY DEF ClaimFails, Fault, storeVars, loopVars, finalizerVars, coordinatorVars, boundVars
  <1>2. Taken \in Nat /\ Size \in Nat /\ Taken <= Size
    BY ItemFacts DEF ProcessorInv
  <1>3. /\ \A p \in 1 .. Size : Pipeline[p].job \in Jobs /\ Pipeline[p].targets \subseteq Jobs
        /\ \A item \in current : item.job \in Jobs /\ item.targets \subseteq Jobs
    BY ItemFacts DEF ProcessorInv
  <1>4. Pipeline' = Pipeline /\ Size' = Size /\ Taken' = Taken
    BY <1>1, SamePipeline
  <1>5. LoopPlaces'
    BY <1>1, <1>2, <1>3, <1>4 DEF ProcessorInv, LoopPlaces
  <1>6. FinalizerPlaces'
    BY <1>1, <1>2, <1>3, <1>4 DEF ProcessorInv, FinalizerPlaces
  <1>7. OnePlace'
    BY <1>1, <1>2, <1>3, <1>4 DEF ProcessorInv, OnePlace
  <1>8. Undecided'
    BY <1>1, <1>2, <1>3, <1>4 DEF ProcessorInv, Undecided
  <1>9. CampaignOver'
    BY <1>1, <1>2, <1>3, <1>4 DEF ProcessorInv, CampaignOver, Halted, Stopping
  <1>10. Awaited'
    BY <1>1, <1>2, <1>3, <1>4 DEF ProcessorInv, Awaited
  <1>11. Noticed'
    BY <1>1, <1>2, <1>3, <1>4 DEF ProcessorInv, Noticed
  <1>12. Held'
    BY <1>1, <1>2, <1>3, <1>4 DEF ProcessorInv, Held, Live, Delivered
  <1>13. NotLost'
    BY <1>1, <1>2, <1>3, <1>4 DEF ProcessorInv, NotLost, Halted, Stopping
  <1>14. /\ ProcessorTypes' /\ Decided' /\ Covered' /\ HeldUndecided'
         /\ Announced'
    BY <1>1, <1>4 DEF ProcessorInv, ProcessorTypes, Decided, Covered, Live, HeldUndecided,
       Announced, InState
  <1> QED BY <1>5, <1>6, <1>7, <1>8, <1>9, <1>10, <1>11, <1>12, <1>13, <1>14 DEF
     ProcessorInv

(* A decision takes a claimed job in hand; it has no hold yet.             *)
LEMMA DecideKeeps ==
    ASSUME ProcessorInv, NEW j \in Jobs, Decide(j)
    PROVE  ProcessorInv'
  <1>1. /\ loop = "process" /\ j \in claimed /\ claimed' = claimed \ {j}
        /\ \E item \in Items :
              /\ item.job = j /\ current' = {item}
              /\ item.retry => item.targets = {}
              /\ \/ /\ item.targets # {} /\ loop' = "hold"
                    /\ rendezvous' = [rendezvous EXCEPT !["loop"] = "enqueue"]
                 \/ /\ item.targets = {} /\ loop' = "push"
                    /\ rendezvous' = [rendezvous EXCEPT !["loop"] = "idle"]
        /\ UNCHANGED <<row, request, result, finalizer, batch, applied, queue, error, announced,
                      holds, indexed, runtime>>
    BY DEF Decide, NeedsHold, storeVars, loopVars, finalizerVars, coordinatorVars, boundVars
  <1>2. Taken \in Nat /\ Size \in Nat /\ Taken <= Size
    BY ItemFacts DEF ProcessorInv
  <1>3. /\ \A p \in 1 .. Size : Pipeline[p].job \in Jobs /\ Pipeline[p].targets \subseteq Jobs
        /\ \A item \in current : item.job \in Jobs /\ item.targets \subseteq Jobs
    BY ItemFacts DEF ProcessorInv
  <1>4. Pipeline' = Pipeline /\ Size' = Size /\ Taken' = Taken
    BY <1>1, SamePipeline
  <1>5. PICK item \in Items :
              /\ item.job = j /\ current' = {item}
              /\ item.retry => item.targets = {}
              /\ \/ /\ item.targets # {} /\ loop' = "hold"
                    /\ rendezvous' = [rendezvous EXCEPT !["loop"] = "enqueue"]
                 \/ /\ item.targets = {} /\ loop' = "push"
                    /\ rendezvous' = [rendezvous EXCEPT !["loop"] = "idle"]
    BY <1>1
  <1>6. /\ item.targets # {} => loop' = "hold" /\ rendezvous'["loop"] = "enqueue"
        /\ item.targets = {} => loop' = "push" /\ rendezvous'["loop"] = "idle"
        /\ rendezvous'["finalizer"] = rendezvous["finalizer"]
    BY <1>5 DEF ProcessorInv, ProcessorTypes, Threads
  <1>7. current = {}
    BY <1>1 DEF ProcessorInv, LoopPlaces
  <1>8. /\ row[j] = "PROCESSING" /\ holds[j] = {}
        /\ \A x \in current : x.job # j
        /\ \A p \in 1 .. Size : Pipeline[p].job # j
    BY <1>1 DEF ProcessorInv, Undecided, Held, LoopPlaces, OnePlace
  <1>9. ProcessorTypes'
    BY <1>1, <1>3, <1>4 DEF ProcessorInv, ProcessorTypes
  <1>10. LoopPlaces'
    BY <1>1, <1>5, <1>6 DEF ProcessorInv, LoopPlaces
  <1>11. FinalizerPlaces'
    BY <1>1, <1>3, <1>4, <1>5, <1>6 DEF ProcessorInv, FinalizerPlaces
  <1>12. OnePlace'
    BY <1>1, <1>3, <1>4 DEF ProcessorInv, OnePlace
  <1>13. Undecided'
    BY <1>1, <1>3, <1>4 DEF ProcessorInv, Undecided
  <1>14. CampaignOver'
    BY <1>6 DEF CampaignOver, Halted, Stopping
  <1>15. Awaited'
    BY <1>6 DEF ProcessorInv, Awaited
  <1>16. Noticed'
    BY <1>1, <1>3, <1>4, <1>7, <1>8 DEF ProcessorInv, Noticed
  <1>17. Held'
    BY <1>1, <1>2, <1>3, <1>4, <1>5, <1>6, <1>7, <1>8 DEF ProcessorInv, Held, Live,
       Delivered
  <1>18. NotLost'
    BY <1>1, <1>4, <1>5, <1>6, <1>7, <1>8 DEF ProcessorInv, NotLost, Halted, Stopping
  <1>19. Decided' /\ Covered' /\ HeldUndecided' /\ Announced'
    BY <1>1, <1>4 DEF ProcessorInv, Decided, Covered, Live, HeldUndecided, Announced,
       InState
  <1> QED BY <1>9, <1>10, <1>11, <1>12, <1>13, <1>14, <1>15, <1>16, <1>17, <1>18, <1>19 DEF
     ProcessorInv

(* A claimed job without a decision is finalized by the loop itself.       *)
LEMMA RecordFailureKeeps ==
    ASSUME ProcessorInv, NEW j \in Jobs, RecordFailure(j),
           runtime \notin {"down", "crashed"}
    PROVE  ProcessorInv'
  <1>1. /\ loop \in {"process", "start"} /\ j \in claimed /\ claimed' = claimed \ {j}
        /\ row' = [row EXCEPT ![j] = "PROCESSED"] /\ announced' = announced \cup {j}
        /\ UNCHANGED <<request, loop, current, result, finalizer, batch, applied, queue, error,
                      holds, indexed, rendezvous, runtime>>
    BY DEF RecordFailure, storeVars, loopVars, finalizerVars, coordinatorVars, boundVars
  <1>2. Taken \in Nat /\ Size \in Nat /\ Taken <= Size
    BY ItemFacts DEF ProcessorInv
  <1>3. /\ \A p \in 1 .. Size : Pipeline[p].job \in Jobs /\ Pipeline[p].targets \subseteq Jobs
        /\ \A item \in current : item.job \in Jobs /\ item.targets \subseteq Jobs
    BY ItemFacts DEF ProcessorInv
  <1>4. Pipeline' = Pipeline /\ Size' = Size /\ Taken' = Taken
    BY <1>1, SamePipeline
  <1>5. /\ row'[j] = "PROCESSED" /\ \A k \in Jobs : k # j => row'[k] = row[k]
        /\ row' \in [Jobs -> {"none", "PENDING", "PROCESSING", "PROCESSED", "EXHAUSTED"}]
    BY <1>1 DEF ProcessorInv, ProcessorTypes
  <1>6. /\ row[j] = "PROCESSING" /\ holds[j] = {}
        /\ \A item \in current : item.job # j
        /\ \A p \in 1 .. Size : Pipeline[p].job # j
    BY <1>1 DEF ProcessorInv, Undecided, Held, LoopPlaces, OnePlace
  <1>7. ProcessorTypes'
    BY <1>1, <1>2, <1>3, <1>4, <1>5, <1>6 DEF ProcessorInv, ProcessorTypes
  <1>8. LoopPlaces'
    BY <1>1, <1>2, <1>3, <1>4, <1>5, <1>6 DEF ProcessorInv, LoopPlaces
  <1>9. OnePlace'
    BY <1>1, <1>2, <1>3, <1>4, <1>5, <1>6 DEF ProcessorInv, OnePlace
  <1>10. Undecided'
    BY <1>1, <1>2, <1>3, <1>4, <1>5, <1>6 DEF ProcessorInv, Undecided
  <1>11. Decided'
    BY <1>1, <1>2, <1>3, <1>4, <1>5, <1>6 DEF ProcessorInv, Decided
  <1>12. Awaited'
    BY <1>1, <1>2, <1>3, <1>4, <1>5, <1>6 DEF ProcessorInv, Awaited
  <1>13. Held'
    BY <1>1, <1>3, <1>4 DEF ProcessorInv, Held, Live, Delivered
  <1>14. HeldUndecided'
    BY <1>1, <1>3, <1>4, <1>5, <1>6 DEF ProcessorInv, HeldUndecided, Live
  <1>15. Announced'
    BY <1>1, <1>3, <1>4, <1>5, <1>6 DEF ProcessorInv, Announced, InState
  <1>16. NotLost'
    BY <1>1, <1>3, <1>4, <1>5, <1>6 DEF ProcessorInv, NotLost, Halted, Stopping
  <1>17. FinalizerPlaces' /\ CampaignOver' /\ Noticed' /\ Covered'
    BY <1>1, <1>4 DEF ProcessorInv, FinalizerPlaces, CampaignOver, Halted, Stopping,
       Noticed, Covered, Live
  <1> QED BY <1>7, <1>8, <1>9, <1>10, <1>11, <1>12, <1>13, <1>14, <1>15, <1>16, <1>17 DEF
     ProcessorInv

(* One that the store refuses stays PROCESSING, and that is recorded.      *)
LEMMA RecordFailureFailsKeeps ==
    ASSUME ProcessorInv, NEW j \in Jobs, RecordFailureFails(j)
    PROVE  ProcessorInv'
  <1>1. /\ loop \in {"process", "start"} /\ j \in claimed /\ claimed' = claimed \ {j}
        /\ error' = TRUE
        /\ UNCHANGED <<row, request, loop, current, result, finalizer, batch, applied, queue,
                      announced, holds, indexed, rendezvous, runtime>>
    BY DEF RecordFailureFails, Fault, storeVars, loopVars, finalizerVars, coordinatorVars,
       boundVars
  <1>2. Taken \in Nat /\ Size \in Nat /\ Taken <= Size
    BY ItemFacts DEF ProcessorInv
  <1>3. /\ \A p \in 1 .. Size : Pipeline[p].job \in Jobs /\ Pipeline[p].targets \subseteq Jobs
        /\ \A item \in current : item.job \in Jobs /\ item.targets \subseteq Jobs
    BY ItemFacts DEF ProcessorInv
  <1>4. Pipeline' = Pipeline /\ Size' = Size /\ Taken' = Taken
    BY <1>1, SamePipeline
  <1>5. ProcessorTypes'
    BY <1>1, <1>2, <1>3, <1>4 DEF ProcessorInv, ProcessorTypes
  <1>6. LoopPlaces'
    BY <1>1, <1>2, <1>3, <1>4 DEF ProcessorInv, LoopPlaces
  <1>7. FinalizerPlaces'
    BY <1>1, <1>2, <1>3, <1>4 DEF ProcessorInv, FinalizerPlaces
  <1>8. OnePlace'
    BY <1>1, <1>2, <1>3, <1>4 DEF ProcessorInv, OnePlace
  <1>9. Undecided'
    BY <1>1, <1>2, <1>3, <1>4 DEF ProcessorInv, Undecided
  <1>10. Noticed'
    BY <1>1, <1>2, <1>3, <1>4 DEF ProcessorInv, Noticed
  <1>11. Held'
    BY <1>1, <1>2, <1>3, <1>4 DEF ProcessorInv, Held, Live, Delivered
  <1>12. NotLost'
    BY <1>1, <1>2, <1>3, <1>4 DEF ProcessorInv, NotLost, Halted, Stopping
  <1>13. /\ Decided' /\ CampaignOver' /\ Awaited' /\ Covered'
         /\ HeldUndecided' /\ Announced'
    BY <1>1, <1>4 DEF ProcessorInv, Decided, CampaignOver, Halted, Stopping, Awaited,
       Covered, Live, HeldUndecided, Announced, InState
  <1> QED BY <1>5, <1>6, <1>7, <1>8, <1>9, <1>10, <1>11, <1>12, <1>13 DEF ProcessorInv

(* An interrupted job is pending again.                                    *)
LEMMA ResetInterruptedKeeps ==
    ASSUME ProcessorInv, NEW j \in Jobs, ResetInterrupted(j)
    PROVE  ProcessorInv'
  <1>1. /\ loop = "start" /\ j \in claimed /\ claimed' = claimed \ {j}
        /\ row' = [row EXCEPT ![j] = "PENDING"]
        /\ UNCHANGED <<request, loop, current, result, finalizer, batch, applied, queue, error,
                      announced, holds, indexed, rendezvous, runtime>>
    BY DEF ResetInterrupted, storeVars, loopVars, finalizerVars, coordinatorVars, boundVars
  <1>2. Taken \in Nat /\ Size \in Nat /\ Taken <= Size
    BY ItemFacts DEF ProcessorInv
  <1>3. /\ \A p \in 1 .. Size : Pipeline[p].job \in Jobs /\ Pipeline[p].targets \subseteq Jobs
        /\ \A item \in current : item.job \in Jobs /\ item.targets \subseteq Jobs
    BY ItemFacts DEF ProcessorInv
  <1>4. Pipeline' = Pipeline /\ Size' = Size /\ Taken' = Taken
    BY <1>1, SamePipeline
  <1>5. /\ row'[j] = "PENDING" /\ \A k \in Jobs : k # j => row'[k] = row[k]
        /\ row' \in [Jobs -> {"none", "PENDING", "PROCESSING", "PROCESSED", "EXHAUSTED"}]
    BY <1>1 DEF ProcessorInv, ProcessorTypes
  <1>6. /\ row[j] = "PROCESSING" /\ holds[j] = {}
        /\ \A item \in current : item.job # j
        /\ \A p \in 1 .. Size : Pipeline[p].job # j
    BY <1>1 DEF ProcessorInv, Undecided, Held, LoopPlaces, OnePlace
  <1>7. Size = 0
    BY <1>1 DEF ProcessorInv, CampaignOver
  <1>8. ProcessorTypes'
    BY <1>1, <1>7 DEF ProcessorInv, ProcessorTypes
  <1>9. LoopPlaces'
    BY <1>1, <1>7 DEF ProcessorInv, LoopPlaces
  <1>10. OnePlace'
    BY <1>4, <1>7 DEF ProcessorInv, OnePlace
  <1>11. Undecided'
    BY <1>1, <1>3, <1>4, <1>7 DEF ProcessorInv, Undecided
  <1>12. Decided'
    BY <1>2, <1>3, <1>4, <1>7 DEF ProcessorInv, Decided
  <1>13. Awaited'
    BY <1>1 DEF Awaited
  <1>14. Held'
    BY <1>1, <1>2, <1>3, <1>4, <1>7 DEF ProcessorInv, Held, Live, Delivered
  <1>15. HeldUndecided'
    BY <1>1, <1>2, <1>5, <1>6, <1>7 DEF ProcessorInv, HeldUndecided, Live
  <1>16. Announced'
    BY <1>1, <1>2, <1>5, <1>6, <1>7 DEF ProcessorInv, Announced, InState
  <1>17. NotLost'
    BY <1>1, <1>2, <1>5, <1>6, <1>7 DEF ProcessorInv, NotLost, Halted, Stopping
  <1>18. FinalizerPlaces' /\ CampaignOver' /\ Noticed' /\ Covered'
    BY <1>1, <1>4 DEF ProcessorInv, FinalizerPlaces, CampaignOver, Halted, Stopping,
       Noticed, Covered, Live
  <1> QED BY <1>8, <1>9, <1>10, <1>11, <1>12, <1>13, <1>14, <1>15, <1>16, <1>17, <1>18 DEF
     ProcessorInv

(* The coordinator has the hold, unless it is being stopped.               *)
LEMMA HoldReturnedKeeps ==
    ASSUME ProcessorInv, HoldReturned
    PROVE  ProcessorInv'
  <1>1. /\ loop = "hold" /\ rendezvous["loop"] = "returned" /\ loop' = "push"
        /\ rendezvous' = [rendezvous EXCEPT !["loop"] = "idle"]
        /\ UNCHANGED <<row, request, claimed, current, result, finalizer, batch, applied, queue,
                      error, announced, holds, indexed, runtime>>
    BY DEF HoldReturned, storeVars, loopVars, finalizerVars, coordinatorVars, boundVars
  <1>2. Taken \in Nat /\ Size \in Nat /\ Taken <= Size
    BY ItemFacts DEF ProcessorInv
  <1>3. /\ \A p \in 1 .. Size : Pipeline[p].job \in Jobs /\ Pipeline[p].targets \subseteq Jobs
        /\ \A item \in current : item.job \in Jobs /\ item.targets \subseteq Jobs
    BY ItemFacts DEF ProcessorInv
  <1>4. Pipeline' = Pipeline /\ Size' = Size /\ Taken' = Taken
    BY <1>1, SamePipeline
  <1>5. /\ rendezvous'["loop"] = "idle" /\ rendezvous'["finalizer"] = rendezvous["finalizer"]
        /\ rendezvous' \in [Threads -> {"idle", "enqueue", "queued", "blocked", "returned"}]
    BY <1>1 DEF ProcessorInv, ProcessorTypes, Threads
  <1>6. ProcessorTypes'
    BY <1>1, <1>2, <1>3, <1>4, <1>5 DEF ProcessorInv, ProcessorTypes
  <1>7. LoopPlaces'
    BY <1>1, <1>2, <1>3, <1>4, <1>5 DEF ProcessorInv, LoopPlaces
  <1>8. FinalizerPlaces'
    BY <1>1, <1>2, <1>3, <1>4, <1>5 DEF ProcessorInv, FinalizerPlaces
  <1>9. OnePlace'
    BY <1>1, <1>2, <1>3, <1>4, <1>5 DEF ProcessorInv, OnePlace
  <1>10. Undecided'
    BY <1>1, <1>2, <1>3, <1>4, <1>5 DEF ProcessorInv, Undecided
  <1>11. CampaignOver'
    BY <1>1 DEF CampaignOver, Halted
  <1>12. Awaited'
    BY <1>1, <1>2, <1>3, <1>4, <1>5 DEF ProcessorInv, Awaited
  <1>13. Held'
    BY <1>1, <1>3, <1>4, <1>5 DEF ProcessorInv, Held, Live, Delivered
  <1>14. /\ Decided' /\ Noticed' /\ Covered' /\ HeldUndecided'
         /\ Announced' /\ NotLost'
    BY <1>1, <1>4 DEF ProcessorInv, Decided, Noticed, Covered, Live, HeldUndecided,
       Announced, InState, NotLost, Halted, Stopping
  <1> QED BY <1>6, <1>7, <1>8, <1>9, <1>10, <1>11, <1>12, <1>13, <1>14 DEF ProcessorInv

(* The item in hand becomes the last of the pipeline.                      *)
LEMMA PushKeeps ==
    ASSUME ProcessorInv, Push
    PROVE  ProcessorInv'
  <1>1. /\ loop = "push" /\ result' = "none"
        /\ \E item \in current :
              /\ queue' = Append(queue, item)
              /\ loop' = IF item.targets = {} THEN "process" ELSE "await"
              /\ current' = IF item.targets = {} THEN {} ELSE current
        /\ UNCHANGED <<row, request, claimed, finalizer, batch, applied, error, announced,
                      holds, indexed, rendezvous, runtime>>
    BY DEF Push, storeVars, loopVars, finalizerVars, coordinatorVars, boundVars
  <1>2. Taken \in Nat /\ Size \in Nat /\ Taken <= Size
    BY ItemFacts DEF ProcessorInv
  <1>3. /\ \A p \in 1 .. Size : Pipeline[p].job \in Jobs /\ Pipeline[p].targets \subseteq Jobs
        /\ \A item \in current : item.job \in Jobs /\ item.targets \subseteq Jobs
    BY ItemFacts DEF ProcessorInv
  <1>4. PICK item \in current :
           /\ queue' = Append(queue, item)
           /\ loop' = IF item.targets = {} THEN "process" ELSE "await"
           /\ current' = IF item.targets = {} THEN {} ELSE current
    BY <1>1
  <1>5. item \in Items
    BY DEF ProcessorInv, ProcessorTypes
  <1>6. queue' \in Seq(Items) /\ batch' \in Seq(Items)
    BY <1>1, <1>4, <1>5, AppendProperties DEF ProcessorInv, ProcessorTypes
  <1>7. /\ Taken' = Taken /\ Size' = Size + 1
        /\ \A p \in 1 .. Size : Pipeline'[p] = Pipeline[p]
        /\ Pipeline'[Size + 1] = item
        /\ \A p \in 1 .. Size' : p \in 1 .. Size \/ p = Size + 1
        /\ Size + 1 \in 1 .. Size'
    BY <1>1, <1>4, <1>5, PipelinePush DEF ProcessorInv, ProcessorTypes
  <1>8. /\ \A x \in current : x = item
        /\ item.job \in Jobs /\ item.job \notin claimed /\ (item.retry => item.targets = {})
        /\ row[item.job] = "PROCESSING" /\ \A p \in 1 .. Size : Pipeline[p].job # item.job
    BY <1>1, <1>3 DEF ProcessorInv, LoopPlaces, OnePlace, Undecided
  <1>9. /\ holds[item.job] \in {{}, item.targets} /\ (Live => holds[item.job] = item.targets)
        /\ Size = 0 => ~ Delivered
    BY <1>1, <1>2 DEF ProcessorInv, Held, FinalizerPlaces, Delivered
  <1>10. ProcessorTypes'
    BY <1>1, <1>2, <1>9 DEF ProcessorInv, ProcessorTypes
  <1>11. LoopPlaces'
    BY <1>1, <1>2, <1>9 DEF ProcessorInv, LoopPlaces
  <1>12. FinalizerPlaces'
    BY <1>1, <1>2, <1>7, <1>8, <1>9 DEF ProcessorInv, FinalizerPlaces
  <1>13. OnePlace'
    <2>1. \A p \in 1 .. Size : Pipeline'[p].job # item.job
      BY <1>7, <1>8
    <2>2. ASSUME NEW p \in 1 .. Size', NEW q \in 1 .. Size', Pipeline'[p].job = Pipeline'[q].job
          PROVE  p = q
      BY <1>7, <2>1, <2>2 DEF ProcessorInv, OnePlace
    <2>3. \A p \in 1 .. Size' : Pipeline'[p].job \notin claimed'
      BY <1>1, <1>7, <1>8 DEF ProcessorInv, OnePlace
    <2>4. loop' \notin {"hold", "push"}
      BY <1>4
    <2> QED BY <2>2, <2>3, <2>4 DEF OnePlace
  <1>14. Undecided'
    BY <1>1, <1>2, <1>7, <1>8, <1>9 DEF ProcessorInv, Undecided
  <1>15. Decided'
    BY <1>1, <1>2, <1>7, <1>8, <1>9 DEF ProcessorInv, Decided
  <1>16. CampaignOver'
    BY <1>4, <1>6 DEF ProcessorInv, CampaignOver, Halted
  <1>17. Awaited'
    BY <1>1, <1>2, <1>7, <1>8 DEF Awaited
  <1>18. Noticed'
    BY <1>1, <1>2, <1>7, <1>8, <1>9 DEF ProcessorInv, Noticed
  <1>19. Held'
    <2>1. /\ \A j \in Jobs : row'[j] \in {"none", "PENDING"} \/ j \in claimed' => holds'[j] = {}
          /\ loop' \notin {"hold", "push"}
          /\ (Live' <=> Live) /\ (Delivered' <=> Delivered)
      BY <1>1, <1>4 DEF ProcessorInv, Held, Live, Delivered
    <2>2. ASSUME NEW p \in 1 .. Size'
          PROVE  /\ holds'[Pipeline'[p].job] \in {{}, Pipeline'[p].targets}
                 /\ Live /\ ~ (p = 1 /\ Delivered) =>
                       holds'[Pipeline'[p].job] = Pipeline'[p].targets
      <3>1. CASE p \in 1 .. Size
        BY <1>1, <1>7, <3>1 DEF ProcessorInv, Held
      <3>2. CASE p = Size + 1
        BY <1>1, <1>2, <1>7, <1>9, <3>2
      <3> QED BY <1>7, <3>1, <3>2
    <2>3. Live /\ Delivered =>
             holds'[Pipeline'[1].job] = {} /\ Pipeline'[1].targets \subseteq indexed'
      <3>1. Delivered => 1 \in 1 .. Size
        BY <1>2, <1>9
      <3> QED BY <1>1, <1>7, <3>1 DEF ProcessorInv, Held
    <2> QED BY <2>1, <2>2, <2>3 DEF Held
  <1>20. HeldUndecided'
    <2>1. \A p \in 1 .. Taken : Pipeline'[p] = Pipeline[p]
      BY <1>2, <1>7
    <2> QED BY <1>1, <1>7, <2>1 DEF ProcessorInv, HeldUndecided, Live
  <1>21. Announced'
    BY <1>1, <1>2, <1>7, <1>8, <1>9 DEF ProcessorInv, Announced, InState
  <1>22. NotLost'
    BY <1>1, <1>2, <1>3, <1>7, <1>8, <1>9 DEF ProcessorInv, NotLost, Halted, Stopping
  <1>23. Covered'
    BY <1>1 DEF ProcessorInv, Covered, Live
  <1> QED BY <1>10, <1>11, <1>12, <1>13, <1>14, <1>15, <1>16, <1>17, <1>18, <1>19, <1>20,
     <1>21, <1>22, <1>23 DEF ProcessorInv

(* The wait for a finalization ends: well, and it was the last of the      *)
(* pipeline, or not, and that is recorded.                                 *)
LEMMA AwaitEndsKeeps ==
    ASSUME ProcessorInv, AwaitEnds, loop \in {"await", "awaiting"},
           result # "none" \/ Stopping
    PROVE  ProcessorInv'
  <1>1. /\ loop \in {"await", "awaiting"} /\ current' = {}
        /\ \/ result = "ok" /\ loop' = "process" /\ UNCHANGED <<claimed, error>>
           \/ result # "ok" /\ loop' = "wait" /\ claimed' = {} /\ error' = TRUE
        /\ result # "none" \/ Stopping
        /\ UNCHANGED <<row, request, result, finalizer, batch, applied, queue, announced, holds,
                      indexed, rendezvous, runtime>>
    BY DEF AwaitEnds, storeVars, loopVars, finalizerVars, coordinatorVars, boundVars
  <1>2. Taken \in Nat /\ Size \in Nat /\ Taken <= Size
    BY ItemFacts DEF ProcessorInv
  <1>3. /\ \A p \in 1 .. Size : Pipeline[p].job \in Jobs /\ Pipeline[p].targets \subseteq Jobs
        /\ \A item \in current : item.job \in Jobs /\ item.targets \subseteq Jobs
    BY ItemFacts DEF ProcessorInv
  <1>4. Pipeline' = Pipeline /\ Size' = Size /\ Taken' = Taken
    BY <1>1, SamePipeline
  <1>5. /\ result # "none" => Size = 0
        /\ result = "ok" => \A item \in current : row[item.job] = "PROCESSED"
    BY <1>1 DEF ProcessorInv, Awaited
  <1>6. ProcessorTypes'
    BY <1>1, <1>2, <1>3, <1>4, <1>5 DEF ProcessorInv, ProcessorTypes
  <1>7. LoopPlaces'
    BY <1>1, <1>2, <1>3, <1>4, <1>5 DEF ProcessorInv, LoopPlaces
  <1>8. FinalizerPlaces'
    BY <1>1, <1>2, <1>3, <1>4, <1>5 DEF ProcessorInv, FinalizerPlaces
  <1>9. OnePlace'
    BY <1>1, <1>2, <1>3, <1>4, <1>5 DEF ProcessorInv, OnePlace
  <1>10. Undecided'
    BY <1>1, <1>2, <1>3, <1>4, <1>5 DEF ProcessorInv, Undecided
  <1>11. CampaignOver'
    BY <1>1, <1>3, <1>4, <1>5 DEF ProcessorInv, CampaignOver, Halted, Stopping, Undecided
  <1>12. Awaited'
    BY <1>1, <1>2, <1>3, <1>4, <1>5 DEF ProcessorInv, Awaited
  <1>13. Noticed'
    BY <1>1, <1>2, <1>3, <1>4, <1>5 DEF ProcessorInv, Noticed
  <1>14. Held'
    BY <1>1, <1>3, <1>4, <1>5 DEF ProcessorInv, Held, Live, Delivered
  <1>15. NotLost'
    BY <1>1, <1>5 DEF ProcessorInv, NotLost, Halted, Stopping
  <1>16. Decided' /\ Covered' /\ HeldUndecided' /\ Announced'
    BY <1>1, <1>4 DEF ProcessorInv, Decided, Covered, Live, HeldUndecided, Announced,
       InState
  <1> QED BY <1>6, <1>7, <1>8, <1>9, <1>10, <1>11, <1>12, <1>13, <1>14, <1>15, <1>16 DEF
     ProcessorInv

(* The first of the queue become the batch; the pipeline stays the same.   *)
LEMMA TakeBatchKeeps ==
    ASSUME ProcessorInv, TakeBatch, loop # "start"
    PROVE  ProcessorInv'
  <1>1. /\ finalizer = "wait" /\ finalizer' = "commit" /\ applied' = {}
        /\ UNCHANGED <<row, request, loop, claimed, current, result, error, announced, holds,
                      indexed, rendezvous, runtime>>
    BY DEF TakeBatch, storeVars, loopVars, finalizerVars, coordinatorVars, boundVars
  <1>2. Taken \in Nat /\ Size \in Nat /\ Taken <= Size
    BY ItemFacts DEF ProcessorInv
  <1>3. /\ \A p \in 1 .. Size : Pipeline[p].job \in Jobs /\ Pipeline[p].targets \subseteq Jobs
        /\ \A item \in current : item.job \in Jobs /\ item.targets \subseteq Jobs
    BY ItemFacts DEF ProcessorInv
  <1>4. Taken = 0
    BY <1>1 DEF ProcessorInv, FinalizerPlaces
  <1>5. /\ batch' \in Seq(Items) /\ queue' \in Seq(Items) /\ Taken' \in Nat /\ Taken' <= Size
        /\ Size' = Size /\ \A p \in 1 .. Size : Pipeline'[p] = Pipeline[p]
    BY <1>4, PipelineTake DEF ProcessorInv, ProcessorTypes
  <1>6. ProcessorTypes'
    BY <1>1, <1>2, <1>3, <1>4, <1>5 DEF ProcessorInv, ProcessorTypes
  <1>7. LoopPlaces'
    BY <1>1, <1>2, <1>3, <1>4, <1>5 DEF ProcessorInv, LoopPlaces
  <1>8. FinalizerPlaces'
    BY <1>1, <1>2, <1>3, <1>4, <1>5 DEF ProcessorInv, FinalizerPlaces
  <1>9. OnePlace'
    BY <1>1, <1>2, <1>3, <1>4, <1>5 DEF ProcessorInv, OnePlace
  <1>10. Undecided'
    BY <1>1, <1>2, <1>3, <1>4, <1>5 DEF ProcessorInv, Undecided
  <1>11. Decided'
    BY <1>1, <1>2, <1>3, <1>4, <1>5 DEF ProcessorInv, Decided
  <1>12. CampaignOver'
    BY <1>1, <1>5 DEF ProcessorInv, CampaignOver, Halted, Stopping
  <1>13. Awaited'
    BY <1>1, <1>2, <1>3, <1>4, <1>5 DEF ProcessorInv, Awaited
  <1>14. Noticed'
    BY <1>1, <1>2, <1>3, <1>4, <1>5 DEF ProcessorInv, Noticed
  <1>15. Held'
    BY <1>1, <1>2, <1>3, <1>4, <1>5 DEF ProcessorInv, Held, Live, Delivered
  <1>16. HeldUndecided'
    BY <1>1, <1>2, <1>3, <1>4, <1>5 DEF ProcessorInv, HeldUndecided, Live
  <1>17. Announced'
    BY <1>1, <1>2, <1>3, <1>4, <1>5 DEF ProcessorInv, Announced, InState
  <1>18. NotLost'
    BY <1>1, <1>5 DEF ProcessorInv, NotLost, Halted, Stopping
  <1>19. Covered'
    BY <1>1 DEF ProcessorInv, Covered, Live
  <1> QED BY <1>6, <1>7, <1>8, <1>9, <1>10, <1>11, <1>12, <1>13, <1>14, <1>15, <1>16, <1>17,
     <1>18, <1>19 DEF ProcessorInv

(* The transaction decides the items of the batch; their jobs are in no    *)
(* other place, and what it requests is under their holds.                 *)
LEMMA CommitBatchKeeps ==
    ASSUME ProcessorInv, CommitBatch, loop # "start"
    PROVE  ProcessorInv'
  <1>1. /\ finalizer = "commit" /\ finalizer' = "report"
        /\ UNCHANGED <<loop, claimed, current, result, batch, queue, error, announced, holds,
                      indexed, rendezvous, runtime>>
    BY DEF CommitBatch, storeVars, loopVars, finalizerVars, coordinatorVars, boundVars
  <1>2. Taken \in Nat /\ Size \in Nat /\ Taken <= Size
    BY ItemFacts DEF ProcessorInv
  <1>3. /\ \A p \in 1 .. Size : Pipeline[p].job \in Jobs /\ Pipeline[p].targets \subseteq Jobs
        /\ \A item \in current : item.job \in Jobs /\ item.targets \subseteq Jobs
    BY ItemFacts DEF ProcessorInv
  <1>4. Pipeline' = Pipeline /\ Size' = Size /\ Taken' = Taken
    BY <1>1, SamePipeline
  <1>5. PICK s : /\ After(Len(batch), s)
                 /\ row' = s.row /\ request' = s.request /\ applied' = s.applied
    BY FinalizedAfter DEF ProcessorInv, CommitBatch
  <1>6. /\ row' \in [Jobs -> Rows] /\ request' \in [Jobs -> Jobs \cup {NoJob}]
    BY <1>5 DEF After, Stores
  <1>7. /\ \A p \in 1 .. Taken : p \in 1 .. Size /\ batch[p] = Pipeline[p]
        /\ \A j \in Jobs : (\A p \in 1 .. Taken : Pipeline[p].job # j) =>
                               row'[j] = row[j] /\ j \notin applied'
    <2>1. \A p \in 1 .. Taken : p \in 1 .. Size /\ batch[p] = Pipeline[p]
      BY <1>2, PipelineFacts DEF ProcessorInv, ProcessorTypes
    <2> QED BY <1>5, <2>1 DEF After, Taken
  <1>8. \A p \in 1 .. Taken :
           /\ Pipeline[p].job \in applied' =>
                 /\ Pipeline[p].retry => row'[Pipeline[p].job] \in {"none", "EXHAUSTED"}
                 /\ ~ Pipeline[p].retry => row'[Pipeline[p].job] = "PROCESSED"
           /\ Pipeline[p].job \notin applied' =>
                 row'[Pipeline[p].job] = row[Pipeline[p].job] /\ Pipeline[p].targets # {}
    BY <1>5, <1>7 DEF After, Taken
  <1>9. /\ \A t \in Jobs : request[t] # NoJob => request'[t] = request[t]
        /\ \A t \in Jobs : request'[t] # NoJob =>
              request[t] # NoJob \/ \E p \in 1 .. Taken : t \in Pipeline[p].targets
    BY <1>5, <1>7 DEF After, Taken
  <1>10. \A p \in 1 .. Taken : row[Pipeline[p].job] = "PROCESSING"
    BY <1>1, <1>7 DEF ProcessorInv, FinalizerPlaces, Undecided
  <1>11. \A p \in 1 .. Size : p > Taken => \A q \in 1 .. Taken : Pipeline[q].job # Pipeline[p].job
    BY <1>2, <1>7 DEF ProcessorInv, OnePlace
  <1>12. ProcessorTypes'
    BY <1>1, <1>6 DEF ProcessorInv, ProcessorTypes, Rows
  <1>13. LoopPlaces'
    BY <1>1, <1>3, <1>10, <1>11 DEF ProcessorInv, LoopPlaces
  <1>14. FinalizerPlaces'
    BY <1>1, <1>3, <1>10, <1>11 DEF ProcessorInv, FinalizerPlaces
  <1>15. Undecided'
    <2>1. \A j \in claimed : j \in Jobs /\ \A p \in 1 .. Taken : Pipeline[p].job # j
      BY <1>7 DEF ProcessorInv, ProcessorTypes, OnePlace
    <2>2. loop \in {"hold", "push"} => \A item \in current :
             item.job \in Jobs /\ \A p \in 1 .. Taken : Pipeline[p].job # item.job
      BY <1>3, <1>7 DEF ProcessorInv, OnePlace
    <2>3. ASSUME NEW p \in 1 .. Size, p > Taken \/ Pipeline[p].job \notin applied'
          PROVE  row'[Pipeline[p].job] = "PROCESSING"
      <3>1. CASE p > Taken
        <4>1. row'[Pipeline[p].job] = row[Pipeline[p].job]
          BY <1>3, <1>7, <1>11, <3>1
        <4> QED BY <3>1, <4>1 DEF ProcessorInv, Undecided
      <3>2. CASE ~ (p > Taken)
        <4>1. p \in 1 .. Taken
          BY <1>2, <3>2
        <4> QED BY <1>8, <1>10, <2>3, <3>2, <4>1
      <3> QED BY <3>1, <3>2
    <2> QED BY <1>1, <1>4, <1>7, <2>1, <2>2, <2>3 DEF ProcessorInv, Undecided
  <1>16. Decided'
    BY <1>4, <1>6, <1>7, <1>8, <1>9 DEF Decided
  <1>17. Awaited'
    BY <1>1, <1>3, <1>4, <1>5, <1>6, <1>7, <1>8, <1>9, <1>10, <1>11 DEF ProcessorInv,
       Awaited
  <1>18. Noticed'
    BY <1>1, <1>3, <1>4, <1>5, <1>6, <1>7, <1>8, <1>9, <1>10, <1>11 DEF ProcessorInv,
       Noticed
  <1>19. Held'
    <2>1. ASSUME NEW j \in Jobs, row'[j] \in {"none", "PENDING"} \/ j \in claimed
          PROVE  holds[j] = {}
      <3>1. CASE \E p \in 1 .. Taken : Pipeline[p].job = j
        <4>1. PICK p \in 1 .. Taken : Pipeline[p].job = j
          BY <3>1
        <4>2. p \in 1 .. Size /\ j \notin claimed
          BY <1>7, <4>1 DEF ProcessorInv, OnePlace
        <4>3. Pipeline[p].retry
          BY <1>8, <1>10, <2>1, <4>1, <4>2
        <4>4. Pipeline[p].targets = {}
          BY <4>2, <4>3 DEF ProcessorInv, Noticed
        <4> QED BY <4>1, <4>2, <4>4 DEF ProcessorInv, Held
      <3>2. CASE \A p \in 1 .. Taken : Pipeline[p].job # j
        BY <1>7, <2>1, <3>2 DEF ProcessorInv, Held
      <3> QED BY <3>1, <3>2
    <2>2. ~ Delivered /\ ~ Delivered' /\ (Live' <=> Live)
      BY <1>1 DEF Delivered, Live
    <2> QED BY <1>1, <1>4, <2>1, <2>2 DEF ProcessorInv, Held
  <1>20. Covered'
    <2>1. Live => \A p \in 1 .. Taken : holds[Pipeline[p].job] = Pipeline[p].targets
      BY <1>1, <1>7 DEF ProcessorInv, Held, Delivered
    <2> QED BY <1>1, <1>3, <1>7, <1>9, <2>1 DEF ProcessorInv, Covered, Live
  <1>21. HeldUndecided'
    BY <1>1, <1>3, <1>4, <1>5, <1>6, <1>7, <1>8, <1>9, <1>10, <1>11 DEF ProcessorInv,
       HeldUndecided, Live
  <1>22. Announced'
    BY <1>1, <1>3, <1>4, <1>5, <1>6, <1>7, <1>8, <1>9, <1>10, <1>11 DEF ProcessorInv,
       Announced, InState
  <1>23. NotLost'
    BY <1>1, <1>3, <1>4, <1>5, <1>6, <1>7, <1>8, <1>9, <1>10, <1>11 DEF ProcessorInv,
       NotLost, Halted, Stopping
  <1>24. OnePlace' /\ CampaignOver'
    BY <1>1, <1>4 DEF ProcessorInv, OnePlace, CampaignOver, Halted, Stopping
  <1> QED BY <1>12, <1>13, <1>14, <1>15, <1>16, <1>17, <1>18, <1>19, <1>20, <1>21, <1>22,
     <1>23, <1>24 DEF ProcessorInv

(* A batch that does not commit is recorded as an error.                   *)
LEMMA CommitFailsKeeps ==
    ASSUME ProcessorInv, CommitFails
    PROVE  ProcessorInv'
  <1>1. /\ finalizer = "commit" /\ finalizer' = "failed" /\ error' = TRUE
        /\ UNCHANGED <<row, request, loop, claimed, current, result, batch, applied, queue,
                      announced, holds, indexed, rendezvous, runtime>>
    BY DEF CommitFails, Fault, storeVars, loopVars, finalizerVars, coordinatorVars,
       boundVars
  <1>2. Taken \in Nat /\ Size \in Nat /\ Taken <= Size
    BY ItemFacts DEF ProcessorInv
  <1>3. /\ \A p \in 1 .. Size : Pipeline[p].job \in Jobs /\ Pipeline[p].targets \subseteq Jobs
        /\ \A item \in current : item.job \in Jobs /\ item.targets \subseteq Jobs
    BY ItemFacts DEF ProcessorInv
  <1>4. Pipeline' = Pipeline /\ Size' = Size /\ Taken' = Taken
    BY <1>1, SamePipeline
  <1>5. LoopPlaces'
    BY <1>1, <1>2, <1>3, <1>4 DEF ProcessorInv, LoopPlaces
  <1>6. FinalizerPlaces'
    BY <1>1, <1>2, <1>3, <1>4 DEF ProcessorInv, FinalizerPlaces
  <1>7. Noticed'
    BY <1>1, <1>2, <1>3, <1>4 DEF ProcessorInv, Noticed
  <1>8. Held'
    BY <1>1, <1>2, <1>3, <1>4 DEF ProcessorInv, Held, Live, Delivered
  <1>9. NotLost'
    BY <1>1, <1>2, <1>3, <1>4 DEF ProcessorInv, NotLost, Halted, Stopping
  <1>10. /\ ProcessorTypes' /\ OnePlace' /\ Undecided' /\ Decided'
         /\ CampaignOver' /\ Awaited' /\ Covered' /\ HeldUndecided'
         /\ Announced'
    BY <1>1, <1>4 DEF ProcessorInv, ProcessorTypes, OnePlace, Undecided, Decided,
       CampaignOver, Halted, Stopping, Awaited, Covered, Live, HeldUndecided, Announced,
       InState
  <1> QED BY <1>5, <1>6, <1>7, <1>8, <1>9, <1>10 DEF ProcessorInv

(* The batch is tried again, or reported as failed.                        *)
LEMMA RetryOrGiveUpKeeps ==
    ASSUME ProcessorInv, RetryOrGiveUp
    PROVE  ProcessorInv'
  <1>1. /\ finalizer = "failed" /\ finalizer' \in {"commit", "report"}
        /\ UNCHANGED <<row, request, loop, claimed, current, result, batch, applied, queue,
                      error, announced, holds, indexed, rendezvous, runtime>>
    BY DEF RetryOrGiveUp, FinalizerTo, storeVars, loopVars, finalizerVars, coordinatorVars,
       boundVars
  <1>2. Taken \in Nat /\ Size \in Nat /\ Taken <= Size
    BY ItemFacts DEF ProcessorInv
  <1>3. /\ \A p \in 1 .. Size : Pipeline[p].job \in Jobs /\ Pipeline[p].targets \subseteq Jobs
        /\ \A item \in current : item.job \in Jobs /\ item.targets \subseteq Jobs
    BY ItemFacts DEF ProcessorInv
  <1>4. Pipeline' = Pipeline /\ Size' = Size /\ Taken' = Taken
    BY <1>1, SamePipeline
  <1>5. LoopPlaces'
    BY <1>1, <1>2, <1>3, <1>4 DEF ProcessorInv, LoopPlaces
  <1>6. FinalizerPlaces'
    BY <1>1, <1>2, <1>3, <1>4 DEF ProcessorInv, FinalizerPlaces
  <1>7. Noticed'
    BY <1>1, <1>2, <1>3, <1>4 DEF ProcessorInv, Noticed, FinalizerPlaces
  <1>8. Held'
    BY <1>1, <1>2, <1>3, <1>4 DEF ProcessorInv, Held, Live, Delivered
  <1>9. /\ ProcessorTypes' /\ OnePlace' /\ Undecided' /\ Decided'
        /\ CampaignOver' /\ Awaited' /\ Covered' /\ HeldUndecided'
        /\ Announced' /\ NotLost'
    BY <1>1, <1>4 DEF ProcessorInv, ProcessorTypes, OnePlace, Undecided, Decided,
       CampaignOver, Halted, Stopping, Awaited, Covered, Live, HeldUndecided, Announced,
       InState, NotLost
  <1> QED BY <1>5, <1>6, <1>7, <1>8, <1>9 DEF ProcessorInv

(* The first of the batch was applied with cancellations.                  *)
LEMMA DeliverCancellationsKeeps ==
    ASSUME ProcessorInv, DeliverCancellations
    PROVE  ProcessorInv'
  <1>1. /\ finalizer = "report" /\ batch # <<>>
        /\ Head(batch).job \in applied /\ Head(batch).targets # {}
        /\ finalizer' = "deliver"
        /\ rendezvous' = [rendezvous EXCEPT !["finalizer"] = "enqueue"]
        /\ UNCHANGED <<row, request, loop, claimed, current, result, batch, applied, queue,
                      error, announced, holds, indexed, runtime>>
    BY DEF DeliverCancellations, storeVars, loopVars, finalizerVars, coordinatorVars,
       boundVars
  <1>2. Taken \in Nat /\ Size \in Nat /\ Taken <= Size
    BY ItemFacts DEF ProcessorInv
  <1>3. /\ \A p \in 1 .. Size : Pipeline[p].job \in Jobs /\ Pipeline[p].targets \subseteq Jobs
        /\ \A item \in current : item.job \in Jobs /\ item.targets \subseteq Jobs
    BY ItemFacts DEF ProcessorInv
  <1>4. Pipeline' = Pipeline /\ Size' = Size /\ Taken' = Taken
    BY <1>1, SamePipeline
  <1>5. /\ rendezvous'["finalizer"] = "enqueue" /\ rendezvous'["loop"] = rendezvous["loop"]
        /\ rendezvous' \in [Threads -> {"idle", "enqueue", "queued", "blocked", "returned"}]
    BY <1>1 DEF ProcessorInv, ProcessorTypes, Threads
  <1>6. Taken # 0 /\ Pipeline[1].job \in applied /\ Pipeline[1].targets # {}
    BY <1>1, PipelineFacts DEF ProcessorInv, ProcessorTypes
  <1>7. ProcessorTypes'
    BY <1>1, <1>2, <1>3, <1>4, <1>5, <1>6 DEF ProcessorInv, ProcessorTypes
  <1>8. LoopPlaces'
    BY <1>1, <1>2, <1>3, <1>4, <1>5, <1>6 DEF ProcessorInv, LoopPlaces
  <1>9. FinalizerPlaces'
    BY <1>1, <1>2, <1>3, <1>4, <1>5, <1>6 DEF ProcessorInv, FinalizerPlaces
  <1>10. Noticed'
    BY <1>1, <1>2, <1>3, <1>4, <1>5, <1>6 DEF ProcessorInv, Noticed
  <1>11. Held'
    BY <1>1, <1>2, <1>3, <1>4, <1>5, <1>6 DEF ProcessorInv, Held, Live, Delivered
  <1>12. /\ OnePlace' /\ Undecided' /\ Decided' /\ CampaignOver'
         /\ Awaited' /\ Covered' /\ HeldUndecided' /\ Announced'
         /\ NotLost'
    BY <1>1, <1>4 DEF ProcessorInv, OnePlace, Undecided, Decided, CampaignOver, Halted,
       Stopping, Awaited, Covered, Live, HeldUndecided, Announced, InState, NotLost
  <1> QED BY <1>7, <1>8, <1>9, <1>10, <1>11, <1>12 DEF ProcessorInv

(* The first of the pipeline leaves it: decided, delivered and announced, or *)
(* not applied and waited for by the loop.                                 *)
LEMMA ReportItemKeeps ==
    ASSUME ProcessorInv, ReportItem, loop # "start"
    PROVE  ProcessorInv'
  <1>1. /\ batch # <<>> /\ batch' = Tail(batch) /\ finalizer' = "report"
        /\ rendezvous' = [rendezvous EXCEPT !["finalizer"] = "idle"]
        /\ UNCHANGED <<row, request, loop, claimed, current, applied, queue, error, holds,
                      indexed, runtime>>
    BY DEF ReportItem, storeVars, loopVars, finalizerVars, coordinatorVars, boundVars
  <1>2. Taken \in Nat /\ Size \in Nat /\ Taken <= Size
    BY ItemFacts DEF ProcessorInv
  <1>3. /\ \A p \in 1 .. Size : Pipeline[p].job \in Jobs /\ Pipeline[p].targets \subseteq Jobs
        /\ \A item \in current : item.job \in Jobs /\ item.targets \subseteq Jobs
    BY ItemFacts DEF ProcessorInv
  <1>4. Taken # 0 /\ Head(batch) = Pipeline[1]
    BY <1>1, PipelineFacts DEF ProcessorInv, ProcessorTypes
  <1>5. /\ \/ /\ finalizer = "report"
              /\ Pipeline[1].job \notin applied \/ Pipeline[1].targets = {}
           \/ Delivered
        /\ announced' = IF Pipeline[1].job \in applied /\ ~ Pipeline[1].retry
                        THEN announced \cup {Pipeline[1].job} ELSE announced
        /\ result' = IF Pipeline[1] \in current
                     THEN IF Pipeline[1].job \in applied THEN "ok" ELSE "failed" ELSE result
    BY <1>4 DEF ReportItem, Told, Delivered
  <1>6. batch' \in Seq(Items) /\ Taken' = Taken - 1 /\ Size' = Size - 1
    BY <1>1, PipelineReport DEF ProcessorInv, ProcessorTypes
  <1>7. 1 \in 1 .. Taken /\ 1 \in 1 .. Size
    BY <1>1, PipelineReport DEF ProcessorInv, ProcessorTypes
  <1>8. /\ \A p \in 1 .. Size' : p + 1 \in 1 .. Size /\ p + 1 # 1 /\ Pipeline'[p] = Pipeline[p + 1]
        /\ \A p \in 1 .. Taken' : p + 1 \in 1 .. Taken /\ Pipeline'[p] = Pipeline[p + 1]
    BY <1>1, PipelineReport DEF ProcessorInv, ProcessorTypes
  <1>9. /\ \A p \in 1 .. Size : p # 1 => \E q \in 1 .. Size' : Pipeline'[q] = Pipeline[p]
        /\ \A p \in 1 .. Taken : p # 1 => \E q \in 1 .. Taken' : Pipeline'[q] = Pipeline[p]
    BY <1>1, <1>2, PipelineReport DEF ProcessorInv, ProcessorTypes
  <1>10. /\ rendezvous'["finalizer"] = "idle" /\ rendezvous'["loop"] = rendezvous["loop"]
         /\ rendezvous' \in [Threads -> {"idle", "enqueue", "queued", "blocked", "returned"}]
    BY <1>1 DEF ProcessorInv, ProcessorTypes, Threads
  <1>11. /\ Pipeline[1].job \notin applied => /\ row[Pipeline[1].job] = "PROCESSING"
                                              /\ Pipeline[1] \in current \/ error
         /\ Pipeline[1].job \in applied =>
               /\ Pipeline[1].retry => row[Pipeline[1].job] \in {"none", "PENDING", "EXHAUSTED"}
               /\ ~ Pipeline[1].retry => row[Pipeline[1].job] = "PROCESSED"
         /\ Pipeline[1].retry => Pipeline[1].targets = {}
    <2>1. finalizer \in {"report", "deliver"}
      BY <1>5 DEF Delivered
    <2> QED BY <1>7, <2>1 DEF ProcessorInv, Undecided, Decided, Noticed
  <1>12. ProcessorTypes'
    BY <1>1, <1>3, <1>10, <1>11 DEF ProcessorInv, ProcessorTypes
  <1>13. LoopPlaces'
    BY <1>1, <1>10 DEF ProcessorInv, LoopPlaces
  <1>14. FinalizerPlaces'
    BY <1>1, <1>10 DEF ProcessorInv, FinalizerPlaces
  <1>15. OnePlace'
    <2>1. ASSUME NEW p \in 1 .. Size', NEW q \in 1 .. Size', Pipeline'[p].job = Pipeline'[q].job
          PROVE  p = q
      <3>1. p + 1 = q + 1
        BY <1>8, <2>1 DEF ProcessorInv, OnePlace
      <3> QED BY <3>1
    <2>2. /\ \A p \in 1 .. Size' : Pipeline'[p].job \notin claimed
          /\ loop \in {"hold", "push"} =>
                \A item \in current, p \in 1 .. Size' : Pipeline'[p].job # item.job
      BY <1>8 DEF ProcessorInv, OnePlace
    <2> QED BY <1>1, <2>1, <2>2 DEF OnePlace
  <1>16. Undecided'
    <2>1. ASSUME NEW p \in 1 .. Size', p > Taken' \/ Pipeline'[p].job \notin applied
          PROVE  row[Pipeline'[p].job] = "PROCESSING"
      <3>1. p + 1 > Taken \/ Pipeline[p + 1].job \notin applied
        BY <1>2, <1>6, <1>8, <2>1
      <3> QED BY <1>8, <3>1 DEF ProcessorInv, Undecided
    <2> QED BY <1>1, <2>1 DEF ProcessorInv, Undecided
  <1>17. Decided'
    BY <1>1, <1>8 DEF ProcessorInv, Decided
  <1>18. CampaignOver'
    <2>1. Size # 0
      BY <1>2, <1>4
    <2> QED BY <1>1, <2>1 DEF ProcessorInv, CampaignOver, Halted, Stopping
  <1>19. Awaited'
    <2> SUFFICES ASSUME loop \in {"await", "awaiting"}
                 PROVE  /\ result' = "none" => Size' # 0 /\ Pipeline'[Size'] \in current
                        /\ result' # "none" => Size' = 0
                        /\ result' = "ok" => \A item \in current : row[item.job] = "PROCESSED"
      BY <1>1 DEF Awaited
    <2>1. result = "none" /\ Pipeline[Size] \in current /\ Size \in 1 .. Size
      BY <1>2, <1>7 DEF ProcessorInv, Awaited
    <2>2. CASE Pipeline[1] \in current
      <3>1. Pipeline[1] = Pipeline[Size] /\ \A item \in current : item = Pipeline[1]
        BY <2>1, <2>2 DEF ProcessorInv, LoopPlaces
      <3>2. Size = 1
        BY <1>7, <2>1, <3>1 DEF ProcessorInv, OnePlace
      <3>3. Size' = 0 /\ result' # "none"
        BY <1>5, <1>6, <2>2, <3>2
      <3>4. Pipeline[1].targets # {}
        BY <2>2 DEF ProcessorInv, LoopPlaces
      <3>5. result' = "ok" => row[Pipeline[1].job] = "PROCESSED"
        BY <1>5, <1>11, <2>2, <3>4
      <3> QED BY <3>1, <3>3, <3>5
    <2>3. CASE Pipeline[1] \notin current
      <3>1. Size # 1 /\ result' = "none"
        BY <1>5, <2>1, <2>3
      <3>2. Size' # 0 /\ Size' \in 1 .. Size' /\ Size' + 1 = Size
        BY <1>2, <1>6, <1>7, <3>1
      <3>3. Pipeline'[Size'] = Pipeline[Size]
        BY <1>8, <3>2
      <3> QED BY <2>1, <3>1, <3>2, <3>3
    <2> QED BY <2>2, <2>3
  <1>20. Noticed'
    <2>1. finalizer \in {"report", "deliver"}
      BY <1>5 DEF Delivered
    <2> QED BY <1>1, <1>8, <2>1 DEF ProcessorInv, Noticed
  <1>21. Held'
    <2>1. ~ Delivered' /\ (Live' <=> Live)
      BY <1>1 DEF Delivered, Live
    <2>2. /\ \A p \in 1 .. Size' : holds[Pipeline'[p].job] \in {{}, Pipeline'[p].targets}
          /\ Live => \A p \in 1 .. Size' : holds[Pipeline'[p].job] = Pipeline'[p].targets
      BY <1>8 DEF ProcessorInv, Held
    <2> QED BY <1>1, <1>10, <2>1, <2>2 DEF ProcessorInv, Held
  <1>22. HeldUndecided'
    <2> SUFFICES ASSUME Live, NEW j \in Jobs, holds[j] # {}
                 PROVE  row[j] = "PROCESSING" \/ \E p \in 1 .. Taken' : Pipeline'[p].job = j
      BY <1>1 DEF HeldUndecided, Live
    <2>1. CASE row[j] = "PROCESSING"
      BY <2>1
    <2>2. CASE \E p \in 1 .. Taken : p # 1 /\ Pipeline[p].job = j
      BY <1>9, <2>2
    <2>3. CASE Pipeline[1].job = j
      <3>1. holds[j] \in {{}, Pipeline[1].targets} /\ (Delivered => holds[j] = {})
        BY <1>7, <2>3 DEF ProcessorInv, Held
      <3> QED BY <1>5, <1>11, <2>3, <3>1
    <2> QED BY <2>1, <2>2, <2>3 DEF ProcessorInv, HeldUndecided
  <1>23. Announced'
    <2>1. announced' \subseteq InState("PROCESSED")'
      BY <1>1, <1>3, <1>5, <1>7, <1>11 DEF ProcessorInv, Announced, InState
    <2>2. ASSUME NEW j \in Jobs, row[j] = "PROCESSED"
          PROVE  j \in announced' \/ \E p \in 1 .. Taken' : Pipeline'[p].job = j
      <3>1. CASE j \in announced
        BY <1>5, <3>1
      <3>2. CASE \E p \in 1 .. Taken : p # 1 /\ Pipeline[p].job = j
        BY <1>9, <3>2
      <3>3. CASE Pipeline[1].job = j
        BY <1>5, <1>11, <2>2, <3>3
      <3> QED BY <2>2, <3>1, <3>2, <3>3 DEF ProcessorInv, Announced
    <2> QED BY <1>1, <2>1, <2>2 DEF Announced
  <1>24. NotLost'
    <2> SUFFICES ASSUME NEW j \in Jobs, row[j] = "PROCESSING"
                 PROVE  \/ j \in claimed \/ \E item \in current : item.job = j
                        \/ \E p \in 1 .. Size' : Pipeline'[p].job = j
                        \/ error \/ Halted
      BY <1>1 DEF NotLost, Halted, Stopping
    <2>1. CASE \E p \in 1 .. Size : p # 1 /\ Pipeline[p].job = j
      BY <1>9, <2>1
    <2>2. CASE Pipeline[1].job = j
      BY <1>11, <2>2
    <2> QED BY <2>1, <2>2 DEF ProcessorInv, NotLost
  <1>25. Covered'
    BY <1>1 DEF ProcessorInv, Covered, Live
  <1> QED BY <1>12, <1>13, <1>14, <1>15, <1>16, <1>17, <1>18, <1>19, <1>20, <1>21, <1>22,
     <1>23, <1>24, <1>25 DEF ProcessorInv

(* The finalization thread waits for the next batch, or leaves.            *)
LEMMA FinalizerMovesKeeps ==
    ASSUME ProcessorInv, BatchReported \/ FinalizerExits, loop # "start"
    PROVE  ProcessorInv'
  <1>1. /\ \/ finalizer = "report" /\ batch = <<>> /\ finalizer' = "wait"
           \/ finalizer = "wait" /\ finalizer' = "done"
        /\ UNCHANGED <<row, request, loop, claimed, current, result, batch, applied, queue,
                      error, announced, holds, indexed, rendezvous, runtime>>
    BY DEF BatchReported, FinalizerExits, FinalizerTo, storeVars, loopVars, finalizerVars,
       coordinatorVars, boundVars
  <1>2. Taken \in Nat /\ Size \in Nat /\ Taken <= Size
    BY ItemFacts DEF ProcessorInv
  <1>3. /\ \A p \in 1 .. Size : Pipeline[p].job \in Jobs /\ Pipeline[p].targets \subseteq Jobs
        /\ \A item \in current : item.job \in Jobs /\ item.targets \subseteq Jobs
    BY ItemFacts DEF ProcessorInv
  <1>4. Pipeline' = Pipeline /\ Size' = Size /\ Taken' = Taken
    BY <1>1, SamePipeline
  <1>5. batch = <<>> => Taken = 0
    BY PipelineFacts DEF ProcessorInv, ProcessorTypes
  <1>6. LoopPlaces'
    BY <1>1, <1>2, <1>3, <1>4, <1>5 DEF ProcessorInv, LoopPlaces
  <1>7. FinalizerPlaces'
    BY <1>1, <1>2, <1>3, <1>4, <1>5 DEF ProcessorInv, FinalizerPlaces
  <1>8. Noticed'
    BY <1>1, <1>2, <1>3, <1>4, <1>5 DEF ProcessorInv, Noticed
  <1>9. Held'
    BY <1>1, <1>2, <1>3, <1>4, <1>5 DEF ProcessorInv, Held, Live, Delivered
  <1>10. /\ ProcessorTypes' /\ OnePlace' /\ Undecided' /\ Decided'
         /\ CampaignOver' /\ Awaited' /\ Covered' /\ HeldUndecided'
         /\ Announced' /\ NotLost'
    BY <1>1, <1>4 DEF ProcessorInv, ProcessorTypes, OnePlace, Undecided, Decided,
       CampaignOver, Halted, Stopping, Awaited, Covered, Live, HeldUndecided, Announced,
       InState, NotLost
  <1> QED BY <1>6, <1>7, <1>8, <1>9, <1>10 DEF ProcessorInv

(* A thread that asks the actor waits for it, or returns because the actor *)
(* is being stopped.                                                       *)
LEMMA RendezvousKeeps ==
    ASSUME ProcessorInv, NEW t \in Threads, EnqueueActor(t) \/ EvaluateRendezvous(t)
    PROVE  ProcessorInv'
  <1>1. /\ rendezvous[t] \in {"enqueue", "queued"}
        /\ \/ rendezvous' = [rendezvous EXCEPT ![t] = "returned"] /\ ActorStopping
           \/ \E place \in {"queued", "blocked"} : rendezvous' = [rendezvous EXCEPT ![t] = place]
        /\ UNCHANGED <<row, request, loop, claimed, current, result, finalizer, batch, applied,
                      queue, error, announced, holds, indexed, runtime>>
    BY DEF EnqueueActor, EvaluateRendezvous, RendezvousTo, storeVars, loopVars,
       finalizerVars, coordinatorVars, boundVars
  <1>2. Taken \in Nat /\ Size \in Nat /\ Taken <= Size
    BY ItemFacts DEF ProcessorInv
  <1>3. /\ \A p \in 1 .. Size : Pipeline[p].job \in Jobs /\ Pipeline[p].targets \subseteq Jobs
        /\ \A item \in current : item.job \in Jobs /\ item.targets \subseteq Jobs
    BY ItemFacts DEF ProcessorInv
  <1>4. Pipeline' = Pipeline /\ Size' = Size /\ Taken' = Taken
    BY <1>1, SamePipeline
  <1>5. ActorStopping => ~ Live
    BY DEF ActorStopping, Stopping, Live
  <1>6. /\ rendezvous'[t] # "idle"
        /\ rendezvous'[t] = "returned" => ~ Live
        /\ \A u \in Threads : u # t => rendezvous'[u] = rendezvous[u]
        /\ rendezvous' \in [Threads -> {"idle", "enqueue", "queued", "blocked", "returned"}]
    BY <1>1, <1>5 DEF ProcessorInv, ProcessorTypes
  <1>7. /\ t = "loop" \/ t = "finalizer"
        /\ t # "loop" => rendezvous'["loop"] = rendezvous["loop"]
        /\ t # "finalizer" => rendezvous'["finalizer"] = rendezvous["finalizer"]
    BY <1>6 DEF Threads
  <1>8. ProcessorTypes'
    BY <1>1, <1>2, <1>7 DEF ProcessorInv, ProcessorTypes
  <1>9. LoopPlaces'
    BY <1>1, <1>4, <1>6, <1>7 DEF ProcessorInv, LoopPlaces
  <1>10. FinalizerPlaces'
    BY <1>1, <1>4, <1>6, <1>7 DEF ProcessorInv, FinalizerPlaces
  <1>11. Held'
    BY <1>1, <1>4, <1>5, <1>6, <1>7 DEF ProcessorInv, Held, Live, Delivered
  <1>12. /\ OnePlace' /\ Undecided' /\ Decided' /\ CampaignOver'
         /\ Awaited' /\ Noticed' /\ Covered' /\ HeldUndecided'
         /\ Announced' /\ NotLost'
    BY <1>1, <1>4 DEF ProcessorInv, OnePlace, Undecided, Decided, CampaignOver, Halted,
       Stopping, Awaited, Noticed, Covered, Live, HeldUndecided, Announced, InState, NotLost
  <1> QED BY <1>8, <1>9, <1>10, <1>11, <1>12 DEF ProcessorInv

(* The coordinator takes the hold of the finalization in hand.             *)
LEMMA RegisterPendingKeeps ==
    ASSUME ProcessorInv, RegisterCancellationCommitPending
    PROVE  ProcessorInv'
  <1>1. /\ rendezvous["loop"] \in {"queued", "blocked"}
        /\ rendezvous' = [rendezvous EXCEPT !["loop"] = "returned"]
        /\ \E item \in current : holds' = [holds EXCEPT ![item.job] = item.targets]
        /\ UNCHANGED <<row, request, loop, claimed, current, result, finalizer, batch, applied,
                      queue, error, announced, indexed, runtime>>
    BY DEF RegisterCancellationCommitPending, ActorRuns, RendezvousTo, storeVars, loopVars,
       finalizerVars, coordinatorVars, boundVars
  <1>2. Taken \in Nat /\ Size \in Nat /\ Taken <= Size
    BY ItemFacts DEF ProcessorInv
  <1>3. /\ \A p \in 1 .. Size : Pipeline[p].job \in Jobs /\ Pipeline[p].targets \subseteq Jobs
        /\ \A item \in current : item.job \in Jobs /\ item.targets \subseteq Jobs
    BY ItemFacts DEF ProcessorInv
  <1>4. Pipeline' = Pipeline /\ Size' = Size /\ Taken' = Taken
    BY <1>1, SamePipeline
  <1>5. /\ rendezvous'["loop"] = "returned" /\ rendezvous'["finalizer"] = rendezvous["finalizer"]
        /\ rendezvous' \in [Threads -> {"idle", "enqueue", "queued", "blocked", "returned"}]
    BY <1>1 DEF ProcessorInv, ProcessorTypes, Threads
  <1>6. loop = "hold"
    BY <1>1 DEF ProcessorInv, LoopPlaces
  <1>7. PICK item \in current : holds' = [holds EXCEPT ![item.job] = item.targets]
    BY <1>1
  <1>8. /\ \A x \in current : x = item
        /\ item.job \in Jobs /\ item.targets \subseteq Jobs /\ item.job \notin claimed
        /\ row[item.job] = "PROCESSING" /\ holds[item.job] = {}
        /\ \A p \in 1 .. Size : Pipeline[p].job # item.job
    BY <1>1, <1>3, <1>6 DEF ProcessorInv, LoopPlaces, Undecided, Held, OnePlace
  <1>9. /\ holds'[item.job] = item.targets /\ holds' \in [Jobs -> SUBSET Jobs]
        /\ \A j \in Jobs : j # item.job => holds'[j] = holds[j]
    BY <1>7, <1>8 DEF ProcessorInv, ProcessorTypes
  <1>10. ProcessorTypes'
    BY <1>1, <1>5, <1>9 DEF ProcessorInv, ProcessorTypes
  <1>11. LoopPlaces'
    BY <1>1, <1>2, <1>9 DEF ProcessorInv, LoopPlaces
  <1>12. FinalizerPlaces'
    BY <1>1, <1>2, <1>3, <1>4, <1>9 DEF ProcessorInv, FinalizerPlaces
  <1>13. Held'
    <2>1. (Live' <=> Live) /\ (Delivered' <=> Delivered)
      BY <1>1, <1>5 DEF Live, Delivered
    <2>2. /\ \A j \in Jobs : row[j] \in {"none", "PENDING"} \/ j \in claimed => holds'[j] = {}
          /\ \A p \in 1 .. Size : holds'[Pipeline[p].job] = holds[Pipeline[p].job]
      BY <1>3, <1>8, <1>9 DEF ProcessorInv, Held
    <2>3. Delivered => 1 \in 1 .. Size
      BY <1>2 DEF ProcessorInv, FinalizerPlaces, Delivered
    <2>4. /\ \A x \in current : holds'[x.job] = x.targets
          /\ rendezvous'["loop"] = "returned"
      BY <1>5, <1>8, <1>9
    <2> QED BY <1>1, <1>4, <2>1, <2>2, <2>3, <2>4 DEF ProcessorInv, Held
  <1>14. Covered'
    BY <1>1, <1>8, <1>9 DEF ProcessorInv, Covered, Live
  <1>15. HeldUndecided'
    BY <1>1, <1>4, <1>8, <1>9 DEF ProcessorInv, HeldUndecided, Live
  <1>16. /\ OnePlace' /\ Undecided' /\ Decided' /\ CampaignOver'
         /\ Awaited' /\ Noticed' /\ Announced' /\ NotLost'
    BY <1>1, <1>4 DEF ProcessorInv, OnePlace, Undecided, Decided, CampaignOver, Halted,
       Stopping, Awaited, Noticed, Announced, InState, NotLost
  <1> QED BY <1>10, <1>11, <1>12, <1>13, <1>14, <1>15, <1>16 DEF ProcessorInv

(* The coordinator turns the hold of the first of the batch into entries of *)
(* its index.                                                              *)
LEMMA RegisterCommittedKeeps ==
    ASSUME ProcessorInv, RegisterCommittedCancellations
    PROVE  ProcessorInv'
  <1>1. /\ rendezvous["finalizer"] \in {"queued", "blocked"}
        /\ rendezvous' = [rendezvous EXCEPT !["finalizer"] = "returned"]
        /\ indexed' = indexed \cup Head(batch).targets
        /\ holds' = [holds EXCEPT ![Head(batch).job] = {}]
        /\ UNCHANGED <<row, request, loop, claimed, current, result, finalizer, batch, applied,
                      queue, error, announced, runtime>>
    BY DEF RegisterCommittedCancellations, ActorRuns, RendezvousTo, storeVars, loopVars,
       finalizerVars, coordinatorVars, boundVars
  <1>2. Taken \in Nat /\ Size \in Nat /\ Taken <= Size
    BY ItemFacts DEF ProcessorInv
  <1>3. /\ \A p \in 1 .. Size : Pipeline[p].job \in Jobs /\ Pipeline[p].targets \subseteq Jobs
        /\ \A item \in current : item.job \in Jobs /\ item.targets \subseteq Jobs
    BY ItemFacts DEF ProcessorInv
  <1>4. Pipeline' = Pipeline /\ Size' = Size /\ Taken' = Taken
    BY <1>1, SamePipeline
  <1>5. /\ rendezvous'["finalizer"] = "returned" /\ rendezvous'["loop"] = rendezvous["loop"]
        /\ rendezvous' \in [Threads -> {"idle", "enqueue", "queued", "blocked", "returned"}]
    BY <1>1 DEF ProcessorInv, ProcessorTypes, Threads
  <1>6. finalizer = "deliver" /\ Taken # 0 /\ Pipeline[1].job \in applied
    BY <1>1 DEF ProcessorInv, FinalizerPlaces
  <1>7. Head(batch) = Pipeline[1] /\ 1 \in 1 .. Taken /\ 1 \in 1 .. Size
    BY <1>2, <1>6, PipelineFacts DEF ProcessorInv, ProcessorTypes
  <1>8. /\ holds'[Pipeline[1].job] = {} /\ holds' \in [Jobs -> SUBSET Jobs]
        /\ \A j \in Jobs : j # Pipeline[1].job => holds'[j] = holds[j]
        /\ indexed' = indexed \cup Pipeline[1].targets
    BY <1>1, <1>3, <1>7 DEF ProcessorInv, ProcessorTypes
  <1>9. ProcessorTypes'
    BY <1>1, <1>5, <1>8 DEF ProcessorInv, ProcessorTypes
  <1>10. LoopPlaces'
    BY <1>1 DEF ProcessorInv, LoopPlaces
  <1>11. FinalizerPlaces'
    BY <1>1, <1>3, <1>4 DEF ProcessorInv, FinalizerPlaces
  <1>12. Held'
    <2>1. (Live' <=> Live) /\ Delivered' /\ ~ Delivered
      BY <1>1, <1>5, <1>6 DEF Live, Delivered
    <2>2. \A j \in Jobs : row[j] \in {"none", "PENDING"} \/ j \in claimed => holds'[j] = {}
      BY <1>8 DEF ProcessorInv, Held
    <2>3. loop \in {"hold", "push"} => \A item \in current : holds'[item.job] = holds[item.job]
      BY <1>3, <1>7, <1>8 DEF ProcessorInv, OnePlace
    <2>4. \A p \in 1 .. Size : p # 1 => holds'[Pipeline[p].job] = holds[Pipeline[p].job]
      BY <1>3, <1>7, <1>8 DEF ProcessorInv, OnePlace
    <2> QED BY <1>1, <1>4, <1>5, <1>8, <2>1, <2>2, <2>3, <2>4 DEF ProcessorInv, Held
  <1>13. Covered'
    <2>1. Live => holds[Pipeline[1].job] = Pipeline[1].targets
      BY <1>1, <1>7 DEF ProcessorInv, Held, Delivered
    <2> QED BY <1>1, <1>8, <2>1 DEF ProcessorInv, Covered, Live
  <1>14. HeldUndecided'
    BY <1>1, <1>2, <1>3, <1>4 DEF ProcessorInv, HeldUndecided, Live
  <1>15. /\ OnePlace' /\ Undecided' /\ Decided' /\ CampaignOver'
         /\ Awaited' /\ Noticed' /\ Announced' /\ NotLost'
    BY <1>1, <1>4 DEF ProcessorInv, OnePlace, Undecided, Decided, CampaignOver, Halted,
       Stopping, Awaited, Noticed, Announced, InState, NotLost
  <1> QED BY <1>9, <1>10, <1>11, <1>12, <1>13, <1>14, <1>15 DEF ProcessorInv

(* Starting up, shutting down and crashing move no finalization.           *)
LEMMA ShutdownKeeps ==
    ASSUME ProcessorInv, RuntimeStep \/ BeginShutdown \/ Crash
    PROVE  ProcessorInv'
  <1>1. /\ \/ runtime' = "crashed"
           \/ runtime = "starting" /\ runtime' = "up" /\ loop # "start"
           \/ runtime = "up" /\ runtime' = "quiescing"
           \/ runtime = "quiescing" /\ runtime' = "actorStop"
           \/ runtime = "actorStop" /\ runtime' = "actorGone"
           \/ runtime = "actorGone" /\ runtime' = "stop"
           \/ runtime = "stop" /\ runtime' = "notified"
           \/ runtime = "notified" /\ runtime' = "down"
        /\ loop' = loop \/ (loop = "asleep" /\ loop' = "wait")
        /\ UNCHANGED <<row, request, claimed, current, result, finalizer, batch, applied, queue,
                      error, announced, holds, indexed, rendezvous>>
    BY DEF RuntimeStep, BeginShutdown, Crash, OpenCancellationAdmission, StopActor,
       ActorExits, SetStop, NotifyStop, Joined, ShutdownStep, storeVars, loopVars,
       finalizerVars, coordinatorVars, boundVars
  <1>2. Taken \in Nat /\ Size \in Nat /\ Taken <= Size
    BY ItemFacts DEF ProcessorInv
  <1>3. /\ \A p \in 1 .. Size : Pipeline[p].job \in Jobs /\ Pipeline[p].targets \subseteq Jobs
        /\ \A item \in current : item.job \in Jobs /\ item.targets \subseteq Jobs
    BY ItemFacts DEF ProcessorInv
  <1>4. Pipeline' = Pipeline /\ Size' = Size /\ Taken' = Taken
    BY <1>1, SamePipeline
  <1>5. (Live' => Live) /\ (Halted => Halted')
    BY <1>1 DEF Live, Halted, Stopping
  <1>6. LoopPlaces'
    BY <1>1, <1>2, <1>3, <1>4, <1>5 DEF ProcessorInv, LoopPlaces
  <1>7. OnePlace'
    BY <1>1, <1>2, <1>3, <1>4, <1>5 DEF ProcessorInv, OnePlace
  <1>8. Undecided'
    BY <1>1, <1>2, <1>3, <1>4, <1>5 DEF ProcessorInv, Undecided
  <1>9. CampaignOver'
    BY <1>1, <1>3, <1>4, <1>5 DEF ProcessorInv, CampaignOver, Halted
  <1>10. Awaited'
    BY <1>1, <1>2, <1>3, <1>4, <1>5 DEF ProcessorInv, Awaited
  <1>11. Held'
    BY <1>1, <1>3, <1>4, <1>5 DEF ProcessorInv, Held, Live, Delivered
  <1>12. Covered'
    BY <1>1, <1>2, <1>3, <1>4, <1>5 DEF ProcessorInv, Covered, Live
  <1>13. HeldUndecided'
    BY <1>1, <1>2, <1>3, <1>4, <1>5 DEF ProcessorInv, HeldUndecided, Live
  <1>14. NotLost'
    BY <1>1, <1>3, <1>4, <1>5 DEF ProcessorInv, NotLost, Halted
  <1>15. /\ ProcessorTypes' /\ FinalizerPlaces' /\ Decided' /\ Noticed'
         /\ Announced'
    BY <1>1, <1>4 DEF ProcessorInv, ProcessorTypes, FinalizerPlaces, Decided, Noticed,
       Announced, InState
  <1> QED BY <1>6, <1>7, <1>8, <1>9, <1>10, <1>11, <1>12, <1>13, <1>14, <1>15 DEF
     ProcessorInv

(* A new run takes all that is PROCESSING in hand and indexes every request. *)
LEMMA RestartKeeps ==
    ASSUME ProcessorInv, Restart
    PROVE  ProcessorInv'
  <1>1. /\ runtime' = "starting" /\ loop' = "start" /\ claimed' = InState("PROCESSING") /\ current' = {}
        /\ finalizer' = "wait" /\ queue' = <<>> /\ batch' = <<>> /\ announced' = InState("PROCESSED")
        /\ holds' = [j \in Jobs |-> {}] /\ indexed' = {t \in Jobs : request[t] # NoJob}
        /\ rendezvous' = [t \in Threads |-> "idle"]
        /\ UNCHANGED <<row, request>>
    BY DEF Restart, storeVars, loopVars, finalizerVars, coordinatorVars, boundVars
  <1>2. Taken \in Nat /\ Size \in Nat /\ Taken <= Size
    BY ItemFacts DEF ProcessorInv
  <1>3. /\ \A p \in 1 .. Size : Pipeline[p].job \in Jobs /\ Pipeline[p].targets \subseteq Jobs
        /\ \A item \in current : item.job \in Jobs /\ item.targets \subseteq Jobs
    BY ItemFacts DEF ProcessorInv
  <1>4. /\ rendezvous'["loop"] = "idle" /\ rendezvous'["finalizer"] = "idle"
        /\ rendezvous' \in [Threads -> {"idle", "enqueue", "queued", "blocked", "returned"}]
        /\ claimed' = {j \in Jobs : row[j] = "PROCESSING"}
        /\ announced' = {j \in Jobs : row[j] = "PROCESSED"}
        /\ queue' \in Seq(Items) /\ batch' \in Seq(Items)
    BY <1>1 DEF Threads, InState
  <1>5. Taken' = 0 /\ Size' = 0
    BY <1>1 DEF Pipeline, Size, Taken
  <1>6. ProcessorTypes'
    BY <1>1, <1>2, <1>3, <1>4, <1>5 DEF ProcessorInv, ProcessorTypes
  <1>7. LoopPlaces'
    BY <1>1, <1>2, <1>3, <1>4, <1>5 DEF ProcessorInv, LoopPlaces
  <1>8. FinalizerPlaces'
    BY <1>1, <1>2, <1>3, <1>4, <1>5 DEF ProcessorInv, FinalizerPlaces
  <1>9. OnePlace'
    BY <1>1, <1>2, <1>3, <1>4, <1>5 DEF ProcessorInv, OnePlace
  <1>10. Undecided'
    BY <1>1, <1>2, <1>3, <1>4, <1>5 DEF ProcessorInv, Undecided
  <1>11. Decided'
    BY <1>1, <1>2, <1>3, <1>4, <1>5 DEF ProcessorInv, Decided
  <1>12. CampaignOver'
    BY <1>5 DEF ProcessorInv, CampaignOver, Halted
  <1>13. Awaited'
    BY <1>1, <1>2, <1>3, <1>4, <1>5 DEF ProcessorInv, Awaited
  <1>14. Noticed'
    BY <1>1, <1>2, <1>3, <1>4, <1>5 DEF ProcessorInv, Noticed
  <1>15. Held'
    BY <1>1, <1>5 DEF ProcessorInv, Held, Live, Delivered
  <1>16. Covered'
    BY <1>1, <1>2, <1>3, <1>4, <1>5 DEF ProcessorInv, Covered, Live
  <1>17. HeldUndecided'
    BY <1>1, <1>2, <1>3, <1>4, <1>5 DEF ProcessorInv, HeldUndecided, Live
  <1>18. Announced'
    BY <1>1, <1>2, <1>3, <1>4, <1>5 DEF ProcessorInv, Announced, InState
  <1>19. NotLost'
    BY <1>1, <1>3, <1>4 DEF NotLost, Halted
  <1> QED BY <1>6, <1>7, <1>8, <1>9, <1>10, <1>11, <1>12, <1>13, <1>14, <1>15, <1>16, <1>17,
     <1>18, <1>19 DEF ProcessorInv

-----------------------------------------------------------------------------
(* The theorems *)

(* No result is staged when the program starts for the first time. *)
LEMMA InitProcessor == Init => ProcessorInv
  <1> SUFFICES ASSUME Init
               PROVE  ProcessorInv
    OBVIOUS
  <1>1. ProcessorTypes
    <2>1. /\ row \in [Jobs -> {"none", "PENDING", "PROCESSING", "PROCESSED", "EXHAUSTED"}]
          /\ request \in [Jobs -> Jobs \cup {NoJob}] /\ holds \in [Jobs -> SUBSET Jobs]
      BY DEF Init
    <2>2. rendezvous \in [Threads -> {"idle", "enqueue", "queued", "blocked", "returned"}]
      BY DEF Init, Threads
    <2>3. batch \in Seq(Items) /\ queue \in Seq(Items)
      BY EmptySeq DEF Init
    <2> QED BY <2>1, <2>2, <2>3 DEF Init, ProcessorTypes
  <1>2. Taken = 0 /\ Size = 0
    <2>1. batch = <<>> /\ queue = <<>>
      BY DEF Init
    <2>2. batch \in Seq(Items) /\ queue \in Seq(Items)
      BY <1>1 DEF ProcessorTypes
    <2> QED BY <2>1, <2>2, PipelineFacts
  <1>3. /\ \A p \in 1 .. Size : FALSE
        /\ \A p \in 1 .. Taken : FALSE
    BY <1>2
  <1>4. LoopPlaces
    BY DEF Init, LoopPlaces, Threads
  <1>5. FinalizerPlaces
    BY <1>2 DEF Init, FinalizerPlaces, Threads
  <1>6. OnePlace /\ Undecided /\ Decided /\ Noticed
    BY <1>3 DEF Init, OnePlace, Undecided, Decided, Noticed
  <1>7. CampaignOver /\ Awaited
    BY <1>2 DEF Init, CampaignOver, Awaited
  <1>8. Held
    <2>1. ~ Delivered /\ \A j \in Jobs : holds[j] = {}
      BY DEF Init, Delivered
    <2> QED BY <1>3, <2>1 DEF Init, Held
  <1>9. Covered /\ HeldUndecided /\ Announced /\ NotLost
    BY DEF Init, Covered, HeldUndecided, Announced, NotLost, InState
  <1> QED BY <1>1, <1>4, <1>5, <1>6, <1>7, <1>8, <1>9 DEF ProcessorInv

(* A step of either thread of the processor keeps the invariant. *)
LEMMA ThreadsKeep ==
    ASSUME ProcessorInv, LoopStep \/ FinalizerStep
    PROVE  ProcessorInv'
  <1>1. CASE LoopStep
    <2>1. runtime \notin {"down", "crashed"}
      BY <1>1 DEF LoopStep
    <2>2. CASE LoopMoves
      BY <2>1, <2>2, LoopMovesKeeps
    <2>3. CASE Claim \/ ClaimFails \/ HoldReturned \/ Push
      BY <2>3, ClaimKeeps, ClaimFailsKeeps, HoldReturnedKeeps, PushKeeps
    <2>4. CASE \E j \in Jobs : Decide(j) \/ RecordFailure(j) \/ RecordFailureFails(j)
                               \/ ResetInterrupted(j)
      BY <2>1, <2>4, DecideKeeps, RecordFailureKeeps, RecordFailureFailsKeeps,
         ResetInterruptedKeeps
    <2>5. CASE EvaluateAwait \/ AwaitNotified
      <3>1. \/ LoopMoves
            \/ /\ AwaitEnds
               /\ loop \in {"await", "awaiting"}
               /\ result # "none" \/ Stopping
        BY <2>5 DEF EvaluateAwait, AwaitNotified, LoopMoves
      <3> QED BY <2>1, <3>1, LoopMovesKeeps, AwaitEndsKeeps
    <2> QED BY <1>1, <2>2, <2>3, <2>4, <2>5 DEF LoopStep, LoopMoves
  <1>2. CASE FinalizerStep
    <2>1. loop # "start"
      BY <1>2 DEF FinalizerStep
    <2>2. CASE TakeBatch \/ CommitBatch \/ CommitFails \/ RetryOrGiveUp
      BY <2>1, <2>2, TakeBatchKeeps, CommitBatchKeeps, CommitFailsKeeps, RetryOrGiveUpKeeps
    <2>3. CASE DeliverCancellations \/ ReportItem \/ BatchReported \/ FinalizerExits
      BY <2>1, <2>3, DeliverCancellationsKeeps, ReportItemKeeps, FinalizerMovesKeeps
    <2> QED BY <1>2, <2>2, <2>3 DEF FinalizerStep
  <1> QED BY <1>1, <1>2

(* Every step keeps the invariant. *)
LEMMA ProcessorStep == ProcessorInv /\ [Next]_vars => ProcessorInv'
  <1> SUFFICES ASSUME ProcessorInv, [Next]_vars
               PROVE  ProcessorInv'
    OBVIOUS
  <1>1. CASE \E j \in Jobs : StageResult(j)
    BY <1>1, StageResultKeeps
  <1>2. CASE LoopStep \/ FinalizerStep
    BY <1>2, ThreadsKeep
  <1>3. CASE \E t \in Threads : RendezvousStep(t)
    BY <1>3, RendezvousKeeps DEF RendezvousStep
  <1>4. CASE ActorStep
    BY <1>4, RegisterPendingKeeps, RegisterCommittedKeeps DEF ActorStep
  <1>5. CASE RuntimeStep \/ BeginShutdown \/ Crash
    BY <1>5, ShutdownKeeps
  <1>6. CASE Restart
    BY <1>6, RestartKeeps
  <1>7. CASE UNCHANGED vars
    <2>1. /\ UNCHANGED <<row, request, loop, claimed, current, result, finalizer, batch>>
          /\ UNCHANGED <<applied, queue, error, announced, holds, indexed, rendezvous, runtime>>
      BY <1>7 DEF vars, storeVars, loopVars, finalizerVars, coordinatorVars
    <2>2. Pipeline' = Pipeline /\ Size' = Size /\ Taken' = Taken
      BY <2>1, SamePipeline
    <2>3. ProcessorTypes' /\ LoopPlaces' /\ FinalizerPlaces' /\ OnePlace'
      BY <2>1, <2>2 DEF ProcessorInv, ProcessorTypes, LoopPlaces, FinalizerPlaces, OnePlace
    <2>4. Undecided' /\ Decided' /\ CampaignOver' /\ Awaited' /\ Noticed'
      BY <2>1, <2>2 DEF ProcessorInv, Undecided, Decided, CampaignOver, Awaited, Noticed,
         Halted, Stopping
    <2>5. Held' /\ Covered' /\ HeldUndecided'
      BY <2>1, <2>2 DEF ProcessorInv, Held, Covered, HeldUndecided, Live, Delivered
    <2>6. Announced' /\ NotLost'
      BY <2>1, <2>2 DEF ProcessorInv, Announced, NotLost, InState, Halted, Stopping
    <2> QED BY <2>3, <2>4, <2>5, <2>6 DEF ProcessorInv
  <1> QED BY <1>1, <1>2, <1>3, <1>4, <1>5, <1>6, <1>7 DEF Next

(* The invariant holds throughout every run of the processor, whatever the *)
(* order of its two threads, the coordinator's actor, faults of the store, *)
(* shutdowns and crashes.                                                  *)
THEOREM SpecProcessorInv == Spec => []ProcessorInv
  BY InitProcessor, ProcessorStep, PTL DEF Spec

(* What the invariant says of the properties.                              *)
LEMMA ProcessorInvSound ==
    ProcessorInv =>
        CancellationsCovered /\ HoldsUndecided /\ NoSilentLoss /\ FinalizationsAnnounced
  <1> SUFFICES ASSUME ProcessorInv
               PROVE  CancellationsCovered /\ HoldsUndecided /\ NoSilentLoss
                      /\ FinalizationsAnnounced
    OBVIOUS
  <1>1. /\ Taken = Len(batch) /\ Taken \in Nat /\ Len(queue) \in Nat
        /\ Size = Taken + Len(queue)
        /\ \A p \in 1 .. Taken : Pipeline[p] = batch[p]
        /\ \A p \in 1 .. Len(queue) : Pipeline[Taken + p] = queue[p]
    BY PipelineFacts DEF ProcessorInv, ProcessorTypes, Taken
  <1>2. CancellationsCovered
    BY DEF ProcessorInv, Covered, CancellationsCovered, Live
  <1>3. HoldsUndecided
    <2> SUFFICES ASSUME NEW j \in Jobs, holds[j] # {}, ~ ActorStopping, runtime # "crashed"
                 PROVE  \/ row[j] = "PROCESSING"
                        \/ \E i \in 1 .. Len(batch) : batch[i].job = j
      BY DEF HoldsUndecided
    <2>1. Live
      BY DEF ProcessorInv, Live, ActorStopping, Stopping
    <2> QED BY <1>1, <2>1 DEF ProcessorInv, HeldUndecided
  <1>4. NoSilentLoss
    <2> SUFFICES ASSUME NEW j \in Jobs, row[j] = "PROCESSING", ~ error, ~ Halted
                 PROVE  j \in InHand
      BY DEF NoSilentLoss, InState, Halted
    <2>1. CASE \E p \in 1 .. Size : Pipeline[p].job = j
      <3>1. PICK p \in 1 .. Size : Pipeline[p].job = j
        BY <2>1
      <3>2. CASE p \in 1 .. Taken
        BY <1>1, <3>1, <3>2 DEF InHand
      <3>3. CASE p \notin 1 .. Taken
        <4> DEFINE i == p - Taken
        <4>1. i \in 1 .. Len(queue) /\ p = Taken + i
          BY <1>1, <3>3
        <4> HIDE DEF i
        <4>2. queue[i].job = j
          BY <1>1, <3>1, <4>1
        <4> QED BY <4>1, <4>2 DEF InHand
      <3> QED BY <3>2, <3>3
    <2>2. CASE j \in claimed \/ \E item \in current : item.job = j
      BY <2>2 DEF InHand
    <2> QED BY <2>1, <2>2 DEF ProcessorInv, NotLost
  <1>5. FinalizationsAnnounced
    BY <1>1 DEF ProcessorInv, Announced, FinalizationsAnnounced, InState
  <1> QED BY <1>2, <1>3, <1>4, <1>5

(* The coordinator never admits work with a committed cancellation it has  *)
(* not been told of: RegisterCancellationCommitPending comes before the    *)
(* commit, and the hold is there until the cancellation is in the index.   *)
THEOREM SpecCancellationsCovered == Spec => []CancellationsCovered
  BY SpecProcessorInv, ProcessorInvSound, PTL

(* No hold outlives the finalization it was made for, whether that was     *)
(* applied, rejected, or its batch failed and was retried.                 *)
THEOREM SpecHoldsUndecided == Spec => []HoldsUndecided
  BY SpecProcessorInv, ProcessorInvSound, PTL

(* No claimed result drops out of the hands of the two threads without an  *)
(* error, a stop or a crash that tells of it.                              *)
THEOREM SpecNoSilentLoss == Spec => []NoSilentLoss
  BY SpecProcessorInv, ProcessorInvSound, PTL

(* Every job whose finalization has committed is announced to the workflow *)
(* coordinator or next to be announced, and none before its commit.        *)
THEOREM SpecFinalizationsAnnounced == Spec => []FinalizationsAnnounced
  BY SpecProcessorInv, ProcessorInvSound, PTL

(* A step leaves what is finalized and what is requested as it is.         *)
LEMMA FinalizedKept ==
    ASSUME ProcessorInv, Next, NEW j \in Jobs
    PROVE  /\ row[j] \in {"PROCESSED", "EXHAUSTED"} => row'[j] = row[j]
           /\ request[j] # NoJob => request'[j] = request[j]
  <1>1. \/ UNCHANGED <<row, request>>
        \/ /\ UNCHANGED request
           /\ \/ \E k \in Jobs : row[k] = "none" /\ \E s : row' = [row EXCEPT ![k] = s]
              \/ \E k \in claimed, s \in Rows : row' = [row EXCEPT ![k] = s]
              \/ \E S \in SUBSET InState("PENDING") :
                    row' = [k \in Jobs |-> IF k \in S THEN "PROCESSING" ELSE row[k]]
        \/ CommitBatch
    <2>1. CASE \E k \in Jobs : StageResult(k)
      BY <2>1 DEF StageResult
    <2>2. CASE LoopStep
      <3>1. CASE LoopMoves \/ ClaimFails \/ HoldReturned \/ Push \/ AwaitEnds
        BY <3>1 DEF LoopMoves, EvaluateWait, FallAsleep, Wake, BatchHandled,
           EvaluateBarrier, BarrierNotified, BarrierEnds, StartThreads, LoopTo, ClaimFails,
           Fault, HoldReturned, Push, AwaitEnds, storeVars
      <3>2. CASE Claim
        BY <3>2 DEF Claim
      <3>3. CASE \E k \in Jobs : Decide(k) \/ RecordFailureFails(k)
        BY <3>3 DEF Decide, RecordFailureFails, Fault, storeVars
      <3>4. CASE \E k \in Jobs : RecordFailure(k) \/ ResetInterrupted(k)
        BY <3>4 DEF RecordFailure, ResetInterrupted, Rows
      <3> QED BY <2>2, <3>1, <3>2, <3>3, <3>4 DEF LoopStep, LoopMoves, EvaluateAwait,
         AwaitNotified
    <2>3. CASE FinalizerStep
      BY <2>3 DEF FinalizerStep, TakeBatch, CommitFails, Fault, RetryOrGiveUp,
         DeliverCancellations, ReportItem, BatchReported, FinalizerExits, FinalizerTo,
         storeVars
    <2>4. CASE ActorStep \/ \E t \in Threads : RendezvousStep(t)
      BY <2>4 DEF ActorStep, RendezvousStep, EnqueueActor, EvaluateRendezvous,
         RegisterCancellationCommitPending, RegisterCommittedCancellations, ActorRuns,
         RendezvousTo, storeVars
    <2>5. CASE RuntimeStep \/ BeginShutdown \/ Crash \/ Restart
      BY <2>5 DEF RuntimeStep, BeginShutdown, Crash, Restart, OpenCancellationAdmission,
         StopActor, ActorExits, SetStop, NotifyStop, Joined, ShutdownStep, storeVars
    <2> QED BY <2>1, <2>2, <2>3, <2>4, <2>5 DEF Next
  <1>2. CASE ~ CommitBatch
    <2>1. row \in [Jobs -> Rows] /\ \A k \in claimed : row[k] = "PROCESSING"
      BY DEF ProcessorInv, ProcessorTypes, Undecided, Rows
    <2> QED BY <1>1, <1>2, <2>1 DEF InState
  <1>3. CASE CommitBatch
    <2>1. PICK s : After(Len(batch), s) /\ row' = s.row /\ request' = s.request
      BY <1>3, FinalizedAfter DEF ProcessorInv, CommitBatch
    <2>2. \A p \in 1 .. Len(batch) : row[batch[p].job] = "PROCESSING"
      <3>1. \A p \in 1 .. Len(batch) : p \in 1 .. Size /\ batch[p] = Pipeline[p]
        BY PipelineFacts DEF ProcessorInv, ProcessorTypes, Taken
      <3>2. applied = {}
        BY <1>3 DEF ProcessorInv, FinalizerPlaces, CommitBatch
      <3> QED BY <3>1, <3>2 DEF ProcessorInv, Undecided
    <2>3. row[j] \in {"PROCESSED", "EXHAUSTED"} => \A p \in 1 .. Len(batch) : batch[p].job # j
      BY <2>2
    <2> QED BY <2>1, <2>3 DEF After
  <1> QED BY <1>2, <1>3

(* A finalized result stays finalized and a cancellation stays with the    *)
(* job that requested it, through retried batches, rejections and          *)
(* restarts: a finalization is in the pipeline once, and only while its    *)
(* result is undecided.                                                    *)
THEOREM SpecFinalizedOnce == Spec => FinalizedOnce
  <1> DEFINE Kept == \A j \in Jobs : /\ row[j] \in {"PROCESSED", "EXHAUSTED"} => row'[j] = row[j]
                                     /\ request[j] # NoJob => request'[j] = request[j]
  <1>1. ProcessorInv /\ [Next]_vars => [Kept]_vars
    BY FinalizedKept
  <1>2. Spec => [][Kept]_vars
    BY <1>1, SpecProcessorInv, PTL DEF Spec
  <1> QED BY <1>2 DEF FinalizedOnce

=============================================================================
