-------------------------- MODULE WorkerEventStream --------------------------
(***************************************************************************)
(* The path of a worker's events to the coordinator process: the runtime   *)
(* actor that numbers and publishes them (WorkerRuntime.cpp), the bounded  *)
(* OutboundPublisher queue of the worker process (SavorWorker.cpp), and    *)
(* the reader that accepts only the next number (ProcessWorker.cpp).       *)
(*                                                                         *)
(* The publisher's thread writes its queue to a pipe in order and the      *)
(* reader reads it in order, so queue and pipe are one FIFO here.          *)
(***************************************************************************)
EXTENDS WorkerCompletionLedger

CONSTANTS
    QueueLimit,    \* kMaximumQueuedRecords
    MaxThrows      \* bound: how often the event sink throws

ASSUME StreamAssumption ==
    /\ QueueLimit \in Nat \ {0}
    /\ MaxThrows \in Nat

VARIABLES
    actor,          \* where the actor is within its turn
    sending,        \* the terminal it is retaining or publishing, 0 if none
    queue,          \* OutboundPublisher::queue_ and the pipe behind it
    stopped,        \* OutboundPublisher::stopping_
    lastOutbound,   \* ProcessWorker snapshot_.last_outbound_sequence
    protocolFailed, \* ProcessWorker::protocol_failed_
    accepted,       \* terminals handed to the terminal callback, in order
    lost,           \* numbered plain events whose sink call threw
    throws          \* sink calls that threw so far

streamVars ==
    <<entries, retainedBytes, nextTerminal, nextOutbound, openOutbound, tombstones,
      actor, sending, queue, stopped, lastOutbound, protocolFailed, accepted, lost, throws>>

publisherVars == <<queue, stopped>>
readerVars == <<lastOutbound, protocolFailed, accepted>>
faultVars == <<lost, throws>>

(* outbound = 0 marks the passive kinds IsAuthoritative rejects; they      *)
(* carry no sequence. terminal = 0 marks a numbered event that is not an   *)
(* item terminal (state, item start, credits, summary).                    *)
Record == [outbound : Counter, terminal : Counter]

Authoritative(r) == r.outbound # 0

StreamTypeOK ==
    /\ TypeOK
    /\ actor \in {"idle", "retaining", "sending", "sent"}
    /\ sending \in Counter
    /\ queue \in Seq(Record)
    /\ stopped \in BOOLEAN
    /\ lastOutbound \in Counter
    /\ protocolFailed \in BOOLEAN
    /\ accepted \in Seq(Counter)
    /\ lost \in 0 .. MaxThrows
    /\ throws \in 0 .. MaxThrows

StreamInit ==
    /\ Init
    /\ actor = "idle"
    /\ sending = 0
    /\ queue = <<>>
    /\ stopped = FALSE
    /\ lastOutbound = 0
    /\ protocolFailed = FALSE
    /\ accepted = <<>>
    /\ lost = 0
    /\ throws = 0

-----------------------------------------------------------------------------
(* OutboundPublisher *)

(* Dropping the oldest passive records until the new one fits. *)
Evicted(q) ==
    LET passive == {k \in 1 .. Len(q) : ~ Authoritative(q[k])}
    IN  IF Len(q) < QueueLimit \/ passive = {}
        THEN q
        ELSE RemoveAt(q, Min(passive))

(* PublishRaw: a numbered record that does not fit stops the publisher for *)
(* good; a passive one that does not fit is dropped.                       *)
PublishRaw(r) ==
    LET q == Evicted(queue) IN
    IF stopped
    THEN UNCHANGED publisherVars
    ELSE IF Len(q) < QueueLimit
    THEN queue' = Append(q, r) /\ UNCHANGED stopped
    ELSE queue' = q /\ stopped' = Authoritative(r)

-----------------------------------------------------------------------------
(* The runtime actor: one turn at a time. *)

(* RetainWorksetTerminal reserves and completes a terminal in one turn;    *)
(* the encoding never exceeds the declared bytes (it is cut down first).   *)
RetainTerminal(i, declared) ==
    /\ actor = "idle"
    /\ ReserveTerminal(i, declared)
    /\ actor' = "retaining"
    /\ sending' = nextTerminal
    /\ UNCHANGED <<publisherVars, readerVars, faultVars>>

FinalizeTerminal(encoded) ==
    /\ actor = "retaining"
    /\ encoded <= entries[sending].bytes
    /\ CompleteTerminal(sending, encoded)
    /\ actor' = "idle"
    /\ sending' = 0
    /\ UNCHANGED <<publisherVars, readerVars, faultVars>>

(* PublishReadyWorksetTerminals, one iteration of its loop. *)
BeginPublication(t) ==
    /\ actor = "idle"
    /\ BeginNextPublication(t)
    /\ actor' = "sending"
    /\ sending' = t
    /\ UNCHANGED <<publisherVars, readerVars, faultVars>>

SinkAccepts ==
    /\ actor = "sending"
    /\ PublishRaw([outbound |-> entries[sending].outbound, terminal |-> sending])
    /\ actor' = "sent"
    /\ UNCHANGED <<ledgerVars, sending, readerVars, faultVars>>

(* Publish returns false only when the sink threw before it enqueued. *)
SinkThrows ==
    /\ actor = "sending"
    /\ throws < MaxThrows
    /\ AbortPublication(sending)
    /\ actor' = "idle"
    /\ sending' = 0
    /\ throws' = throws + 1
    /\ UNCHANGED <<publisherVars, readerVars, lost>>

ConfirmSent ==
    /\ actor = "sent"
    /\ ConfirmPublished(sending)
    /\ actor' = "idle"
    /\ sending' = 0
    /\ UNCHANGED <<publisherVars, readerVars, faultVars>>

(* PublishWorksetState, PublishCredits, the item start and the summary:    *)
(* NextOutboundSequence reserves and confirms a number, then Publish. With *)
(* a terminal under retry the number is refused until it has been sent.    *)
PublishEvent ==
    /\ actor = "idle"
    /\ openOutbound = 0
    /\ nextOutbound # 0
    /\ nextOutbound' = Increment(nextOutbound)
    /\ \/ /\ PublishRaw([outbound |-> nextOutbound, terminal |-> 0])
          /\ UNCHANGED faultVars
       \/ /\ throws < MaxThrows
          /\ throws' = throws + 1
          /\ lost' = lost + 1
          /\ UNCHANGED publisherVars
    /\ UNCHANGED <<entries, retainedBytes, nextTerminal, openOutbound, tombstones,
                   actor, sending, readerVars>>

(* Progress, diagnostics, host events and execution states. *)
PublishPassive ==
    /\ actor = "idle"
    /\ PublishRaw([outbound |-> 0, terminal |-> 0])
    /\ UNCHANGED <<ledgerVars, actor, sending, readerVars, faultVars>>

(* Defect: a terminal is dropped as soon as it was sent, before the coordinator has it. *)
AcknowledgeCommandEarly(t) ==
    /\ actor = "idle"
    /\ AcknowledgeTerminal(t)
    /\ UNCHANGED <<actor, sending, publisherVars, readerVars, faultVars>>

(* HandleAcknowledgeTerminal, for a terminal the coordinator was handed.   *)
(* The coordinator may repeat it; a repetition changes nothing.            *)
AcknowledgeCommand(t) ==
    /\ actor = "idle"
    /\ t \in Range(accepted)
    /\ AcknowledgeTerminal(t)
    /\ UNCHANGED <<actor, sending, publisherVars, readerVars, faultVars>>

-----------------------------------------------------------------------------
(* The coordinator's event reader *)

(* accept_workset_outbound_sequence and the terminal callback. *)
ReadFrame ==
    /\ ~ protocolFailed
    /\ queue # <<>>
    /\ queue' = Tail(queue)
    /\ LET r == Head(queue) IN
       IF ~ Authoritative(r)
       THEN UNCHANGED readerVars
       ELSE IF r.outbound = Increment(lastOutbound)
       THEN /\ lastOutbound' = r.outbound
            /\ accepted' = IF r.terminal = 0 THEN accepted ELSE Append(accepted, r.terminal)
            /\ UNCHANGED protocolFailed
       ELSE /\ protocolFailed' = TRUE
            /\ UNCHANGED <<lastOutbound, accepted>>
    /\ UNCHANGED <<ledgerVars, actor, sending, stopped, faultVars>>

StreamNext ==
    \/ \E i \in Items, b \in ByteSizes : RetainTerminal(i, b)
    \/ \E b \in ByteSizes : FinalizeTerminal(b)
    \/ \E t \in Retained : BeginPublication(t)
    \/ SinkAccepts
    \/ SinkThrows
    \/ ConfirmSent
    \/ PublishEvent
    \/ PublishPassive
    \/ \E t \in Retained : AcknowledgeCommand(t)
    \/ ReadFrame

StreamSpec == StreamInit /\ [][StreamNext]_streamVars

(* Every actor turn retries the unpublished terminals and serves its       *)
(* mailbox in order; the publisher thread and the reader block only on an  *)
(* empty queue; the coordinator acknowledges what it has staged. The sink  *)
(* may throw, but not forever (MaxThrows).                                 *)
StreamFairness ==
    /\ WF_streamVars(\E b \in ByteSizes : FinalizeTerminal(b))
    /\ SF_streamVars(\E t \in Retained : BeginPublication(t))
    /\ WF_streamVars(SinkAccepts)
    /\ WF_streamVars(ConfirmSent)
    /\ WF_streamVars(ReadFrame)
    /\ \A t \in Counter \ {0} : SF_streamVars(AcknowledgeCommand(t))

FairStreamSpec == StreamSpec /\ StreamFairness

-----------------------------------------------------------------------------
(* Properties *)

(* The reader kills the connection on a number that is not the next one.   *)
(* Only a plain event whose sink call threw after its number was confirmed *)
(* leaves such a gap; retries of terminals and evictions never do.         *)
NoSpuriousProtocolFailure == protocolFailed => lost > 0

(* The ledger, the queue and the reader together deliver terminals the way *)
(* TerminalDelivery promises: the callback sees each once and in the order *)
(* of issue, although retries, plain events, evictions and                 *)
(* acknowledgements interleave, and the worker forgets a terminal only     *)
(* after the coordinator was handed it.                                    *)
Delivery == INSTANCE TerminalDelivery WITH
    issued <- IF nextTerminal = 0 THEN CounterModulus - 1 ELSE nextTerminal - 1,
    delivered <- accepted,
    acknowledged <- {t \in Counter \ {0} :
                       (nextTerminal = 0 \/ t < nextTerminal) /\ t \notin Retained}

DeliverySpec == Delivery!Spec

(* Every retained terminal is handed over and acknowledged in the end,     *)
(* unless the stream is broken for good: the publisher stopped on an       *)
(* authoritative overflow, the reader failed the protocol, or the sequence *)
(* is exhausted.                                                           *)
TerminalsAcknowledged ==
    \A t \in Counter \ {0} :
        t \in Retained ~> (t \notin Retained \/ stopped \/ protocolFailed \/ nextOutbound = 0)

=============================================================================
