----------------------- MODULE WorkerCompletionLedger -----------------------
(***************************************************************************)
(* The worker's actor-owned retention of authoritative item terminals      *)
(* (SavorCore/Runner/Runtime/Worksets/WorkerCompletionLedger.{h,cpp}).     *)
(*                                                                         *)
(* A terminal is reserved (which fixes its identity and order), completed  *)
(* once its payload is final, published under an outbound sequence number, *)
(* and retained until the coordinator acknowledges it.  The same sequence  *)
(* source numbers every other outbound event of the worker.                *)
(*                                                                         *)
(* Every method is one action; a call that fails changes nothing and is a  *)
(* disabled action.  Threads do not appear: every method starts with       *)
(* RequireActorThread, so the calls are serial.                            *)
(***************************************************************************)
EXTENDS Integers, FiniteSets, Sequences, FiniteSetsExt, SequencesExt

CONSTANTS
    Items,          \* item identities: what SameItem compares
    MaxTerminals,   \* limits.maximum_retained_terminals
    MaxBytes,       \* limits.maximum_retained_terminal_bytes
    ByteSizes,      \* encoded terminal sizes a caller may declare or produce
    CounterModulus  \* the std::uint64_t counters wrap at this value (2^64)

ASSUME LedgerAssumption ==
    /\ MaxTerminals \in Nat
    /\ MaxBytes \in Nat
    /\ ByteSizes \subseteq Nat \ {0}
    /\ CounterModulus \in Nat \ {0, 1}

VARIABLES
    entries,           \* entries_: terminal id -> retained entry
    retainedBytes,     \* retained_bytes_
    nextTerminal,      \* next_terminal_id_ and next_terminal_order_
    nextOutbound,      \* next_outbound_sequence_
    openOutbound,      \* open_outbound_sequence_, 0 when none is open
    tombstones         \* acknowledged_tombstones_: <<[id, item], ...>>

ledgerVars ==
    <<entries, retainedBytes, nextTerminal, nextOutbound, openOutbound, tombstones>>

TerminalStates ==
    {"PendingFinalization", "Ready", "Publishing", "AwaitingAcknowledgement"}

Counter == 0 .. CounterModulus - 1

(* Defect: the counter is not held to its width. *)
IncrementUnbounded(n) == n + 1

(* Defect: the counter restarts at its first value instead of stopping. *)
IncrementSkippingZero(n) == IF n + 1 = CounterModulus THEN 1 ELSE n + 1

(* A stored std::uint64_t after ++: zero marks exhaustion. *)
Increment(n) == (n + 1) % CounterModulus

(* Terminal identity and order are two counters that start at one and are  *)
(* incremented together in ReserveTerminal only, so one value stands for   *)
(* both; the deque entries_ is appended in that order and erased anywhere, *)
(* so its order is the order of the identities.                            *)
Entry == [item : Items, state : TerminalStates, bytes : Nat, outbound : Counter]

TypeOK ==
    /\ DOMAIN entries \subseteq Counter \ {0}
    /\ \A t \in DOMAIN entries : entries[t] \in Entry
    /\ retainedBytes \in Int
    /\ nextTerminal \in Counter
    /\ nextOutbound \in Counter
    /\ openOutbound \in Counter
    /\ tombstones \in Seq([id : Counter, item : Items])

Init ==
    /\ entries = [t \in {} |-> 0]
    /\ retainedBytes = 0
    /\ nextTerminal = 1
    /\ nextOutbound = 1
    /\ openOutbound = 0
    /\ tombstones = <<>>

-----------------------------------------------------------------------------

Retained == DOMAIN entries

HasDuplicateItem(i) == \E t \in Retained : entries[t].item = i

(* ReserveTerminal: correlation of item i, at most b encoded bytes. *)
ReserveTerminal(i, b) ==
    /\ ~ HasDuplicateItem(i)
    /\ Cardinality(Retained) < MaxTerminals
    /\ b <= MaxBytes
    /\ retainedBytes <= MaxBytes - b
    /\ nextTerminal # 0
    /\ entries' = [t \in Retained \cup {nextTerminal} |->
                     IF t = nextTerminal
                     THEN [item |-> i, state |-> "PendingFinalization",
                           bytes |-> b, outbound |-> 0]
                     ELSE entries[t]]
    /\ retainedBytes' = retainedBytes + b
    /\ nextTerminal' = Increment(nextTerminal)
    /\ UNCHANGED <<nextOutbound, openOutbound, tombstones>>

(* Defect: the reservation is kept in the account when the encoding is smaller. *)
CompleteTerminalKeepingReservation(t, actual) ==
    /\ t \in Retained
    /\ entries[t].state = "PendingFinalization"
    /\ actual > entries[t].bytes => retainedBytes <= MaxBytes - (actual - entries[t].bytes)
    /\ retainedBytes' = IF actual > entries[t].bytes
                        THEN retainedBytes + (actual - entries[t].bytes)
                        ELSE retainedBytes
    /\ entries' = [entries EXCEPT ![t].bytes = actual, ![t].state = "Ready"]
    /\ UNCHANGED <<nextTerminal, nextOutbound, openOutbound, tombstones>>

(* CompleteTerminal: the final encoding may exceed the reservation as long *)
(* as the growth still fits the byte bound.                                *)
CompleteTerminal(t, actual) ==
    /\ t \in Retained
    /\ entries[t].state = "PendingFinalization"
    /\ actual > entries[t].bytes =>
         /\ actual - entries[t].bytes <= MaxBytes
         /\ retainedBytes <= MaxBytes - (actual - entries[t].bytes)
    /\ retainedBytes' = retainedBytes + (actual - entries[t].bytes)
    /\ entries' = [entries EXCEPT ![t].bytes = actual, ![t].state = "Ready"]
    /\ UNCHANGED <<nextTerminal, nextOutbound, openOutbound, tombstones>>

(* The reservation both kinds of publication share. *)
ReserveOutboundSequenceUnchecked ==
    /\ openOutbound = 0
    /\ nextOutbound # 0
    /\ openOutbound' = nextOutbound
    /\ nextOutbound' = Increment(nextOutbound)

ReserveOutboundSequence ==
    /\ ReserveOutboundSequenceUnchecked
    /\ UNCHANGED <<entries, retainedBytes, nextTerminal, tombstones>>

(* The open sequence is a plain event's, not a terminal's under retry. *)
OpenForEvent ==
    /\ openOutbound # 0
    /\ \A t \in Retained :
          entries[t].state # "AwaitingAcknowledgement" => entries[t].outbound # openOutbound

(* Confirm and Abandon have the same effect on the ledger. A caller passes *)
(* a sequence it reserved itself.                                          *)
ConfirmOutboundSequence ==
    /\ OpenForEvent
    /\ openOutbound' = 0
    /\ UNCHANGED <<entries, retainedBytes, nextTerminal, nextOutbound, tombstones>>

(* The earliest terminal that is not yet awaiting its acknowledgement. *)
Unpublished == {t \in Retained : entries[t].state # "AwaitingAcknowledgement"}

(* Defect: a pending terminal is skipped over like a published one. *)
IsReadyToPublish(t) ==
    /\ t \in Unpublished
    /\ \A u \in Unpublished : entries[u].state # "PendingFinalization" => t <= u

IsNextToPublish(t) ==
    /\ t \in Unpublished
    /\ \A u \in Unpublished : t <= u

(* BeginNextPublication: only the head of the unpublished terminals, only  *)
(* when it is Ready; a retry keeps the sequence it already owns.           *)
BeginNextPublication(t) ==
    /\ IsNextToPublish(t)
    /\ entries[t].state = "Ready"
    /\ \/ /\ entries[t].outbound = 0
          /\ ReserveOutboundSequenceUnchecked
          /\ entries' = [entries EXCEPT ![t].outbound = nextOutbound,
                                        ![t].state = "Publishing"]
       \/ /\ entries[t].outbound # 0
          /\ openOutbound = entries[t].outbound
          /\ entries' = [entries EXCEPT ![t].state = "Publishing"]
          /\ UNCHANGED <<openOutbound, nextOutbound>>
    /\ UNCHANGED <<retainedBytes, nextTerminal, tombstones>>

ConfirmPublished(t) ==
    /\ t \in Retained
    /\ entries[t].state = "Publishing"
    /\ openOutbound # 0
    /\ openOutbound = entries[t].outbound
    /\ openOutbound' = 0
    /\ entries' = [entries EXCEPT ![t].state = "AwaitingAcknowledgement"]
    /\ UNCHANGED <<retainedBytes, nextTerminal, nextOutbound, tombstones>>

(* Defect: the failed publication also gives up its open sequence. *)
AbortPublicationClosing(t) ==
    /\ t \in Retained
    /\ entries[t].state = "Publishing"
    /\ entries' = [entries EXCEPT ![t].state = "Ready"]
    /\ openOutbound' = 0
    /\ UNCHANGED <<retainedBytes, nextTerminal, nextOutbound, tombstones>>

(* Defect: the retry is numbered afresh. *)
AbortPublicationForgetting(t) ==
    /\ t \in Retained
    /\ entries[t].state = "Publishing"
    /\ entries' = [entries EXCEPT ![t].state = "Ready", ![t].outbound = 0]
    /\ openOutbound' = 0
    /\ UNCHANGED <<retainedBytes, nextTerminal, nextOutbound, tombstones>>

(* Defect: the terminal stays Publishing and is never tried again. *)
AbortPublicationStuck(t) ==
    /\ t \in Retained
    /\ entries[t].state = "Publishing"
    /\ UNCHANGED ledgerVars

(* A failed transport returns the terminal to Ready; its sequence stays    *)
(* assigned and open, so nothing else can be numbered in between.          *)
AbortPublication(t) ==
    /\ t \in Retained
    /\ entries[t].state = "Publishing"
    /\ entries' = [entries EXCEPT ![t].state = "Ready"]
    /\ UNCHANGED <<retainedBytes, nextTerminal, nextOutbound, openOutbound, tombstones>>

MaxTombstones == IF MaxTerminals > 1 THEN MaxTerminals ELSE 1

(* AcknowledgeTerminal of a retained, published terminal. For one that is *)
(* no longer retained the tombstones only decide what the caller is told.  *)
AcknowledgeTerminal(t) ==
    /\ t \in Retained
    /\ entries[t].state = "AwaitingAcknowledgement"
    /\ retainedBytes' = retainedBytes - entries[t].bytes
    /\ tombstones' =
         LET longer == Append(tombstones, [id |-> t, item |-> entries[t].item])
         IN  IF Len(longer) > MaxTombstones THEN Tail(longer) ELSE longer
    /\ entries' = [u \in Retained \ {t} |-> entries[u]]
    /\ UNCHANGED <<nextTerminal, nextOutbound, openOutbound>>

-----------------------------------------------------------------------------

Next ==
    \/ \E i \in Items, b \in ByteSizes : ReserveTerminal(i, b)
    \/ \E t \in Retained, b \in ByteSizes : CompleteTerminal(t, b)
    \/ ReserveOutboundSequence
    \/ ConfirmOutboundSequence
    \/ \E t \in Retained : BeginNextPublication(t)
    \/ \E t \in Retained : ConfirmPublished(t)
    \/ \E t \in Retained : AbortPublication(t)
    \/ \E t \in Retained : AcknowledgeTerminal(t)

Spec == Init /\ [][Next]_ledgerVars

-----------------------------------------------------------------------------
(* Properties *)

(* The byte account is exact through growth, shrinkage and erasure, and    *)
(* neither bound of the configuration is ever exceeded: retained_bytes_ is *)
(* a size_t, and one lost subtraction would wrap it and close the ledger.  *)
BytesAccounted ==
    /\ retainedBytes = MapThenSumSet(LAMBDA t : entries[t].bytes, Retained)
    /\ retainedBytes <= MaxBytes
    /\ Cardinality(Retained) <= MaxTerminals

(* "A later ready terminal cannot pass an earlier pending terminal, while  *)
(* already-published terminals do not prevent the next ordered terminal    *)
(* from being published" (the header's contract of the class): numbers are *)
(* handed out in terminal order, and to a terminal only after every        *)
(* earlier one was sent, whatever the order they were finalized in.        *)
PublishedInTerminalOrder ==
    \A t, u \in Retained :
        t < u /\ entries[u].outbound # 0 =>
            /\ entries[t].state = "AwaitingAcknowledgement"
            /\ entries[t].outbound < entries[u].outbound

(* A terminal whose transport failed still owns the open sequence, so      *)
(* BeginNextPublication never reports "Terminal retry lost its exclusive   *)
(* outbound reservation" and no other event is numbered before the retry.  *)
RetryOwnsReservation ==
    \A t \in Retained :
        entries[t].state # "AwaitingAcknowledgement" /\ entries[t].outbound # 0
            => entries[t].outbound = openOutbound

(* A terminal identity is never issued twice, also not when the counter    *)
(* wraps: AcknowledgeTerminal tells a repeated acknowledgement from a live *)
(* one by the identity alone.                                              *)
IdentityNotReused ==
    /\ \A k \in 1 .. Len(tombstones) : tombstones[k].id \notin Retained
    /\ \A j, k \in 1 .. Len(tombstones) :
          tombstones[j].id = tombstones[k].id => j = k

=============================================================================
