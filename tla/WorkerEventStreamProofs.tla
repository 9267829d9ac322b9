----------------------- MODULE WorkerEventStreamProofs -----------------------
(***************************************************************************)
(* What holds of WorkerCompletionLedger and of WorkerEventStream, which    *)
(* extends it, for every item set, every queue limit, every bound of the   *)
(* ledger and every counter width: the ledger keeps its accounts; the      *)
(* reader fails the protocol only over a plain event whose sink call       *)
(* threw; and the ledger, the queue and the reader together implement      *)
(* TerminalDelivery.                                                       *)
(***************************************************************************)
EXTENDS WorkerEventStream, LeastElement, FiniteSetTheorems, SequenceTheorems, TLAPS

-----------------------------------------------------------------------------
(* The ledger *)

(* An identity or number that was handed out from a counter that is now n: *)
(* below it, or anything once the counter is exhausted.                    *)
Issued(k, n) == n = 0 \/ k < n

(* The strengthening the three safety invariants rest on. *)
NumbersIssued ==
    /\ \A t \in Retained : Issued(t, nextTerminal)
    /\ \A k \in 1 .. Len(tombstones) : Issued(tombstones[k].id, nextTerminal)
    /\ \A t \in Retained : Issued(entries[t].outbound, nextOutbound)
    /\ Issued(openOutbound, nextOutbound)

NumberedFromPublishing ==
    \A t \in Retained :
        /\ entries[t].state = "PendingFinalization" => entries[t].outbound = 0
        /\ entries[t].state \in {"Publishing", "AwaitingAcknowledgement"}
              => entries[t].outbound # 0

LedgerInv ==
    /\ TypeOK
    /\ NumbersIssued
    /\ NumberedFromPublishing
    /\ PublishedInTerminalOrder
    /\ RetryOwnsReservation
    /\ IdentityNotReused

-----------------------------------------------------------------------------

(* Incrementing a stored counter stays within its width, and everything    *)
(* that was issued before, and the value itself, is issued afterwards.     *)
LEMMA IncrementIssues ==
    ASSUME NEW n \in Counter, n # 0
    PROVE  /\ Increment(n) \in Counter
           /\ \A k \in Counter : Issued(k, n) => Issued(k, Increment(n))
           /\ Issued(n, Increment(n))
PROOF
  <1>1. CounterModulus \in Nat /\ CounterModulus > 1 /\ n \in Nat /\ n < CounterModulus
    BY LedgerAssumption DEF Counter
  <1>2. CASE n + 1 = CounterModulus
    <2>1. Increment(n) = 0
      BY <1>1, <1>2 DEF Increment
    <2> QED
      BY <2>1, <1>1 DEF Issued, Counter
  <1>3. CASE n + 1 < CounterModulus
    <2>1. Increment(n) = n + 1
      BY <1>1, <1>3 DEF Increment
    <2> QED
      BY <2>1, <1>1, <1>3 DEF Issued, Counter
  <1> QED
    BY <1>1, <1>2, <1>3

(* Every method keeps the ledger well typed. *)
LEMMA TypeStep == TypeOK /\ [Next]_ledgerVars => TypeOK'
PROOF
  <1> SUFFICES ASSUME TypeOK, [Next]_ledgerVars PROVE TypeOK'
    OBVIOUS
  <1> USE DEF TypeOK, Retained
  <1>1. ASSUME NEW i \in Items, NEW b \in ByteSizes, ReserveTerminal(i, b)
        PROVE  TypeOK'
    <2>1. b \in Nat
      BY LedgerAssumption
    <2>2. Increment(nextTerminal) \in Counter
      BY <1>1, IncrementIssues DEF ReserveTerminal
    <2>3. 0 \in Counter
      BY LedgerAssumption DEF Counter
    <2> QED
      BY <1>1, <2>1, <2>2, <2>3 DEF ReserveTerminal, Entry, TerminalStates
  <1>2. ASSUME NEW t \in Retained, NEW b \in ByteSizes, CompleteTerminal(t, b)
        PROVE  TypeOK'
    <2>1. b \in Nat
      BY LedgerAssumption
    <2> QED
      BY <1>2, <2>1 DEF CompleteTerminal, Entry, TerminalStates
  <1>3. CASE ReserveOutboundSequence
    BY <1>3, IncrementIssues DEF ReserveOutboundSequence, ReserveOutboundSequenceUnchecked
  <1>4. CASE ConfirmOutboundSequence
    BY <1>4, LedgerAssumption DEF ConfirmOutboundSequence, Counter
  <1>5. ASSUME NEW t \in Retained, BeginNextPublication(t)
        PROVE  TypeOK'
    <2>1. entries[t] \in Entry
      OBVIOUS
    <2>2. CASE entries[t].outbound = 0
      <3>1. /\ openOutbound' = nextOutbound
            /\ nextOutbound' = Increment(nextOutbound)
            /\ nextOutbound # 0
            /\ entries' = [entries EXCEPT ![t].outbound = nextOutbound,
                                          ![t].state = "Publishing"]
        BY <1>5, <2>2 DEF BeginNextPublication, ReserveOutboundSequenceUnchecked
      <3>2. DOMAIN entries' = DOMAIN entries /\ \A u \in DOMAIN entries : entries'[u] \in Entry
        BY <2>1, <3>1 DEF Entry, TerminalStates
      <3>3. Increment(nextOutbound) \in Counter
        BY <3>1, IncrementIssues
      <3> QED
        BY <1>5, <3>1, <3>2, <3>3 DEF BeginNextPublication
    <2>3. CASE entries[t].outbound # 0
      <3>1. /\ UNCHANGED <<openOutbound, nextOutbound>>
            /\ entries' = [entries EXCEPT ![t].state = "Publishing"]
        BY <1>5, <2>3 DEF BeginNextPublication
      <3>2. DOMAIN entries' = DOMAIN entries /\ \A u \in DOMAIN entries : entries'[u] \in Entry
        BY <2>1, <3>1 DEF Entry, TerminalStates
      <3> QED
        BY <1>5, <3>1, <3>2 DEF BeginNextPublication
    <2> QED
      BY <2>2, <2>3
  <1>6. ASSUME NEW t \in Retained, ConfirmPublished(t)
        PROVE  TypeOK'
    <2>1. entries[t] \in Entry
      OBVIOUS
    <2>2. /\ entries' = [entries EXCEPT ![t].state = "AwaitingAcknowledgement"]
          /\ openOutbound' = 0
          /\ UNCHANGED <<nextTerminal, nextOutbound, retainedBytes, tombstones>>
      BY <1>6 DEF ConfirmPublished
    <2>3. DOMAIN entries' = DOMAIN entries /\ \A u \in DOMAIN entries : entries'[u] \in Entry
      BY <2>1, <2>2 DEF Entry, TerminalStates
    <2>4. 0 \in Counter
      BY LedgerAssumption DEF Counter
    <2> QED
      BY <1>6, <2>2, <2>3, <2>4 DEF ConfirmPublished
  <1>7. ASSUME NEW t \in Retained, AbortPublication(t)
        PROVE  TypeOK'
    <2>1. entries[t] \in Entry
      OBVIOUS
    <2>2. entries' = [entries EXCEPT ![t].state = "Ready"]
      BY <1>7 DEF AbortPublication
    <2>3. DOMAIN entries' = DOMAIN entries /\ \A u \in DOMAIN entries : entries'[u] \in Entry
      BY <2>1, <2>2 DEF Entry, TerminalStates
    <2> QED
      BY <1>7, <2>2, <2>3 DEF AbortPublication
  <1>8. ASSUME NEW t \in Retained, AcknowledgeTerminal(t)
        PROVE  TypeOK'
    <2> DEFINE longer == Append(tombstones, [id |-> t, item |-> entries[t].item])
    <2>1. longer \in Seq([id : Counter, item : Items]) /\ longer # <<>>
      BY DEF Entry
    <2>2. tombstones' \in Seq([id : Counter, item : Items])
      <3>1. Tail(longer) \in Seq([id : Counter, item : Items])
        BY <2>1
      <3> QED
        BY <1>8, <2>1, <3>1 DEF AcknowledgeTerminal
    <2>3. entries[t].bytes \in Nat
      BY DEF Entry
    <2> QED
      BY <1>8, <2>2, <2>3 DEF AcknowledgeTerminal
  <1>9. CASE UNCHANGED ledgerVars
    BY <1>9 DEF ledgerVars
  <1> QED
    BY <1>1, <1>2, <1>3, <1>4, <1>5, <1>6, <1>7, <1>8, <1>9 DEF Next

(* Type correctness of the ledger, for every bound and counter width. *)
THEOREM TypeCorrect == Spec => []TypeOK
PROOF
  <1>1. Init => TypeOK
    BY LedgerAssumption DEF Init, TypeOK, Counter
  <1> QED
    BY <1>1, TypeStep, PTL DEF Spec

-----------------------------------------------------------------------------

(* Every method preserves the strengthened invariant. *)
LEMMA LedgerStep == LedgerInv /\ [Next]_ledgerVars => LedgerInv'
PROOF
  <1> SUFFICES ASSUME LedgerInv, [Next]_ledgerVars PROVE LedgerInv'
    OBVIOUS
  <1>0. TypeOK' /\ 0 \in Counter /\ Counter \subseteq Nat
    BY TypeStep, LedgerAssumption DEF LedgerInv, Counter
  <1>t. /\ \A t \in Retained : t \in Counter \ {0} /\ entries[t] \in Entry
        /\ nextTerminal \in Counter /\ nextOutbound \in Counter /\ openOutbound \in Counter
        /\ tombstones \in Seq([id : Counter, item : Items])
    BY DEF LedgerInv, TypeOK, Retained
  <1> DEFINE Rest == NumbersIssued /\ NumberedFromPublishing /\ PublishedInTerminalOrder
                       /\ RetryOwnsReservation /\ IdentityNotReused
  <1>i. Rest
    BY DEF LedgerInv
  <1> SUFFICES Rest'
    BY <1>0 DEF LedgerInv
  <1> USE DEF NumbersIssued, NumberedFromPublishing, PublishedInTerminalOrder,
              RetryOwnsReservation, IdentityNotReused
  <1>1. ASSUME NEW i \in Items, NEW b \in ByteSizes, ReserveTerminal(i, b)
        PROVE  Rest'
    <2>1. /\ Retained' = Retained \cup {nextTerminal}
          /\ nextTerminal \notin Retained /\ nextTerminal # 0
          /\ \A t \in Retained : entries'[t] = entries[t]
          /\ entries'[nextTerminal].outbound = 0
          /\ entries'[nextTerminal].state = "PendingFinalization"
      BY <1>1, <1>i, <1>t, <1>0 DEF ReserveTerminal, Retained, Issued
    <2>2. /\ nextTerminal' = Increment(nextTerminal)
          /\ UNCHANGED <<nextOutbound, openOutbound, tombstones>>
      BY <1>1 DEF ReserveTerminal
    <2>3. /\ \A k \in Counter : Issued(k, nextTerminal) => Issued(k, nextTerminal')
          /\ Issued(nextTerminal, nextTerminal')
      BY <2>1, <2>2, <1>t, IncrementIssues
    <2>4. \A k \in 1 .. Len(tombstones) :
             tombstones[k].id \in Counter /\ Issued(tombstones[k].id, nextTerminal)
      <3> DEFINE Tombstone == [id : Counter, item : Items]
      <3>0. tombstones \in Seq(Tombstone)
        BY <1>t
      <3>1. \A k \in 1 .. Len(tombstones) : tombstones[k] \in Tombstone
        <4> HIDE DEF Tombstone
        <4> QED
          BY <3>0
      <3>2. \A k \in 1 .. Len(tombstones) : tombstones[k].id \in Counter
        BY <3>1
      <3>3. \A k \in 1 .. Len(tombstones) : Issued(tombstones[k].id, nextTerminal)
        BY <1>i
      <3> QED
        BY <3>2, <3>3
    <2>5. NumbersIssued'
      <3>1. Issued(0, nextOutbound)
        BY <1>t, <1>0 DEF Issued
      <3> QED
        BY <2>1, <2>2, <2>3, <2>4, <1>i, <1>t, <3>1
    <2>6. NumberedFromPublishing'
      BY <2>1, <1>i
    <2>7. PublishedInTerminalOrder'
      <3>1. \A t \in Retained : t < nextTerminal
        BY <2>1, <1>i DEF Issued
      <3>2. nextTerminal \in Nat /\ \A t \in Retained : t \in Nat
        BY <1>t, <1>0
      <3>3. \A t \in Retained : ~ (nextTerminal < t)
        BY <3>1, <3>2
      <3> QED
        BY <2>1, <3>2, <3>3, <1>i
    <2>8. RetryOwnsReservation'
      BY <2>1, <2>2, <1>i
    <2>9. IdentityNotReused'
      <3>1. \A k \in 1 .. Len(tombstones) : tombstones[k].id # nextTerminal
        BY <2>4, <2>1, <1>t, <1>0 DEF Issued
      <3> QED
        BY <2>1, <2>2, <3>1, <1>i
    <2> QED
      BY <2>5, <2>6, <2>7, <2>8, <2>9
  <1>2. ASSUME NEW t \in Retained, NEW b \in ByteSizes, CompleteTerminal(t, b)
        PROVE  Rest'
    <2>1. /\ Retained' = Retained
          /\ \A u \in Retained : entries'[u].outbound = entries[u].outbound
          /\ \A u \in Retained : u # t => entries'[u].state = entries[u].state
          /\ entries[t].state = "PendingFinalization" /\ entries'[t].state = "Ready"
      BY <1>2, <1>t DEF CompleteTerminal, Retained, Entry
    <2>2. UNCHANGED <<nextTerminal, nextOutbound, openOutbound, tombstones>>
      BY <1>2 DEF CompleteTerminal
    <2> QED
      BY <2>1, <2>2, <1>i
  <1>3. CASE ReserveOutboundSequence
    <2>1. /\ openOutbound = 0 /\ nextOutbound # 0
          /\ openOutbound' = nextOutbound /\ nextOutbound' = Increment(nextOutbound)
          /\ UNCHANGED <<entries, nextTerminal, tombstones>> /\ Retained' = Retained
      BY <1>3 DEF ReserveOutboundSequence, ReserveOutboundSequenceUnchecked, Retained
    <2>2. /\ \A k \in Counter : Issued(k, nextOutbound) => Issued(k, nextOutbound')
          /\ Issued(openOutbound', nextOutbound')
      BY <2>1, <1>t, IncrementIssues
    <2>3. \A t \in Retained : entries[t].outbound \in Counter
      BY <1>t DEF Entry
    <2> QED
      BY <2>1, <2>2, <2>3, <1>i
  <1>4. CASE ConfirmOutboundSequence
    <2>1. /\ openOutbound # 0 /\ openOutbound' = 0
          /\ UNCHANGED <<entries, nextTerminal, nextOutbound, tombstones>> /\ Retained' = Retained
          /\ \A t \in Retained :
                entries[t].state # "AwaitingAcknowledgement" => entries[t].outbound # openOutbound
      BY <1>4 DEF ConfirmOutboundSequence, OpenForEvent, Retained
    <2>2. Issued(0, nextOutbound)
      BY <1>t, <1>0 DEF Issued
    <2> QED
      BY <2>1, <2>2, <1>i
  <1>5. ASSUME NEW t \in Retained, BeginNextPublication(t)
        PROVE  Rest'
    <2>1. /\ Retained' = Retained
          /\ \A u \in Retained : u # t => entries'[u] = entries[u]
          /\ entries[t].state = "Ready" /\ entries'[t].state = "Publishing"
          /\ UNCHANGED <<nextTerminal, tombstones>>
      BY <1>5, <1>t DEF BeginNextPublication, Retained, Entry
    <2>2. \A u \in Retained : u < t => entries[u].state = "AwaitingAcknowledgement"
      BY <1>5, <1>t, <1>0 DEF BeginNextPublication, IsNextToPublish, Unpublished
    <2>3. \A u \in Retained : entries[u].outbound \in Counter
      BY <1>t DEF Entry
    <2>4. CASE entries[t].outbound = 0
      <3>1. /\ openOutbound = 0 /\ nextOutbound # 0
            /\ openOutbound' = nextOutbound /\ nextOutbound' = Increment(nextOutbound)
            /\ entries'[t].outbound = nextOutbound
        BY <1>5, <2>4, <1>t
           DEF BeginNextPublication, ReserveOutboundSequenceUnchecked, Retained, Entry
      <3>2. /\ \A k \in Counter : Issued(k, nextOutbound) => Issued(k, nextOutbound')
            /\ Issued(nextOutbound, nextOutbound')
        BY <3>1, <1>t, IncrementIssues
      <3>3. NumbersIssued' /\ NumberedFromPublishing' /\ RetryOwnsReservation' /\ IdentityNotReused'
        BY <2>1, <2>3, <3>1, <3>2, <1>i
      <3>4. PublishedInTerminalOrder'
        <4>1. \A u \in Retained : u < t => entries[u].outbound < nextOutbound
          BY <3>1, <2>3, <1>i DEF Issued
        <4>2. \A u \in Retained : t < u => entries[u].outbound = 0
          BY <2>1, <1>i
        <4> QED
          BY <2>1, <2>2, <3>1, <4>1, <4>2, <1>i
      <3> QED
        BY <3>3, <3>4
    <2>5. CASE entries[t].outbound # 0
      <3>1. entries'[t].outbound = entries[t].outbound /\ UNCHANGED <<openOutbound, nextOutbound>>
        BY <1>5, <2>5, <1>t DEF BeginNextPublication, Retained, Entry
      <3> QED
        BY <2>1, <2>5, <3>1, <1>i
    <2> QED
      BY <2>4, <2>5
  <1>6. ASSUME NEW t \in Retained, ConfirmPublished(t)
        PROVE  Rest'
    <2>1. /\ Retained' = Retained
          /\ \A u \in Retained : entries'[u].outbound = entries[u].outbound
          /\ \A u \in Retained : u # t => entries'[u].state = entries[u].state
          /\ entries[t].state = "Publishing"
          /\ entries'[t].state = "AwaitingAcknowledgement"
          /\ openOutbound = entries[t].outbound /\ openOutbound' = 0
          /\ UNCHANGED <<nextTerminal, nextOutbound, tombstones>>
      BY <1>6, <1>t DEF ConfirmPublished, Retained, Entry
    <2>2. Issued(0, nextOutbound)
      BY <1>t, <1>0 DEF Issued
    <2>3. \A u \in Retained :
             u # t /\ entries[u].state # "AwaitingAcknowledgement" => entries[u].outbound = 0
      <3> SUFFICES ASSUME NEW u \in Retained, u # t, entries[u].outbound # 0,
                          entries[u].state # "AwaitingAcknowledgement"
                   PROVE  FALSE
        OBVIOUS
      <3>1. t \in Nat /\ u \in Nat
        BY <1>t, <1>0
      <3>2. ~ (u < t)
        BY <2>1, <1>i
      <3>3. ~ (t < u)
        BY <2>1, <1>i
      <3> QED
        BY <3>1, <3>2, <3>3
    <2> QED
      BY <2>1, <2>2, <2>3, <1>i
  <1>7. ASSUME NEW t \in Retained, AbortPublication(t)
        PROVE  Rest'
    <2>1. /\ Retained' = Retained
          /\ \A u \in Retained : entries'[u].outbound = entries[u].outbound
          /\ \A u \in Retained : u # t => entries'[u].state = entries[u].state
          /\ entries[t].state = "Publishing" /\ entries'[t].state = "Ready"
          /\ UNCHANGED <<nextTerminal, nextOutbound, openOutbound, tombstones>>
      BY <1>7, <1>t DEF AbortPublication, Retained, Entry
    <2> QED
      BY <2>1, <1>i
  <1>8. ASSUME NEW t \in Retained, AcknowledgeTerminal(t)
        PROVE  Rest'
    <2> DEFINE new == [id |-> t, item |-> entries[t].item]
               longer == Append(tombstones, new)
    <2>1. /\ Retained' = Retained \ {t}
          /\ \A u \in Retained' : entries'[u] = entries[u]
          /\ UNCHANGED <<nextTerminal, nextOutbound, openOutbound>>
      BY <1>8 DEF AcknowledgeTerminal, Retained
    <2>2. /\ Len(longer) = Len(tombstones) + 1
          /\ \A k \in 1 .. Len(tombstones) : longer[k] = tombstones[k]
          /\ longer[Len(tombstones) + 1] = new
          /\ longer \in Seq([id : Counter, item : Items])
      BY <1>t DEF Entry
    <2>3. /\ \A k \in 1 .. Len(longer) :
                Issued(longer[k].id, nextTerminal) /\ longer[k].id \notin Retained'
          /\ \A j, k \in 1 .. Len(longer) : longer[j].id = longer[k].id => j = k
      <3>1. \A k \in 1 .. Len(tombstones) : tombstones[k].id # t
        BY <1>i
      <3>2. new.id = t
        OBVIOUS
      <3>3. \A k \in 1 .. Len(longer) : k \in 1 .. Len(tombstones) \/ k = Len(tombstones) + 1
        BY <2>2, <1>t
      <3> HIDE DEF new, longer
      <3>4. \A k \in 1 .. Len(tombstones) :
               Issued(longer[k].id, nextTerminal) /\ longer[k].id \notin Retained' /\ longer[k].id # t
        BY <2>1, <2>2, <3>1, <1>i
      <3>5. Issued(t, nextTerminal) /\ t \notin Retained' /\ longer[Len(tombstones) + 1].id = t
        BY <2>1, <2>2, <3>2, <1>i
      <3>6. \A j, k \in 1 .. Len(tombstones) : longer[j].id = longer[k].id => j = k
        BY <2>2, <1>i
      <3> HIDE DEF NumbersIssued, IdentityNotReused
      <3> QED
        BY <3>3, <3>4, <3>5, <3>6
    <2>4. tombstones' = longer \/ tombstones' = Tail(longer)
      BY <1>8 DEF AcknowledgeTerminal
    <2>5. NumbersIssued' /\ IdentityNotReused'
      <3> HIDE DEF longer
      <3>1. CASE tombstones' = longer
        BY <3>1, <2>1, <2>3, <1>i
      <3>2. CASE tombstones' = Tail(longer)
        <4>1. Len(tombstones') = Len(longer) - 1
          BY <3>2, <2>2, <1>t
        <4>2. \A k \in 1 .. Len(tombstones') :
                 tombstones'[k] = longer[k + 1] /\ k + 1 \in 1 .. Len(longer)
          BY <3>2, <4>1, <2>2, <1>t
        <4>3. \A j, k \in 1 .. Len(tombstones') : j + 1 = k + 1 => j = k
          <5>1. \A j, k \in Int : j + 1 = k + 1 => j = k
            OBVIOUS
          <5>2. Len(tombstones') \in Int
            BY <4>1, <2>2, <1>t
          <5> QED
            BY <5>1, <5>2
        <4>4. \A k \in 1 .. Len(tombstones') :
                 Issued(tombstones'[k].id, nextTerminal) /\ tombstones'[k].id \notin Retained'
          BY <4>2, <2>3
        <4>5. \A j, k \in 1 .. Len(tombstones') :
                 tombstones'[j].id = tombstones'[k].id => j = k
          <5> SUFFICES ASSUME NEW j \in 1 .. Len(tombstones'), NEW k \in 1 .. Len(tombstones'),
                              tombstones'[j].id = tombstones'[k].id
                       PROVE  j = k
            OBVIOUS
          <5>1. longer[j + 1].id = longer[k + 1].id
            BY <4>2
          <5>2. j + 1 = k + 1
            BY <5>1, <4>2, <2>3
          <5> QED
            BY <5>2, <4>3
        <4> QED
          BY <4>4, <4>5, <2>1, <1>i
      <3> QED
        BY <3>1, <3>2, <2>4
    <2>6. NumberedFromPublishing' /\ PublishedInTerminalOrder' /\ RetryOwnsReservation'
      BY <2>1, <1>i
    <2> QED
      BY <2>5, <2>6
  <1>9. CASE UNCHANGED ledgerVars
    BY <1>9, <1>i DEF ledgerVars, Retained, Issued
  <1> QED
    BY <1>1, <1>2, <1>3, <1>4, <1>5, <1>6, <1>7, <1>8, <1>9 DEF Next

(* The initial ledger is empty, so the strengthened invariant holds of it, *)
(* and every method preserves it.                                          *)
LEMMA LedgerInvariance == Spec => []LedgerInv
PROOF
  <1>1. Init => LedgerInv
    BY LedgerAssumption
       DEF Init, LedgerInv, TypeOK, Counter, Retained, Issued, NumbersIssued,
           NumberedFromPublishing, PublishedInTerminalOrder, RetryOwnsReservation,
           IdentityNotReused
  <1> QED
    BY <1>1, LedgerStep, PTL DEF Spec

(* Terminals are numbered and sent in the order they were reserved in,     *)
(* whatever the order they become ready in, for every bound and width.     *)
THEOREM TerminalOrder == Spec => []PublishedInTerminalOrder
PROOF BY LedgerInvariance, PTL DEF LedgerInv

(* A terminal under retry always owns the open outbound sequence, so the   *)
(* retry cannot be refused and nothing is numbered in between.             *)
THEOREM RetryExclusive == Spec => []RetryOwnsReservation
PROOF BY LedgerInvariance, PTL DEF LedgerInv

(* A terminal identity is issued once, also when its counter runs out, so  *)
(* the tombstones never name a terminal that is still retained.            *)
THEOREM IdentityUnique == Spec => []IdentityNotReused
PROOF BY LedgerInvariance, PTL DEF LedgerInv

-----------------------------------------------------------------------------

(* The sum over a set is defined by recursion over its subsets, and always *)
(* takes the chosen element away. IsSum says that g is such a recursive    *)
(* function: g[s] is what the terminals of s occupy in the ledger e.       *)
Chosen(s) == CHOOSE x \in s : TRUE

IsSum(g, e, S) ==
    g = [s \in SUBSET S |-> IF s = {} THEN 0
                                      ELSE e[Chosen(s)].bytes + g[s \ {Chosen(s)}]]

BytesOf(e, S) == (CHOOSE g : IsSum(g, e, S))[S]

(* What the account is compared with is this sum. *)
LEMMA AccountIsSum ==
    MapThenSumSet(LAMBDA t : entries[t].bytes, Retained) = BytesOf(entries, Retained)
PROOF BY Zenon DEF MapThenSumSet, MapThenFoldSet, BytesOf, IsSum, Chosen

(* The values of such a function. *)
LEMMA SumValues ==
    ASSUME NEW e, NEW S, NEW g, IsSum(g, e, S)
    PROVE  /\ g[{}] = 0
           /\ \A s \in SUBSET S : s # {} =>
                 /\ Chosen(s) \in s
                 /\ g[s] = e[Chosen(s)].bytes + g[s \ {Chosen(s)}]
PROOF
  <1>1. {} \in SUBSET S
    OBVIOUS
  <1>2. \A s \in SUBSET S : g[s] = IF s = {} THEN 0
                                   ELSE e[Chosen(s)].bytes + g[s \ {Chosen(s)}]
    BY Zenon DEF IsSum
  <1>3. \A s \in SUBSET S : s # {} => Chosen(s) \in s
    BY DEF Chosen
  <1> QED
    BY <1>1, <1>2, <1>3

(* Of the subsets in B there is one no proper subset of which is in B. The *)
(* lemmas below look at such a set where one would use induction.          *)
LEMMA LeastSubset ==
    ASSUME NEW S, IsFiniteSet(S), NEW B \in SUBSET SUBSET S, B # {}
    PROVE  \E s \in B : /\ IsFiniteSet(s)
                        /\ \A r \in SUBSET s : r \in B => r = s
PROOF
  <1> DEFINE sizes == {Cardinality(s) : s \in B}
  <1>1. \A s \in B : IsFiniteSet(s) /\ Cardinality(s) \in Nat
    BY FS_Subset, FS_CardinalityType
  <1>2. sizes \subseteq Nat /\ sizes # {}
    BY <1>1
  <1>3. PICK n \in sizes : \A m \in sizes : n <= m
    <2> HIDE DEF sizes
    <2> QED BY <1>2, LeastNat
  <1>4. PICK s \in B : Cardinality(s) = n
    BY <1>3
  <1>5. ASSUME NEW r \in SUBSET s, r \in B
        PROVE  r = s
    <2>1. Cardinality(r) <= Cardinality(s) /\ (Cardinality(s) = Cardinality(r) => s = r)
      BY <1>1, FS_Subset
    <2>2. Cardinality(s) <= Cardinality(r)
      BY <1>3, <1>4, <1>5
    <2> QED
      BY <1>1, <1>5, <2>1, <2>2
  <1> QED
    BY <1>1, <1>5

(* Two such functions agree on the sets both are defined for. *)
LEMMA SumUnique ==
    ASSUME NEW e, NEW S, NEW g, IsSum(g, e, S), NEW T, NEW h, IsSum(h, e, T),
           NEW U \in SUBSET (S \cap T), IsFiniteSet(U)
    PROVE  g[U] = h[U]
PROOF
  <1> DEFINE B == {s \in SUBSET U : g[s] # h[s]}
  <1> SUFFICES ASSUME B # {} PROVE FALSE
    OBVIOUS
  <1>1. PICK s \in B : \A r \in SUBSET s : r \in B => r = s
    <2>1. B \in SUBSET SUBSET U
      OBVIOUS
    <2> HIDE DEF B
    <2> QED
      BY <2>1, LeastSubset
  <1>2. s \in SUBSET U /\ g[s] # h[s]
    BY <1>1
  <1>3. s \in SUBSET S /\ s \in SUBSET T
    BY <1>2
  <1>4. CASE s = {}
    BY <1>2, <1>4, SumValues
  <1>5. CASE s # {}
    <2>1. /\ Chosen(s) \in s
          /\ g[s] = e[Chosen(s)].bytes + g[s \ {Chosen(s)}]
          /\ h[s] = e[Chosen(s)].bytes + h[s \ {Chosen(s)}]
      BY <1>3, <1>5, SumValues
    <2>2. /\ s \ {Chosen(s)} \in SUBSET U
          /\ s \ {Chosen(s)} \in SUBSET s /\ s \ {Chosen(s)} # s
      BY <1>2, <2>1
    <2>3. g[s \ {Chosen(s)}] = h[s \ {Chosen(s)}]
      BY <1>1, <2>1, <2>2
    <2> QED
      BY <1>2, <2>1, <2>3
  <1> QED
    BY <1>4, <1>5

(* On a subset, such a function is again one. *)
LEMMA SumRestricted ==
    ASSUME NEW e, NEW S, NEW g, IsSum(g, e, S), NEW T \in SUBSET S
    PROVE  \E h : IsSum(h, e, T) /\ \A s \in SUBSET T : h[s] = g[s]
PROOF
  <1> DEFINE h == [s \in SUBSET T |-> g[s]]
  <1>1. \A s \in SUBSET T : h[s] = g[s]
    OBVIOUS
  <1>2. \A s \in SUBSET T : s \in SUBSET S /\ s \ {Chosen(s)} \in SUBSET T
    OBVIOUS
  <1>3. \A s \in SUBSET T : g[s] = IF s = {} THEN 0
                                   ELSE e[Chosen(s)].bytes + h[s \ {Chosen(s)}]
    <2>1. /\ g[{}] = 0
          /\ \A s \in SUBSET S : s # {} => g[s] = e[Chosen(s)].bytes + g[s \ {Chosen(s)}]
      BY SumValues
    <2> HIDE DEF h
    <2> QED
      BY <1>1, <1>2, <2>1
  <1>4. IsSum(h, e, T)
    BY <1>3, Zenon DEF IsSum
  <1> QED
    BY <1>1, <1>4

(* There is one for every finite set. *)
LEMMA SumExists ==
    ASSUME NEW e, NEW S, IsFiniteSet(S)
    PROVE  \E g : IsSum(g, e, S)
PROOF
  <1> DEFINE B == {s \in SUBSET S : ~ \E g : IsSum(g, e, s)}
  <1> SUFFICES ASSUME B # {} PROVE FALSE
    OBVIOUS
  <1>1. PICK T \in B : IsFiniteSet(T) /\ \A r \in SUBSET T : r \in B => r = T
    <2>1. B \in SUBSET SUBSET S
      OBVIOUS
    <2> HIDE DEF B
    <2> QED
      BY <2>1, LeastSubset
  <1>2. T \in SUBSET S /\ ~ \E g : IsSum(g, e, T)
    BY <1>1
  <1> DEFINE G(x) == CHOOSE g : IsSum(g, e, T \ {x})
  <1>3. \A x \in T : IsSum(G(x), e, T \ {x})
    <2>0. \A x \in T : T \ {x} \in SUBSET S /\ T \ {x} \in SUBSET T /\ T \ {x} # T
      BY <1>2
    <2>1. \A x \in T : \E g : IsSum(g, e, T \ {x})
      BY <1>1, <2>0
    <2> QED
      BY <2>1, Zenon
  <1> HIDE DEF G
  <1> DEFINE value(s) == IF s = {} THEN 0
                         ELSE e[Chosen(s)].bytes + G(Chosen(s))[s \ {Chosen(s)}]
             h == [s \in SUBSET T |-> value(s)]
  <1>4. \A s \in SUBSET T : s # {} => Chosen(s) \in s /\ Chosen(s) \in T
    BY DEF Chosen
  <1>5. ASSUME NEW s \in SUBSET T, s # {}
        PROVE  h[s \ {Chosen(s)}] = G(Chosen(s))[s \ {Chosen(s)}]
    <2> DEFINE x == Chosen(s)
               r == s \ {x}
    <2>1. x \in T /\ IsSum(G(x), e, T \ {x}) /\ r \in SUBSET (T \ {x}) /\ r \in SUBSET T
      BY <1>3, <1>4, <1>5
    <2>2. h[r] = value(r)
      BY <2>1
    <2> HIDE DEF h
    <2>3. CASE r = {}
      <3>1. G(x)[{}] = 0
        BY <2>1, SumValues
      <3> QED
        BY <2>2, <2>3, <3>1
    <2>4. CASE r # {}
      <3> DEFINE y == Chosen(r)
      <3>1. y \in r /\ y \in T /\ IsSum(G(y), e, T \ {y})
        BY <1>3, <1>4, <2>1, <2>4
      <3>2. G(x)[r] = e[y].bytes + G(x)[r \ {y}]
        <4>1. \A u \in SUBSET (T \ {x}) : u # {} =>
                 G(x)[u] = e[Chosen(u)].bytes + G(x)[u \ {Chosen(u)}]
          BY <2>1, SumValues
        <4> HIDE DEF r
        <4> QED BY <2>1, <2>4, <4>1
      <3>3. r \ {y} \in SUBSET ((T \ {x}) \cap (T \ {y})) /\ IsFiniteSet(r \ {y})
        <4>1. r \ {y} \in SUBSET T
          BY <2>1
        <4> QED
          BY <1>1, <2>1, <4>1, FS_Subset
      <3>4. G(x)[r \ {y}] = G(y)[r \ {y}]
        <4> HIDE DEF r, y
        <4> QED BY <2>1, <3>1, <3>3, SumUnique
      <3>5. h[r] = e[y].bytes + G(y)[r \ {y}]
        BY <2>2, <2>4
      <3> SUFFICES h[r] = G(x)[r]
        OBVIOUS
      <3> HIDE DEF r, y, x
      <3> QED
        BY <3>2, <3>4, <3>5, Zenon
    <2> QED
      BY <2>3, <2>4
  <1>6. \A s \in SUBSET T : value(s) = IF s = {} THEN 0
                                       ELSE e[Chosen(s)].bytes + h[s \ {Chosen(s)}]
    <2> HIDE DEF h
    <2> QED BY <1>5
  <1>7. IsSum(h, e, T)
    <2> HIDE DEF value
    <2>1. h = [s \in SUBSET T |-> IF s = {} THEN 0
                                  ELSE e[Chosen(s)].bytes + h[s \ {Chosen(s)}]]
      BY <1>6, Zenon
    <2> QED
      BY <2>1, Zenon DEF IsSum
  <1> QED
    BY <1>2, <1>7

(* So the sum is the value of any of them. *)
LEMMA SumIs ==
    ASSUME NEW e, NEW S, IsFiniteSet(S), NEW g, IsSum(g, e, S), NEW T \in SUBSET S
    PROVE  BytesOf(e, T) = g[T]
PROOF
  <1>1. IsFiniteSet(T)
    BY FS_Subset
  <1>2. PICK h : IsSum(h, e, T) /\ BytesOf(e, T) = h[T]
    BY <1>1, SumExists, Zenon DEF BytesOf
  <1>3. T \in SUBSET (S \cap T)
    OBVIOUS
  <1> QED
    BY <1>1, <1>2, <1>3, SumUnique

(* Nothing retained occupies nothing. *)
LEMMA SumOfNone ==
    ASSUME NEW e
    PROVE  BytesOf(e, {}) = 0
PROOF
  <1>1. IsFiniteSet({})
    BY FS_EmptySet
  <1>2. PICK g : IsSum(g, e, {})
    BY <1>1, SumExists
  <1> QED
    BY <1>1, <1>2, SumIs, SumValues

(* Taking any element away takes its bytes away: the choice does not       *)
(* matter, and the sum is a natural number.                                *)
LEMMA SumWithout ==
    ASSUME NEW e, NEW S, IsFiniteSet(S), \A t \in S : e[t].bytes \in Nat
    PROVE  /\ BytesOf(e, S) \in Nat
           /\ \A x \in S : BytesOf(e, S) = e[x].bytes + BytesOf(e, S \ {x})
PROOF
  <1> DEFINE Fine(s) == /\ BytesOf(e, s) \in Nat
                        /\ \A x \in s : BytesOf(e, s) = e[x].bytes + BytesOf(e, s \ {x})
             B == {s \in SUBSET S : ~ Fine(s)}
  <1> SUFFICES ASSUME B # {} PROVE FALSE
    BY DEF Fine
  <1>1. PICK T \in B : IsFiniteSet(T) /\ \A r \in SUBSET T : r \in B => r = T
    <2>1. B \in SUBSET SUBSET S
      OBVIOUS
    <2> HIDE DEF B
    <2> QED
      BY <2>1, LeastSubset
  <1>2. T \in SUBSET S /\ ~ Fine(T)
    BY <1>1
  <1>3. \A r \in SUBSET T : r # T => Fine(r)
    <2> HIDE DEF Fine
    <2> QED BY <1>1, <1>2
  <1>4. CASE T = {}
    BY <1>2, <1>4, SumOfNone
  <1>5. CASE T # {}
    <2> DEFINE y == Chosen(T)
    <2>1. PICK g : IsSum(g, e, T)
      BY <1>1, SumExists
    <2>2. /\ y \in T /\ g[T] = e[y].bytes + g[T \ {y}]
          /\ BytesOf(e, T) = g[T] /\ BytesOf(e, T \ {y}) = g[T \ {y}]
      <3>1. T \in SUBSET T /\ T \ {y} \in SUBSET T
        OBVIOUS
      <3>2. y \in T /\ g[T] = e[y].bytes + g[T \ {y}]
        BY <1>5, <2>1, <3>1, SumValues
      <3> HIDE DEF y
      <3>3. BytesOf(e, T) = g[T] /\ BytesOf(e, T \ {y}) = g[T \ {y}]
        BY <1>1, <2>1, <3>1, SumIs
      <3> QED
        BY <3>2, <3>3
    <2> HIDE DEF y
    <2>3. \A x \in T : e[x].bytes \in Nat /\ Fine(T \ {x})
      <3>1. \A x \in T : x \in S /\ T \ {x} \in SUBSET T /\ T \ {x} # T
        BY <1>2
      <3> HIDE DEF Fine
      <3> QED BY <1>3, <3>1
    <2>4. /\ BytesOf(e, T) = e[y].bytes + BytesOf(e, T \ {y})
          /\ BytesOf(e, T) \in Nat
      BY <2>2, <2>3
    <2>5. ASSUME NEW x \in T, x # y
          PROVE  BytesOf(e, T) = e[x].bytes + BytesOf(e, T \ {x})
      <3>1. PICK rest \in SUBSET T :
               /\ (T \ {y}) \ {x} = rest /\ (T \ {x}) \ {y} = rest
               /\ x \in T \ {y} /\ y \in T \ {x} /\ rest # T
        <4>1. /\ (T \ {y}) \ {x} = T \ {x, y} /\ (T \ {x}) \ {y} = T \ {x, y}
              /\ x \in T \ {y} /\ y \in T \ {x}
          BY <2>2, <2>5
        <4>2. T \ {x, y} \in SUBSET T /\ T \ {x, y} # T
          BY <2>2
        <4> QED BY <4>1, <4>2, Zenon
      <3>2. BytesOf(e, T \ {y}) = e[x].bytes + BytesOf(e, rest)
        BY <2>2, <2>3, <3>1
      <3>3. BytesOf(e, T \ {x}) = e[y].bytes + BytesOf(e, rest)
        BY <2>3, <3>1
      <3>4. BytesOf(e, rest) \in Nat
        BY <1>3, <3>1
      <3>5. e[x].bytes \in Nat /\ e[y].bytes \in Nat
        BY <2>2, <2>3
      <3> QED
        BY <2>4, <3>2, <3>3, <3>4, <3>5
    <2>6. Fine(T)
      BY <2>4, <2>5
    <2> QED
      BY <1>2, <2>6
  <1> QED
    BY <1>4, <1>5

(* The sum depends on the bytes of the elements only. *)
LEMMA SumSame ==
    ASSUME NEW d, NEW e, NEW S, IsFiniteSet(S), \A t \in S : d[t].bytes = e[t].bytes
    PROVE  BytesOf(d, S) = BytesOf(e, S)
PROOF
  <1>1. PICK g : IsSum(g, d, S)
    BY SumExists
  <1>2. \A s \in SUBSET S : s # {} => Chosen(s) \in S
    BY DEF Chosen
  <1>3. \A s \in SUBSET S :
           (IF s = {} THEN 0 ELSE d[Chosen(s)].bytes + g[s \ {Chosen(s)}])
             = (IF s = {} THEN 0 ELSE e[Chosen(s)].bytes + g[s \ {Chosen(s)}])
    BY <1>2
  <1>4. IsSum(g, e, S)
    BY <1>1, <1>3, Zenon DEF IsSum
  <1>5. S \in SUBSET S
    OBVIOUS
  <1> QED
    BY <1>1, <1>4, <1>5, SumIs

-----------------------------------------------------------------------------

(* The byte account with the sum written as above. *)
Account ==
    /\ retainedBytes = BytesOf(entries, Retained)
    /\ retainedBytes <= MaxBytes
    /\ Cardinality(Retained) <= MaxTerminals

(* It is what the property says. *)
LEMMA AccountIsBytesAccounted == BytesAccounted <=> Account
PROOF BY AccountIsSum DEF BytesAccounted, Account

(* Terminals are identified by a counter, so only finitely many are        *)
(* retained, and each of them has a size.                                  *)
LEMMA RetainedFinite ==
    ASSUME TypeOK
    PROVE  /\ IsFiniteSet(Retained) /\ Cardinality(Retained) \in Nat
           /\ \A t \in Retained : entries[t].bytes \in Nat
PROOF
  <1>1. Counter \ {0} \subseteq Counter /\ IsFiniteSet(Counter)
    <2>1. 0 \in Int /\ CounterModulus - 1 \in Int
      BY LedgerAssumption
    <2> QED
      BY <2>1, FS_Interval DEF Counter
  <1>2. Retained \in SUBSET Counter
    BY <1>1 DEF TypeOK, Retained
  <1>3. \A t \in Retained : entries[t].bytes \in Nat
    BY DEF TypeOK, Retained, Entry
  <1> QED
    BY <1>1, <1>2, <1>3, FS_Subset, FS_CardinalityType

(* A method that only changes states and numbers keeps the account. *)
LEMMA AccountUndisturbed ==
    ASSUME TypeOK, Account, Retained' = Retained, UNCHANGED retainedBytes,
           \A t \in Retained : entries'[t].bytes = entries[t].bytes
    PROVE  Account'
PROOF
  <1>1. PICK d : d = entries'
    OBVIOUS
  <1>2. BytesOf(d, Retained) = BytesOf(entries, Retained)
    BY <1>1, RetainedFinite, SumSame
  <1>3. BytesOf(entries, Retained)' = BytesOf(d, Retained)
    BY <1>1
  <1> QED
    BY <1>2, <1>3 DEF Account

(* Every method keeps the account: the reservation is added, a completion  *)
(* replaces it by the final size, and an acknowledgement subtracts what    *)
(* the terminal still occupies.                                            *)
LEMMA AccountStep == LedgerInv /\ Account /\ [Next]_ledgerVars => Account'
PROOF
  <1> SUFFICES ASSUME LedgerInv, Account, [Next]_ledgerVars PROVE Account'
    OBVIOUS
  <1>0. TypeOK /\ NumbersIssued
    BY DEF LedgerInv
  <1>t. /\ IsFiniteSet(Retained) /\ Cardinality(Retained) \in Nat
        /\ \A t \in Retained : entries[t].bytes \in Nat /\ entries[t] \in Entry
        /\ MaxBytes \in Nat /\ MaxTerminals \in Nat /\ ByteSizes \subseteq Nat
        /\ retainedBytes \in Int
    BY <1>0, RetainedFinite, LedgerAssumption DEF TypeOK, Retained
  <1>a. /\ retainedBytes = BytesOf(entries, Retained)
        /\ retainedBytes <= MaxBytes
        /\ Cardinality(Retained) <= MaxTerminals
    BY DEF Account
  <1>d. PICK d : d = entries'
    OBVIOUS
  <1>e. \A S : S = Retained' => BytesOf(entries, Retained)' = BytesOf(d, S)
    BY <1>d
  <1>1. ASSUME NEW i \in Items, NEW b \in ByteSizes, ReserveTerminal(i, b)
        PROVE  Account'
    <2> DEFINE S == Retained \cup {nextTerminal}
    <2>1. /\ Retained' = S /\ nextTerminal \notin Retained
          /\ \A t \in Retained : d[t] = entries[t]
          /\ d[nextTerminal].bytes = b
      BY <1>1, <1>0, <1>d DEF ReserveTerminal, Retained, Issued, NumbersIssued, TypeOK, Counter
    <2>2. /\ Cardinality(Retained) < MaxTerminals
          /\ retainedBytes <= MaxBytes - b /\ retainedBytes' = retainedBytes + b
      BY <1>1 DEF ReserveTerminal
    <2>3. S \ {nextTerminal} = Retained /\ nextTerminal \in S
      BY <2>1
    <2>4. IsFiniteSet(S) /\ Cardinality(S) = Cardinality(Retained) + 1
      BY <1>t, <2>1, FS_AddElement
    <2>5. \A t \in S : d[t].bytes \in Nat
      BY <1>t, <2>1
    <2> HIDE DEF S
    <2>6. BytesOf(d, S) = b + BytesOf(d, Retained)
      BY <2>1, <2>3, <2>4, <2>5, SumWithout
    <2>7. BytesOf(d, Retained) = BytesOf(entries, Retained)
      BY <1>t, <2>1, SumSame
    <2>8. BytesOf(entries, Retained)' = BytesOf(d, S)
      BY <1>e, <2>1
    <2>9. retainedBytes' = BytesOf(entries, Retained)'
      BY <1>a, <1>t, <2>2, <2>6, <2>7, <2>8
    <2>10. retainedBytes' <= MaxBytes /\ Cardinality(Retained)' <= MaxTerminals
      BY <1>t, <2>1, <2>2, <2>4
    <2> QED
      BY <2>9, <2>10 DEF Account
  <1>2. ASSUME NEW t \in Retained, NEW b \in ByteSizes, CompleteTerminal(t, b)
        PROVE  Account'
    <2> DEFINE rest == Retained \ {t}
    <2>1. /\ Retained' = Retained
          /\ \A u \in rest : d[u] = entries[u]
          /\ d[t].bytes = b
      BY <1>2, <1>d, <1>t DEF CompleteTerminal, Retained, Entry
    <2>2. /\ retainedBytes' = retainedBytes + (b - entries[t].bytes)
          /\ b > entries[t].bytes => retainedBytes <= MaxBytes - (b - entries[t].bytes)
      BY <1>2 DEF CompleteTerminal
    <2>3. BytesOf(d, Retained) = b + BytesOf(d, rest)
      <3>1. \A u \in Retained : d[u].bytes \in Nat
        BY <1>t, <2>1
      <3> QED
        BY <1>t, <2>1, <3>1, SumWithout
    <2>4. BytesOf(entries, Retained) = entries[t].bytes + BytesOf(entries, rest)
      BY <1>t, SumWithout
    <2>5. IsFiniteSet(rest) /\ \A u \in rest : entries[u].bytes \in Nat
      BY <1>t, FS_RemoveElement
    <2> HIDE DEF rest
    <2>6. BytesOf(d, rest) = BytesOf(entries, rest) /\ BytesOf(entries, rest) \in Nat
      BY <2>1, <2>5, SumSame, SumWithout
    <2>7. BytesOf(entries, Retained)' = BytesOf(d, Retained)
      BY <1>e, <2>1
    <2>8. entries[t].bytes \in Nat /\ b \in Nat
      BY <1>t
    <2>9. retainedBytes' = BytesOf(entries, Retained)' /\ retainedBytes' <= MaxBytes
      BY <1>a, <1>t, <2>2, <2>3, <2>4, <2>6, <2>7, <2>8
    <2> QED
      BY <1>a, <2>1, <2>9 DEF Account
  <1>3. CASE ReserveOutboundSequence
    BY <1>0, <1>3, AccountUndisturbed DEF ReserveOutboundSequence, Retained
  <1>4. CASE ConfirmOutboundSequence
    BY <1>0, <1>4, AccountUndisturbed DEF ConfirmOutboundSequence, Retained
  <1>5. ASSUME NEW t \in Retained, BeginNextPublication(t)
        PROVE  Account'
    <2>1. /\ Retained' = Retained /\ UNCHANGED retainedBytes
          /\ \A u \in Retained : entries'[u].bytes = entries[u].bytes
      BY <1>5, <1>t DEF BeginNextPublication, Retained, Entry
    <2> QED
      BY <1>0, <2>1, AccountUndisturbed
  <1>6. ASSUME NEW t \in Retained, ConfirmPublished(t)
        PROVE  Account'
    <2>1. /\ Retained' = Retained /\ UNCHANGED retainedBytes
          /\ \A u \in Retained : entries'[u].bytes = entries[u].bytes
      BY <1>6, <1>t DEF ConfirmPublished, Retained, Entry
    <2> QED
      BY <1>0, <2>1, AccountUndisturbed
  <1>7. ASSUME NEW t \in Retained, AbortPublication(t)
        PROVE  Account'
    <2>1. /\ Retained' = Retained /\ UNCHANGED retainedBytes
          /\ \A u \in Retained : entries'[u].bytes = entries[u].bytes
      BY <1>7, <1>t DEF AbortPublication, Retained, Entry
    <2> QED
      BY <1>0, <2>1, AccountUndisturbed
  <1>8. ASSUME NEW t \in Retained, AcknowledgeTerminal(t)
        PROVE  Account'
    <2> DEFINE rest == Retained \ {t}
    <2>1. /\ Retained' = rest
          /\ \A u \in rest : d[u] = entries[u]
          /\ retainedBytes' = retainedBytes - entries[t].bytes
      BY <1>8, <1>d DEF AcknowledgeTerminal, Retained
    <2>2. BytesOf(entries, Retained) = entries[t].bytes + BytesOf(entries, rest)
      BY <1>t, SumWithout
    <2>3. /\ IsFiniteSet(rest) /\ Cardinality(rest) = Cardinality(Retained) - 1
          /\ \A u \in rest : entries[u].bytes \in Nat
      BY <1>t, FS_RemoveElement
    <2> HIDE DEF rest
    <2>4. BytesOf(d, rest) = BytesOf(entries, rest) /\ BytesOf(entries, rest) \in Nat
      BY <2>1, <2>3, SumSame, SumWithout
    <2>5. BytesOf(entries, Retained)' = BytesOf(d, rest)
      BY <1>e, <2>1
    <2>6. entries[t].bytes \in Nat
      BY <1>t
    <2>7. retainedBytes' = BytesOf(entries, Retained)' /\ retainedBytes' <= MaxBytes
      BY <1>a, <1>t, <2>1, <2>2, <2>4, <2>5, <2>6
    <2>8. Cardinality(Retained)' <= MaxTerminals
      BY <1>a, <1>t, <2>1, <2>3
    <2> QED
      BY <2>7, <2>8 DEF Account
  <1>9. CASE UNCHANGED ledgerVars
    BY <1>0, <1>9, AccountUndisturbed DEF ledgerVars, Retained
  <1> QED
    BY <1>1, <1>2, <1>3, <1>4, <1>5, <1>6, <1>7, <1>8, <1>9 DEF Next

(* The byte account is exact and within both limits, whatever the sizes    *)
(* the terminals are reserved with and turn out to have: retained_bytes_   *)
(* never wraps and never closes the ledger for good.                       *)
THEOREM AccountExact == Spec => []BytesAccounted
PROOF
  <1>1. Init => Account
    <2> SUFFICES ASSUME Init PROVE Account
      OBVIOUS
    <2>1. retainedBytes = 0 /\ Retained = {}
      BY DEF Init, Retained
    <2> QED
      BY <2>1, LedgerAssumption, SumOfNone, FS_EmptySet DEF Account
  <1>2. BytesAccounted <=> Account
    BY AccountIsBytesAccounted
  <1> QED
    BY <1>1, <1>2, AccountStep, LedgerInvariance, PTL DEF Spec

-----------------------------------------------------------------------------
(* The stream is not quite a client of WorkerCompletionLedger!Next: a plain  *)
(* event reserves and confirms its number in one turn. The ledger's          *)
(* invariant carries over all the same. To it are added what the actor holds *)
(* in its hands, and that the numbers in the queue, and the terminals in it, *)
(* are exactly those sent and not yet read, in order.                        *)

(* The non-zero values of f[1], ..., f[n] ascend and leave out none after  *)
(* base: what is seen of the queue by someone who has read up to base.     *)
Gapless(n, f, base) ==
    /\ \A i, j \in 1 .. n : i < j /\ f[i] # 0 /\ f[j] # 0 => f[i] < f[j]
    /\ \A i \in 1 .. n : f[i] # 0 => base < f[i]
    /\ \A i \in 1 .. n, k \in Nat : base < k /\ k < f[i] => \E j \in 1 .. n : f[j] = k

Numbers(q) == [i \in 1 .. Len(q) |-> q[i].outbound]
Terminals(q) == [i \in 1 .. Len(q) |-> q[i].terminal]

Carries(q, k) == \E i \in 1 .. Len(q) : Numbers(q)[i] = k
CarriesTerminal(q, t) == \E i \in 1 .. Len(q) : Terminals(q)[i] = t

(* The numbers that were given to the publisher, and the terminals. *)
SentNumbers ==
    {k \in Counter \ {0} : Issued(k, nextOutbound) /\ (k = openOutbound => actor = "sent")}

SentTerminals ==
    {t \in Counter \ {0} :
       /\ Issued(t, nextTerminal)
       /\ t \in Retained => \/ entries[t].state = "AwaitingAcknowledgement"
                            \/ t = sending /\ actor = "sent"}

(* What the actor has in its hands within a turn. *)
InHand ==
    /\ \A t \in Retained \ {sending} : entries[t].state \notin {"PendingFinalization", "Publishing"}
    /\ actor = "idle" => sending = 0
    /\ actor # "idle" => sending \in Retained
    /\ actor = "retaining" => entries[sending].state = "PendingFinalization"
    /\ actor \in {"sending", "sent"} =>
          /\ entries[sending].state = "Publishing"
          /\ entries[sending].outbound = openOutbound
    /\ openOutbound # 0 => nextOutbound = Increment(openOutbound)

(* The queue holds numbers that were sent, and passive records are plain. *)
QueueSent ==
    \A i \in 1 .. Len(queue) :
       /\ queue[i].outbound # 0 => queue[i].outbound \in SentNumbers
       /\ queue[i].outbound = 0 => queue[i].terminal = 0
       /\ queue[i].terminal # 0 => queue[i].terminal \in SentTerminals

(* What the reader has seen was sent, and it was handed 1, 2, 3, ... *)
ReaderSeen ==
    /\ lastOutbound # 0 => lastOutbound \in SentNumbers
    /\ \A k \in 1 .. Len(accepted) : accepted[k] = k /\ k \in SentTerminals

(* Nothing that was sent is missing between the reader and the actor. *)
NumbersFlow ==
    lost = 0 /\ ~ protocolFailed =>
       /\ Gapless(Len(queue), Numbers(queue), lastOutbound)
       /\ ~ stopped => \A k \in Counter :
                          k \in SentNumbers /\ lastOutbound < k => Carries(queue, k)

TerminalsFlow ==
    ~ protocolFailed =>
       /\ Gapless(Len(queue), Terminals(queue), Len(accepted))
       /\ ~ stopped => \A t \in Counter :
                          t \in SentTerminals /\ Len(accepted) < t => CarriesTerminal(queue, t)

(* What the worker has forgotten was handed over. *)
ForgottenAccepted ==
    \A t \in Counter \ {0} : Issued(t, nextTerminal) /\ t \notin Retained => t <= Len(accepted)

StreamInv ==
    /\ StreamTypeOK /\ LedgerInv
    /\ InHand /\ QueueSent /\ ReaderSeen
    /\ NumbersFlow /\ TerminalsFlow /\ ForgottenAccepted
    /\ lost <= throws
    /\ NoSpuriousProtocolFailure

-----------------------------------------------------------------------------
(* Sequences without gaps *)

(* Views of a sequence of length n: g is f without its first element,      *)
(* f with m after it, and f without the plain element at p.                *)
Shifted(n, f, g) ==
    /\ n \in Nat /\ n # 0
    /\ f \in [1 .. n -> Nat] /\ g \in [1 .. n - 1 -> Nat]
    /\ \A i \in 1 .. n - 1 : g[i] = f[i + 1]

Extended(n, f, g, m) ==
    /\ n \in Nat /\ m \in Nat
    /\ f \in [1 .. n -> Nat] /\ g \in [1 .. n + 1 -> Nat]
    /\ \A i \in 1 .. n : g[i] = f[i]
    /\ g[n + 1] = m

Dropped(n, f, g, p) ==
    /\ n \in Nat /\ p \in 1 .. n
    /\ f \in [1 .. n -> Nat] /\ g \in [1 .. n - 1 -> Nat]
    /\ f[p] = 0
    /\ \A i \in 1 .. n - 1 : g[i] = IF i < p THEN f[i] ELSE f[i + 1]

(* Reading the first record: a plain one leaves the rest as it was, and a  *)
(* numbered one is the next number.                                        *)
LEMMA GaplessTail ==
    ASSUME NEW n, NEW f, NEW g, Shifted(n, f, g),
           NEW base \in Nat, Gapless(n, f, base)
    PROVE  /\ f[1] = 0 => Gapless(n - 1, g, base)
           /\ f[1] # 0 => f[1] = base + 1 /\ Gapless(n - 1, g, base + 1)
  <1> USE DEF Shifted
  <1>0. 1 \in 1 .. n /\ f[1] \in Nat
    OBVIOUS
  <1>1. \A i \in 1 .. n - 1 : i + 1 \in 1 .. n /\ g[i] = f[i + 1]
    OBVIOUS
  <1>2. \A j \in 1 .. n : j # 1 => j - 1 \in 1 .. n - 1 /\ g[j - 1] = f[j]
    OBVIOUS
  <1>3. \A i, j \in 1 .. n - 1 : i < j /\ g[i] # 0 /\ g[j] # 0 => g[i] < g[j]
    BY <1>1 DEF Gapless
  <1>4. ASSUME f[1] = 0
        PROVE  Gapless(n - 1, g, base)
    <2>1. \A i \in 1 .. n - 1 : g[i] # 0 => base < g[i]
      BY <1>1 DEF Gapless
    <2>2. \A i \in 1 .. n - 1, k \in Nat : base < k /\ k < g[i] => \E j \in 1 .. n - 1 : g[j] = k
      <3> SUFFICES ASSUME NEW i \in 1 .. n - 1, NEW k \in Nat, base < k, k < g[i]
                   PROVE  \E j \in 1 .. n - 1 : g[j] = k
        OBVIOUS
      <3>1. PICK j \in 1 .. n : f[j] = k
        BY <1>1 DEF Gapless
      <3>2. j # 1
        BY <3>1, <1>4
      <3> QED BY <3>1, <3>2, <1>2
    <2> QED BY <1>3, <2>1, <2>2 DEF Gapless
  <1>5. ASSUME f[1] # 0
        PROVE  f[1] = base + 1 /\ Gapless(n - 1, g, base + 1)
    <2>0. base < f[1]
      BY <1>0, <1>5 DEF Gapless
    <2>1. f[1] = base + 1
      <3> SUFFICES ASSUME base + 1 < f[1] PROVE FALSE
        BY <1>0, <2>0
      <3>1. PICK j \in 1 .. n : f[j] = base + 1
        BY <1>0 DEF Gapless
      <3>2. j # 1 /\ f[j] # 0
        BY <3>1, <1>0
      <3>3. f[1] < f[j]
        BY <3>2, <1>0, <1>5 DEF Gapless
      <3> QED BY <3>1, <3>3, <1>0
    <2>2. \A i \in 1 .. n - 1 : g[i] # 0 => base + 1 < g[i]
      BY <1>0, <1>1, <1>5, <2>1 DEF Gapless
    <2>3. \A i \in 1 .. n - 1, k \in Nat :
             base + 1 < k /\ k < g[i] => \E j \in 1 .. n - 1 : g[j] = k
      <3> SUFFICES ASSUME NEW i \in 1 .. n - 1, NEW k \in Nat, base + 1 < k, k < g[i]
                   PROVE  \E j \in 1 .. n - 1 : g[j] = k
        OBVIOUS
      <3>1. PICK j \in 1 .. n : f[j] = k
        BY <1>1 DEF Gapless
      <3>2. j # 1
        BY <3>1, <2>1
      <3> QED BY <3>1, <3>2, <1>2
    <2> QED BY <1>3, <2>1, <2>2, <2>3 DEF Gapless
  <1> QED BY <1>4, <1>5

(* Appending nothing, or the number after all that are not yet read. *)
LEMMA GaplessAppend ==
    ASSUME NEW n, NEW f, NEW g, NEW m, Extended(n, f, g, m), NEW base \in Nat,
           m # 0 => /\ base < m
                    /\ \A i \in 1 .. n : f[i] < m
                    /\ \A k \in Nat : base < k /\ k < m => \E j \in 1 .. n : f[j] = k,
           Gapless(n, f, base)
    PROVE  Gapless(n + 1, g, base)
  <1> USE DEF Extended
  <1>1. \A i \in 1 .. n + 1 : i \in 1 .. n \/ i = n + 1
    OBVIOUS
  <1>2. \A i, j \in 1 .. n + 1 : i < j /\ g[i] # 0 /\ g[j] # 0 => g[i] < g[j]
    BY <1>1 DEF Gapless
  <1>3. \A i \in 1 .. n + 1 : g[i] # 0 => base < g[i]
    BY <1>1 DEF Gapless
  <1>4. \A i \in 1 .. n + 1, k \in Nat : base < k /\ k < g[i] => \E j \in 1 .. n + 1 : g[j] = k
    <2> SUFFICES ASSUME NEW i \in 1 .. n + 1, NEW k \in Nat, base < k, k < g[i]
                 PROVE  \E j \in 1 .. n + 1 : g[j] = k
      OBVIOUS
    <2>1. CASE i \in 1 .. n
      <3>1. \E j \in 1 .. n : f[j] = k
        BY <2>1 DEF Gapless
      <3> QED BY <3>1
    <2>2. CASE i = n + 1
      <3>1. m # 0 /\ k < m
        BY <2>2
      <3>2. \E j \in 1 .. n : f[j] = k
        BY <3>1
      <3> QED BY <3>2
    <2> QED BY <1>1, <2>1, <2>2
  <1> QED BY <1>2, <1>3, <1>4 DEF Gapless

(* Dropping a plain record. *)
LEMMA GaplessDrop ==
    ASSUME NEW n, NEW f, NEW g, NEW p, Dropped(n, f, g, p)
    PROVE  /\ \A base \in Nat : Gapless(n, f, base) => Gapless(n - 1, g, base)
           /\ \A k \in Nat \ {0} : (\E i \in 1 .. n : f[i] = k) => \E i \in 1 .. n - 1 : g[i] = k
  <1> USE DEF Dropped
  <1> DEFINE at(i) == IF i < p THEN i ELSE i + 1
  <1>1. \A i \in 1 .. n - 1 : at(i) \in 1 .. n /\ g[i] = f[at(i)]
    OBVIOUS
  <1>2. \A i, j \in 1 .. n - 1 : i < j => at(i) < at(j)
    OBVIOUS
  <1>3. \A j \in 1 .. n : j # p => \E i \in 1 .. n - 1 : at(i) = j
    <2> SUFFICES ASSUME NEW j \in 1 .. n, j # p PROVE \E i \in 1 .. n - 1 : at(i) = j
      OBVIOUS
    <2>1. CASE j < p
      <3>1. j \in 1 .. n - 1 /\ at(j) = j
        BY <2>1
      <3> QED BY <3>1
    <2>2. CASE p < j
      <3>1. j - 1 \in 1 .. n - 1 /\ at(j - 1) = j
        BY <2>2
      <3> QED BY <3>1
    <2> QED BY <2>1, <2>2
  <1> HIDE DEF at
  <1>4. ASSUME NEW k \in Nat, k # 0, NEW j \in 1 .. n, f[j] = k
        PROVE  \E i \in 1 .. n - 1 : g[i] = k
    <2>1. PICK i \in 1 .. n - 1 : at(i) = j
      BY <1>3, <1>4
    <2> QED BY <2>1, <1>1, <1>4
  <1>5. ASSUME NEW base \in Nat, Gapless(n, f, base)
        PROVE  Gapless(n - 1, g, base)
    <2>1. \A i, j \in 1 .. n - 1 : i < j /\ g[i] # 0 /\ g[j] # 0 => g[i] < g[j]
      BY <1>1, <1>2, <1>5 DEF Gapless
    <2>2. \A i \in 1 .. n - 1 : g[i] # 0 => base < g[i]
      BY <1>1, <1>5 DEF Gapless
    <2>3. \A i \in 1 .. n - 1, k \in Nat : base < k /\ k < g[i] => \E j \in 1 .. n - 1 : g[j] = k
      <3> SUFFICES ASSUME NEW i \in 1 .. n - 1, NEW k \in Nat, base < k, k < g[i]
                   PROVE  \E j \in 1 .. n - 1 : g[j] = k
        OBVIOUS
      <3>1. k # 0 /\ \E j \in 1 .. n : f[j] = k
        BY <1>1, <1>5 DEF Gapless
      <3> QED BY <3>1, <1>4
    <2> QED BY <2>1, <2>2, <2>3 DEF Gapless
  <1> QED BY <1>4, <1>5

-----------------------------------------------------------------------------
(* The queue *)

(* Min picks an element of a set of positions. *)
LEMMA MinOfNat ==
    ASSUME NEW S, S \subseteq Nat, S # {}
    PROVE  Min(S) \in S
  <1>1. PICK x \in S : \A y \in S : x <= y
    BY LeastNat
  <1> QED BY <1>1 DEF Min

(* What the records of a queue carry are counters. *)
LEMMA QueueViews ==
    ASSUME NEW q \in Seq(Record)
    PROVE  /\ Len(q) \in Nat /\ Counter \subseteq Nat
           /\ \A i \in 1 .. Len(q) : q[i] \in Record
           /\ Numbers(q) \in [1 .. Len(q) -> Counter]
           /\ Terminals(q) \in [1 .. Len(q) -> Counter]
           /\ Numbers(q) \in [1 .. Len(q) -> Nat]
           /\ Terminals(q) \in [1 .. Len(q) -> Nat]
  <1>1. Len(q) \in Nat /\ \A i \in 1 .. Len(q) : q[i] \in Record
    BY ElementOfSeq, LenProperties
  <1>2. \A i \in 1 .. Len(q) : q[i].outbound \in Counter /\ q[i].terminal \in Counter
    BY <1>1 DEF Record
  <1>3. Counter \subseteq Nat
    BY LedgerAssumption DEF Counter
  <1> QED BY <1>1, <1>2, <1>3 DEF Numbers, Terminals

(* What it means to remove one element. *)
LEMMA RemoveAtFacts ==
    ASSUME NEW T, NEW q \in Seq(T), NEW p \in 1 .. Len(q)
    PROVE  /\ RemoveAt(q, p) \in Seq(T)
           /\ Len(RemoveAt(q, p)) = Len(q) - 1
           /\ \A i \in 1 .. Len(q) - 1 : RemoveAt(q, p)[i] = IF i < p THEN q[i] ELSE q[i + 1]
  <1> DEFINE a == SubSeq(q, 1, p - 1)
             b == SubSeq(q, p + 1, Len(q))
  <1>0. Len(q) \in Nat /\ p \in Nat /\ p - 1 \in Nat
    BY LenProperties
  <1>1. a \in Seq(T) /\ Len(a) = p - 1 /\ \A i \in 1 .. p - 1 : a[i] = q[i]
    BY <1>0, SubSeqProperties
  <1>2. b \in Seq(T) /\ Len(b) = Len(q) - p /\ \A i \in 1 .. Len(q) - p : b[i] = q[p + i]
    BY <1>0, SubSeqProperties
  <1> HIDE DEF a, b
  <1>3. /\ a \o b \in Seq(T) /\ Len(a \o b) = Len(a) + Len(b)
        /\ \A i \in 1 .. Len(a) + Len(b) : (a \o b)[i] = IF i <= Len(a) THEN a[i] ELSE b[i - Len(a)]
    BY <1>1, <1>2, ConcatProperties
  <1>4. RemoveAt(q, p) = a \o b
    BY DEF RemoveAt, a, b
  <1>5. ASSUME NEW i \in 1 .. Len(q) - 1
        PROVE  (a \o b)[i] = IF i < p THEN q[i] ELSE q[i + 1]
    <2>1. CASE i < p
      BY <1>0, <1>1, <1>2, <1>3, <2>1
    <2>2. CASE ~ (i < p)
      <3>1. (a \o b)[i] = b[i - (p - 1)] /\ i - (p - 1) \in 1 .. Len(q) - p
        BY <1>0, <1>1, <1>2, <1>3, <2>2
      <3>2. p + (i - (p - 1)) = i + 1
        BY <1>0
      <3>3. b[i - (p - 1)] = q[p + (i - (p - 1))]
        BY <1>2, <3>1
      <3> QED BY <2>2, <3>1, <3>2, <3>3
    <2> QED BY <2>1, <2>2
  <1>6. Len(a \o b) = Len(q) - 1
    BY <1>0, <1>1, <1>2, <1>3
  <1> QED BY <1>3, <1>4, <1>5, <1>6

(* Making room drops at most one passive record: the numbers and terminals *)
(* in the queue stay, in their order.                                      *)
LEMMA EvictedFacts ==
    ASSUME NEW q \in Seq(Record), \A i \in 1 .. Len(q) : q[i].outbound = 0 => q[i].terminal = 0
    PROVE  /\ Evicted(q) \in Seq(Record)
           /\ \A i \in 1 .. Len(Evicted(q)) : \E j \in 1 .. Len(q) : Evicted(q)[i] = q[j]
           /\ \A base \in Nat :
                 /\ Gapless(Len(q), Numbers(q), base)
                       => Gapless(Len(Evicted(q)), Numbers(Evicted(q)), base)
                 /\ Gapless(Len(q), Terminals(q), base)
                       => Gapless(Len(Evicted(q)), Terminals(Evicted(q)), base)
           /\ \A k \in Nat \ {0} : /\ Carries(q, k) => Carries(Evicted(q), k)
                                   /\ CarriesTerminal(q, k) => CarriesTerminal(Evicted(q), k)
  <1> DEFINE passive == {k \in 1 .. Len(q) : ~ Authoritative(q[k])}
             p == Min(passive)
             e == RemoveAt(q, p)
  <1>1. CASE Len(q) < QueueLimit \/ passive = {}
    <2>1. Evicted(q) = q
      BY <1>1 DEF Evicted
    <2> QED BY <2>1
  <1>2. CASE ~ (Len(q) < QueueLimit \/ passive = {})
    <2>1. Evicted(q) = e
      BY <1>2 DEF Evicted
    <2>2. p \in passive
      <3>1. passive \subseteq Nat
        OBVIOUS
      <3> QED BY <1>2, <3>1, MinOfNat
    <2>3. p \in 1 .. Len(q) /\ q[p].outbound = 0 /\ q[p].terminal = 0
      BY <2>2 DEF Authoritative
    <2> HIDE DEF passive, p
    <2>4. /\ e \in Seq(Record) /\ Len(e) = Len(q) - 1
          /\ \A i \in 1 .. Len(q) - 1 : e[i] = IF i < p THEN q[i] ELSE q[i + 1]
      BY <2>3, RemoveAtFacts
    <2> HIDE DEF e
    <2>5. /\ Len(q) \in Nat
          /\ Numbers(q) \in [1 .. Len(q) -> Nat] /\ Terminals(q) \in [1 .. Len(q) -> Nat]
          /\ Numbers(e) \in [1 .. Len(q) - 1 -> Nat] /\ Terminals(e) \in [1 .. Len(q) - 1 -> Nat]
      BY <2>4, QueueViews
    <2>6. \A i \in 1 .. Len(q) - 1 : i \in 1 .. Len(q) /\ i + 1 \in 1 .. Len(q) /\ i \in 1 .. Len(e)
      BY <2>4, <2>5
    <2>7. /\ Numbers(q)[p] = 0
          /\ \A i \in 1 .. Len(q) - 1 :
                Numbers(e)[i] = IF i < p THEN Numbers(q)[i] ELSE Numbers(q)[i + 1]
      BY <2>3, <2>4, <2>6 DEF Numbers
    <2>8. /\ Terminals(q)[p] = 0
          /\ \A i \in 1 .. Len(q) - 1 :
                Terminals(e)[i] = IF i < p THEN Terminals(q)[i] ELSE Terminals(q)[i + 1]
      BY <2>3, <2>4, <2>6 DEF Terminals
    <2>9. /\ \A base \in Nat :
                /\ Gapless(Len(q), Numbers(q), base) => Gapless(Len(e), Numbers(e), base)
                /\ Gapless(Len(q), Terminals(q), base) => Gapless(Len(e), Terminals(e), base)
          /\ \A k \in Nat \ {0} : /\ Carries(q, k) => Carries(e, k)
                                  /\ CarriesTerminal(q, k) => CarriesTerminal(e, k)
      <3>1. Dropped(Len(q), Numbers(q), Numbers(e), p)
        BY <2>3, <2>5, <2>7 DEF Dropped
      <3>2. Dropped(Len(q), Terminals(q), Terminals(e), p)
        BY <2>3, <2>5, <2>8 DEF Dropped
      <3>3. /\ \A base \in Nat :
                  Gapless(Len(q), Numbers(q), base) => Gapless(Len(q) - 1, Numbers(e), base)
            /\ \A k \in Nat \ {0} : (\E i \in 1 .. Len(q) : Numbers(q)[i] = k)
                                   => \E i \in 1 .. Len(q) - 1 : Numbers(e)[i] = k
        BY <3>1, GaplessDrop
      <3>4. /\ \A base \in Nat :
                  Gapless(Len(q), Terminals(q), base) => Gapless(Len(q) - 1, Terminals(e), base)
            /\ \A k \in Nat \ {0} : (\E i \in 1 .. Len(q) : Terminals(q)[i] = k)
                                   => \E i \in 1 .. Len(q) - 1 : Terminals(e)[i] = k
        BY <3>2, GaplessDrop
      <3> QED BY <3>3, <3>4, <2>4, Zenon DEF Carries, CarriesTerminal
    <2>10. \A i \in 1 .. Len(e) : \E j \in 1 .. Len(q) : e[i] = q[j]
      <3> SUFFICES ASSUME NEW i \in 1 .. Len(e) PROVE \E j \in 1 .. Len(q) : e[i] = q[j]
        OBVIOUS
      <3>1. i \in 1 .. Len(q) /\ i + 1 \in 1 .. Len(q)
        BY <2>4, <2>5
      <3> QED BY <3>1, <2>4
    <2> QED BY <2>1, <2>4, <2>9, <2>10
  <1> QED BY <1>1, <1>2

(* A record at the end of the queue. *)
LEMMA AppendFacts ==
    ASSUME NEW q \in Seq(Record), NEW r \in Record
    PROVE  /\ Append(q, r) \in Seq(Record) /\ Len(Append(q, r)) = Len(q) + 1
           /\ \A i \in 1 .. Len(q) : Append(q, r)[i] = q[i]
           /\ Append(q, r)[Len(q) + 1] = r
           /\ Extended(Len(q), Numbers(q), Numbers(Append(q, r)), r.outbound)
           /\ Extended(Len(q), Terminals(q), Terminals(Append(q, r)), r.terminal)
           /\ Carries(Append(q, r), r.outbound) /\ CarriesTerminal(Append(q, r), r.terminal)
           /\ \A k : /\ Carries(q, k) => Carries(Append(q, r), k)
                     /\ CarriesTerminal(q, k) => CarriesTerminal(Append(q, r), k)
  <1> DEFINE a == Append(q, r)
             n == Len(q)
  <1>1. /\ a \in Seq(Record) /\ Len(a) = n + 1 /\ n \in Nat
        /\ \A i \in 1 .. n : a[i] = q[i]
        /\ a[n + 1] = r
    BY AppendProperties, LenProperties
  <1> HIDE DEF a
  <1>2. /\ Numbers(q) \in [1 .. n -> Nat] /\ Terminals(q) \in [1 .. n -> Nat]
        /\ Numbers(a) \in [1 .. n + 1 -> Nat] /\ Terminals(a) \in [1 .. n + 1 -> Nat]
        /\ r.outbound \in Nat /\ r.terminal \in Nat
    BY <1>1, QueueViews DEF Record
  <1>3. n + 1 \in 1 .. n + 1 /\ \A i \in 1 .. n : i \in 1 .. n + 1
    BY <1>1
  <1>4. /\ \A i \in 1 .. n : Numbers(a)[i] = Numbers(q)[i] /\ Terminals(a)[i] = Terminals(q)[i]
        /\ Numbers(a)[n + 1] = r.outbound /\ Terminals(a)[n + 1] = r.terminal
    BY <1>1, <1>3 DEF Numbers, Terminals
  <1>5. /\ Extended(n, Numbers(q), Numbers(a), r.outbound)
        /\ Extended(n, Terminals(q), Terminals(a), r.terminal)
    BY <1>1, <1>2, <1>4 DEF Extended
  <1>6. /\ Carries(a, r.outbound) /\ CarriesTerminal(a, r.terminal)
        /\ \A k : /\ Carries(q, k) => Carries(a, k)
                  /\ CarriesTerminal(q, k) => CarriesTerminal(a, k)
    BY <1>1, <1>3, <1>4 DEF Carries, CarriesTerminal
  <1> QED BY <1>1, <1>5, <1>6 DEF a

(* The queue without its first record. *)
LEMMA TailFacts ==
    ASSUME NEW q \in Seq(Record), q # <<>>
    PROVE  /\ Tail(q) \in Seq(Record) /\ Len(q) \in Nat \ {0} /\ Len(Tail(q)) = Len(q) - 1
           /\ \A i \in 1 .. Len(q) - 1 : i + 1 \in 1 .. Len(q) /\ Tail(q)[i] = q[i + 1]
           /\ 1 \in 1 .. Len(q) /\ Head(q) = q[1] /\ Head(q) \in Record
           /\ Numbers(q)[1] = Head(q).outbound /\ Terminals(q)[1] = Head(q).terminal
           /\ Shifted(Len(q), Numbers(q), Numbers(Tail(q)))
           /\ Shifted(Len(q), Terminals(q), Terminals(Tail(q)))
           /\ \A k : /\ k # Head(q).outbound /\ Carries(q, k) => Carries(Tail(q), k)
                     /\ k # Head(q).terminal /\ CarriesTerminal(q, k) => CarriesTerminal(Tail(q), k)
  <1> DEFINE a == Tail(q)
             n == Len(q)
  <1>1. /\ a \in Seq(Record) /\ n \in Nat \ {0} /\ Len(a) = n - 1
        /\ \A i \in 1 .. n - 1 : a[i] = q[i + 1]
        /\ Head(q) = q[1] /\ Head(q) \in Record
    BY HeadTailProperties, LenProperties, EmptySeq
  <1> HIDE DEF a
  <1>2. 1 \in 1 .. n /\ \A i \in 1 .. n - 1 : i + 1 \in 1 .. n
    BY <1>1
  <1>3. /\ Numbers(q) \in [1 .. n -> Nat] /\ Terminals(q) \in [1 .. n -> Nat]
        /\ Numbers(a) \in [1 .. n - 1 -> Nat] /\ Terminals(a) \in [1 .. n - 1 -> Nat]
    BY <1>1, QueueViews
  <1>4. /\ \A i \in 1 .. n - 1 : Numbers(a)[i] = Numbers(q)[i + 1] /\ Terminals(a)[i] = Terminals(q)[i + 1]
        /\ Numbers(q)[1] = Head(q).outbound /\ Terminals(q)[1] = Head(q).terminal
    BY <1>1, <1>2 DEF Numbers, Terminals
  <1>5. Shifted(n, Numbers(q), Numbers(a)) /\ Shifted(n, Terminals(q), Terminals(a))
    BY <1>1, <1>3, <1>4 DEF Shifted
  <1>6. \A j \in 1 .. n : j # 1 => j - 1 \in 1 .. n - 1 /\ (j - 1) + 1 = j
    BY <1>1
  <1>7. \A k : /\ k # Head(q).outbound /\ Carries(q, k) => Carries(a, k)
               /\ k # Head(q).terminal /\ CarriesTerminal(q, k) => CarriesTerminal(a, k)
    <2>1. \A j \in 1 .. n : j # 1 => /\ Numbers(a)[j - 1] = Numbers(q)[j]
                                     /\ Terminals(a)[j - 1] = Terminals(q)[j]
      BY <1>4, <1>6
    <2>2. ASSUME NEW k, k # Head(q).outbound, Carries(q, k)
          PROVE  Carries(a, k)
      BY <1>1, <1>4, <1>6, <2>1, <2>2 DEF Carries
    <2>3. ASSUME NEW k, k # Head(q).terminal, CarriesTerminal(q, k)
          PROVE  CarriesTerminal(a, k)
      BY <1>1, <1>4, <1>6, <2>1, <2>3 DEF CarriesTerminal
    <2> QED BY <2>2, <2>3
  <1> QED BY <1>1, <1>2, <1>4, <1>5, <1>7 DEF a

-----------------------------------------------------------------------------
(* The steps *)

(* The parts of the invariant about the queue and the reader. *)
FlowParts == QueueSent /\ ReaderSeen /\ NumbersFlow /\ TerminalsFlow /\ NoSpuriousProtocolFailure

(* A step of the actor that gives nothing to the publisher leaves what was *)
(* sent, and so all that is said of the queue and the reader, as it was.   *)
LEMMA NothingSent ==
    ASSUME FlowParts, UNCHANGED <<queue, stopped, lastOutbound, protocolFailed, accepted, lost>>,
           SentNumbers' = SentNumbers, SentTerminals' = SentTerminals
    PROVE  FlowParts'
  <1>1. QueueSent' /\ ReaderSeen'
    BY DEF FlowParts, QueueSent, ReaderSeen
  <1>2. NumbersFlow' /\ TerminalsFlow' /\ NoSpuriousProtocolFailure'
    BY DEF FlowParts, NumbersFlow, TerminalsFlow, NoSpuriousProtocolFailure, Carries, CarriesTerminal
  <1> QED BY <1>1, <1>2 DEF FlowParts

(* Publishing a record that comes after everything that was sent before. *)
LEMMA RecordSent ==
    ASSUME StreamTypeOK, FlowParts, NEW r \in Record, PublishRaw(r),
           UNCHANGED <<lastOutbound, protocolFailed, accepted, lost>>,
           r.outbound = 0 => r.terminal = 0,
           SentNumbers' = SentNumbers \cup ({r.outbound} \ {0}),
           SentTerminals' = SentTerminals \cup ({r.terminal} \ {0}),
           r.outbound # 0 => SentNumbers = 1 .. r.outbound - 1,
           r.terminal # 0 => SentTerminals = 1 .. r.terminal - 1
    PROVE  FlowParts' /\ queue' \in Seq(Record) /\ stopped' \in BOOLEAN
  <1> DEFINE e == Evicted(queue)
  <1>1. /\ queue \in Seq(Record) /\ Counter \subseteq Nat /\ 0 \in Counter
        /\ lastOutbound \in Counter /\ Len(accepted) \in Nat
        /\ r.outbound \in Counter /\ r.terminal \in Counter
        /\ r.outbound \in Nat /\ r.terminal \in Nat /\ lastOutbound \in Nat
    <2>1. queue \in Seq(Record) /\ lastOutbound \in Counter
      BY DEF StreamTypeOK
    <2>2. Len(accepted) \in Nat
      BY LenProperties DEF StreamTypeOK
    <2>3. Counter \subseteq Nat /\ 0 \in Counter
      BY LedgerAssumption DEF Counter
    <2>4. r.outbound \in Counter /\ r.terminal \in Counter
      BY DEF Record
    <2>5. r.outbound \in Nat /\ r.terminal \in Nat /\ lastOutbound \in Nat
      BY <2>1, <2>3, <2>4
    <2> QED BY <2>1, <2>2, <2>3, <2>4, <2>5
  <1>2. /\ e \in Seq(Record)
        /\ \A i \in 1 .. Len(e) : \E j \in 1 .. Len(queue) : e[i] = queue[j]
        /\ \A base \in Nat :
              /\ Gapless(Len(queue), Numbers(queue), base) => Gapless(Len(e), Numbers(e), base)
              /\ Gapless(Len(queue), Terminals(queue), base) => Gapless(Len(e), Terminals(e), base)
        /\ \A k \in Nat \ {0} : /\ Carries(queue, k) => Carries(e, k)
                                /\ CarriesTerminal(queue, k) => CarriesTerminal(e, k)
    <2>1. \A i \in 1 .. Len(queue) : queue[i].outbound = 0 => queue[i].terminal = 0
      BY DEF FlowParts, QueueSent
    <2> QED BY <1>1, <2>1, EvictedFacts
  <1>g. \A base \in Nat :
           /\ Gapless(Len(queue), Numbers(queue), base) => Gapless(Len(e), Numbers(e), base)
           /\ Gapless(Len(queue), Terminals(queue), base) => Gapless(Len(e), Terminals(e), base)
    BY <1>2
  <1>c. \A k \in Nat \ {0} : /\ Carries(queue, k) => Carries(e, k)
                             /\ CarriesTerminal(queue, k) => CarriesTerminal(e, k)
    BY <1>2
  <1>3. \/ queue' = queue /\ stopped' /\ stopped
        \/ queue' = Append(e, r) /\ ~ stopped /\ ~ stopped'
        \/ queue' = e /\ ~ stopped /\ stopped' = Authoritative(r)
    BY DEF PublishRaw, publisherVars
  <1>q. queue' \in {queue, Append(e, r), e}
    BY <1>3
  <1> HIDE DEF e
  <1>4. /\ Append(e, r) \in Seq(Record) /\ Len(Append(e, r)) = Len(e) + 1 /\ Len(e) \in Nat
        /\ \A i \in 1 .. Len(e) : Append(e, r)[i] = e[i]
        /\ Append(e, r)[Len(e) + 1] = r
        /\ Extended(Len(e), Numbers(e), Numbers(Append(e, r)), r.outbound)
        /\ Extended(Len(e), Terminals(e), Terminals(Append(e, r)), r.terminal)
        /\ Carries(Append(e, r), r.outbound) /\ CarriesTerminal(Append(e, r), r.terminal)
        /\ \A k : /\ Carries(e, k) => Carries(Append(e, r), k)
                  /\ CarriesTerminal(e, k) => CarriesTerminal(Append(e, r), k)
    BY <1>2, AppendFacts, LenProperties
  <1>a. \A k : /\ Carries(e, k) \/ k = r.outbound => Carries(Append(e, r), k)
               /\ CarriesTerminal(e, k) \/ k = r.terminal => CarriesTerminal(Append(e, r), k)
    BY <1>4
  <1>5. queue' \in Seq(Record) /\ stopped' \in BOOLEAN
    <2>1. queue' \in Seq(Record)
      BY <1>1, <1>2, <1>q, <1>4
    <2>2. stopped' \in BOOLEAN
      <3>1. stopped' = stopped \/ stopped' = (r.outbound # 0)
        BY DEF PublishRaw, publisherVars, Authoritative
      <3>2. stopped \in BOOLEAN
        BY DEF StreamTypeOK
      <3> QED BY <3>1, <3>2, Zenon
    <2> QED BY <2>1, <2>2
  <1>6. QueueSent'
    <2>1. \A i \in 1 .. Len(queue') : queue'[i] = r \/ \E j \in 1 .. Len(queue) : queue'[i] = queue[j]
      <3>1. CASE queue' = queue
        BY <3>1
      <3>2. CASE queue' = e
        BY <3>2, <1>2
      <3>3. CASE queue' = Append(e, r)
        <4>1. \A i \in 1 .. Len(queue') : i = Len(e) + 1 \/ i \in 1 .. Len(e)
          BY <3>3, <1>4
        <4> QED BY <3>3, <4>1, <1>2, <1>4
      <3> QED BY <3>1, <3>2, <3>3, <1>q
    <2> QED BY <2>1 DEF QueueSent, FlowParts
  <1>7. ReaderSeen'
    BY DEF ReaderSeen, FlowParts
  <1>8. NumbersFlow'
    <2> SUFFICES ASSUME lost = 0, ~ protocolFailed
                 PROVE  /\ Gapless(Len(queue'), Numbers(queue'), lastOutbound)
                        /\ ~ stopped' => \A k \in Counter :
                              k \in SentNumbers' /\ lastOutbound < k => Carries(queue', k)
      BY DEF NumbersFlow
    <2>1. /\ Gapless(Len(queue), Numbers(queue), lastOutbound)
          /\ ~ stopped => \A k \in Counter : k \in SentNumbers /\ lastOutbound < k => Carries(queue, k)
      BY DEF FlowParts, NumbersFlow
    <2>2. CASE stopped
      BY <1>3, <2>1, <2>2
    <2>3. CASE ~ stopped /\ queue' = e /\ stopped' = Authoritative(r)
      <3>1. Gapless(Len(e), Numbers(e), lastOutbound)
        BY <1>1, <1>g, <2>1
      <3>2. ASSUME ~ stopped', NEW k \in Counter, k \in SentNumbers', lastOutbound < k
            PROVE  Carries(e, k)
        <4>1. r.outbound = 0
          BY <2>3, <3>2 DEF Authoritative
        <4>2. k \in SentNumbers /\ k \in Nat \ {0}
          BY <1>1, <3>2, <4>1
        <4> QED BY <1>c, <2>1, <2>3, <3>2, <4>2
      <3> QED BY <2>3, <3>1, <3>2
    <2>4. CASE ~ stopped /\ queue' = Append(e, r)
      <3>1. r.outbound # 0 =>
              /\ lastOutbound < r.outbound
              /\ \A i \in 1 .. Len(e) : Numbers(e)[i] < r.outbound
              /\ \A k \in Nat : lastOutbound < k /\ k < r.outbound =>
                    \E j \in 1 .. Len(e) : Numbers(e)[j] = k
        <4> SUFFICES ASSUME r.outbound # 0
                     PROVE  /\ lastOutbound < r.outbound
                            /\ \A i \in 1 .. Len(e) : Numbers(e)[i] < r.outbound
                            /\ \A k \in Nat : lastOutbound < k /\ k < r.outbound => Carries(e, k)
          BY DEF Carries
        <4>1. lastOutbound < r.outbound
          <5>1. lastOutbound = 0 \/ lastOutbound \in 1 .. r.outbound - 1
            BY DEF FlowParts, ReaderSeen
          <5> QED BY <1>1, <5>1
        <4>2. \A i \in 1 .. Len(queue) : queue[i].outbound \in Nat /\ queue[i].outbound < r.outbound
          <5> SUFFICES ASSUME NEW i \in 1 .. Len(queue)
                       PROVE  queue[i].outbound \in Nat /\ queue[i].outbound < r.outbound
            OBVIOUS
          <5>1. queue[i].outbound = 0 \/ queue[i].outbound \in 1 .. r.outbound - 1
            BY DEF FlowParts, QueueSent
          <5> QED BY <1>1, <5>1
        <4>3. \A i \in 1 .. Len(e) : Numbers(e)[i] < r.outbound
          BY <1>2, <4>2 DEF Numbers
        <4>4. ASSUME NEW k \in Nat, lastOutbound < k, k < r.outbound
              PROVE  Carries(e, k)
          <5>1. k \in Counter /\ k \in Nat \ {0}
            BY <1>1, <4>4, LedgerAssumption DEF Counter
          <5>2. k \in SentNumbers
            BY <1>1, <4>4, <5>1
          <5>3. Carries(queue, k)
            BY <2>1, <2>4, <4>4, <5>1, <5>2
          <5> QED BY <1>c, <5>1, <5>3
        <4> QED BY <4>1, <4>3, <4>4
      <3>2. Gapless(Len(e), Numbers(e), lastOutbound)
        BY <1>1, <1>g, <2>1
      <3>3. Gapless(Len(e) + 1, Numbers(Append(e, r)), lastOutbound)
        BY <1>1, <1>4, <3>1, <3>2, GaplessAppend
      <3>4. ASSUME NEW k \in Counter, k \in SentNumbers', lastOutbound < k
            PROVE  Carries(Append(e, r), k)
        <4>1. CASE k = r.outbound
          BY <1>a, <4>1
        <4>2. CASE k # r.outbound
          <5>1. k \in SentNumbers /\ k \in Nat \ {0}
            BY <1>1, <3>4, <4>2
          <5>2. Carries(queue, k)
            BY <2>1, <2>4, <3>4, <5>1
          <5> QED BY <1>a, <1>c, <5>1, <5>2
        <4> QED BY <4>1, <4>2
      <3> QED BY <1>4, <2>4, <3>3, <3>4
    <2> QED BY <1>3, <2>2, <2>3, <2>4
  <1>9. TerminalsFlow'
    <2> SUFFICES ASSUME ~ protocolFailed
                 PROVE  /\ Gapless(Len(queue'), Terminals(queue'), Len(accepted))
                        /\ ~ stopped' => \A k \in Counter :
                              k \in SentTerminals' /\ Len(accepted) < k => CarriesTerminal(queue', k)
      BY DEF TerminalsFlow
    <2>1. /\ Gapless(Len(queue), Terminals(queue), Len(accepted))
          /\ ~ stopped => \A k \in Counter :
                k \in SentTerminals /\ Len(accepted) < k => CarriesTerminal(queue, k)
      BY DEF FlowParts, TerminalsFlow
    <2>2. CASE stopped
      BY <1>3, <2>1, <2>2
    <2>3. CASE ~ stopped /\ queue' = e /\ stopped' = Authoritative(r)
      <3>1. Gapless(Len(e), Terminals(e), Len(accepted))
        BY <1>1, <1>g, <2>1
      <3>2. ASSUME ~ stopped', NEW k \in Counter, k \in SentTerminals', Len(accepted) < k
            PROVE  CarriesTerminal(e, k)
        <4>1. r.outbound = 0
          BY <2>3, <3>2 DEF Authoritative
        <4>2. k \in SentTerminals /\ k \in Nat \ {0}
          BY <1>1, <3>2, <4>1
        <4> QED BY <1>c, <2>1, <2>3, <3>2, <4>2
      <3> QED BY <2>3, <3>1, <3>2
    <2>4. CASE ~ stopped /\ queue' = Append(e, r)
      <3>1. r.terminal # 0 =>
              /\ Len(accepted) < r.terminal
              /\ \A i \in 1 .. Len(e) : Terminals(e)[i] < r.terminal
              /\ \A k \in Nat : Len(accepted) < k /\ k < r.terminal =>
                    \E j \in 1 .. Len(e) : Terminals(e)[j] = k
        <4> SUFFICES ASSUME r.terminal # 0
                     PROVE  /\ Len(accepted) < r.terminal
                            /\ \A i \in 1 .. Len(e) : Terminals(e)[i] < r.terminal
                            /\ \A k \in Nat : Len(accepted) < k /\ k < r.terminal => CarriesTerminal(e, k)
          BY DEF CarriesTerminal
        <4>1. Len(accepted) < r.terminal
          <5>1. CASE Len(accepted) = 0
            BY <1>1, <5>1
          <5>2. CASE Len(accepted) # 0
            <6>1. Len(accepted) \in SentTerminals
              BY <1>1, <5>2 DEF FlowParts, ReaderSeen
            <6> QED BY <1>1, <6>1
          <5> QED BY <5>1, <5>2
        <4>2. \A i \in 1 .. Len(queue) : queue[i].terminal \in Nat /\ queue[i].terminal < r.terminal
          <5> SUFFICES ASSUME NEW i \in 1 .. Len(queue)
                       PROVE  queue[i].terminal \in Nat /\ queue[i].terminal < r.terminal
            OBVIOUS
          <5>1. queue[i].terminal = 0 \/ queue[i].terminal \in 1 .. r.terminal - 1
            BY DEF FlowParts, QueueSent
          <5> QED BY <1>1, <5>1
        <4>3. \A i \in 1 .. Len(e) : Terminals(e)[i] < r.terminal
          BY <1>2, <4>2 DEF Terminals
        <4>4. ASSUME NEW k \in Nat, Len(accepted) < k, k < r.terminal
              PROVE  CarriesTerminal(e, k)
          <5>1. k \in Counter /\ k \in Nat \ {0}
            BY <1>1, <4>4, LedgerAssumption DEF Counter
          <5>2. k \in SentTerminals
            BY <1>1, <4>4, <5>1
          <5>3. CarriesTerminal(queue, k)
            BY <2>1, <2>4, <4>4, <5>1, <5>2
          <5> QED BY <1>c, <5>1, <5>3
        <4> QED BY <4>1, <4>3, <4>4
      <3>2. Gapless(Len(e), Terminals(e), Len(accepted))
        BY <1>1, <1>g, <2>1
      <3>3. Gapless(Len(e) + 1, Terminals(Append(e, r)), Len(accepted))
        BY <1>1, <1>4, <3>1, <3>2, GaplessAppend
      <3>4. ASSUME NEW k \in Counter, k \in SentTerminals', Len(accepted) < k
            PROVE  CarriesTerminal(Append(e, r), k)
        <4>1. CASE k = r.terminal
          BY <1>a, <4>1
        <4>2. CASE k # r.terminal
          <5>1. k \in SentTerminals /\ k \in Nat \ {0}
            BY <1>1, <3>4, <4>2
          <5>2. CarriesTerminal(queue, k)
            BY <2>1, <2>4, <3>4, <5>1
          <5> QED BY <1>a, <1>c, <5>1, <5>2
        <4> QED BY <4>1, <4>2
      <3> QED BY <1>4, <2>4, <3>3, <3>4
    <2> QED BY <1>3, <2>2, <2>3, <2>4
  <1>10. NoSpuriousProtocolFailure'
    BY DEF FlowParts, NoSpuriousProtocolFailure
  <1> QED BY <1>5, <1>6, <1>7, <1>8, <1>9, <1>10 DEF FlowParts

(* Which numbers are issued when the counter moves on. *)
LEMMA IssuedNext ==
    ASSUME NEW n \in Counter, n # 0, NEW k \in Counter
    PROVE  Issued(k, Increment(n)) <=> k <= n
  <1>1. CounterModulus \in Nat /\ CounterModulus > 1 /\ n \in Nat /\ k \in Nat
        /\ n < CounterModulus /\ k < CounterModulus
    BY LedgerAssumption DEF Counter
  <1>2. CASE n + 1 = CounterModulus
    <2>1. Increment(n) = 0
      BY <1>1, <1>2 DEF Increment
    <2> QED BY <1>1, <1>2, <2>1 DEF Issued
  <1>3. CASE n + 1 < CounterModulus
    <2>1. Increment(n) = n + 1
      BY <1>1, <1>3 DEF Increment
    <2> QED BY <1>1, <2>1 DEF Issued
  <1> QED BY <1>1, <1>2, <1>3

(* Every step of the stream keeps the invariant of the ledger: it is a     *)
(* method of the ledger, or leaves it alone, or takes a number for a plain *)
(* event at once.                                                          *)
LEMMA StreamLedgerStep ==
    ASSUME LedgerInv, [StreamNext]_streamVars
    PROVE  LedgerInv'
  <1>1. CASE PublishEvent
    <2>1. /\ openOutbound = 0 /\ nextOutbound # 0 /\ nextOutbound' = Increment(nextOutbound)
          /\ UNCHANGED <<entries, retainedBytes, nextTerminal, openOutbound, tombstones>>
          /\ Retained' = Retained
      BY <1>1 DEF PublishEvent, Retained
    <2>2. TypeOK' /\ \A k \in Counter : Issued(k, nextOutbound) => Issued(k, nextOutbound')
      BY <2>1, IncrementIssues DEF LedgerInv, TypeOK
    <2>3. openOutbound \in Counter /\ \A t \in Retained : entries[t].outbound \in Counter
      BY DEF LedgerInv, TypeOK, Retained, Entry
    <2>4. NumbersIssued'
      BY <2>1, <2>2, <2>3 DEF LedgerInv, NumbersIssued
    <2> QED
      BY <2>1, <2>2, <2>4 DEF LedgerInv, NumberedFromPublishing, PublishedInTerminalOrder,
         RetryOwnsReservation, IdentityNotReused
  <1>2. CASE UNCHANGED ledgerVars
    BY <1>2, LedgerStep
  <1>3. CASE \E i \in Items, b \in ByteSizes : RetainTerminal(i, b)
    BY <1>3, LedgerStep DEF RetainTerminal, Next
  <1>4. CASE \E b \in ByteSizes : FinalizeTerminal(b)
    BY <1>4, LedgerStep DEF FinalizeTerminal, CompleteTerminal, Next
  <1>5. CASE \E t \in Retained : BeginPublication(t)
    BY <1>5, LedgerStep DEF BeginPublication, Next
  <1>6. CASE SinkThrows
    BY <1>6, LedgerStep DEF SinkThrows, AbortPublication, Next
  <1>7. CASE ConfirmSent
    BY <1>7, LedgerStep DEF ConfirmSent, ConfirmPublished, Next
  <1>8. CASE \E t \in Retained : AcknowledgeCommand(t)
    BY <1>8, LedgerStep DEF AcknowledgeCommand, Next
  <1>9. CASE SinkAccepts \/ PublishPassive \/ ReadFrame
    BY <1>2, <1>9 DEF SinkAccepts, PublishPassive, ReadFrame
  <1>10. CASE UNCHANGED streamVars
    BY <1>2, <1>10 DEF streamVars, ledgerVars
  <1> QED
    BY <1>1, <1>3, <1>4, <1>5, <1>6, <1>7, <1>8, <1>9, <1>10 DEF StreamNext

(* What the invariant says of the ledger, in the form the steps use it. *)
LEMMA LedgerFacts ==
    ASSUME StreamInv
    PROVE  /\ Counter \subseteq Nat /\ 0 \in Counter
           /\ nextTerminal \in Counter /\ nextOutbound \in Counter /\ openOutbound \in Counter
           /\ sending \in Counter
           /\ \A t \in Retained : /\ t \in Counter /\ t \in Nat /\ t # 0 /\ entries[t] \in Entry
                                  /\ Issued(t, nextTerminal)
           /\ 0 \notin Retained
           /\ Len(accepted) \in Nat
           /\ nextTerminal # 0 => nextTerminal \notin Retained
  <1>1. Counter \subseteq Nat /\ 0 \in Counter
    BY LedgerAssumption DEF Counter
  <1>2. /\ nextTerminal \in Counter /\ nextOutbound \in Counter /\ openOutbound \in Counter
        /\ sending \in Counter
        /\ \A t \in Retained : /\ t \in Counter /\ t # 0 /\ entries[t] \in Entry
                               /\ Issued(t, nextTerminal)
    BY DEF StreamInv, StreamTypeOK, LedgerInv, TypeOK, Retained, NumbersIssued
  <1>3. Len(accepted) \in Nat
    BY LenProperties DEF StreamInv, StreamTypeOK
  <1>4. nextTerminal # 0 => nextTerminal \notin Retained
    BY <1>1, <1>2 DEF Issued
  <1> QED BY <1>1, <1>2, <1>3, <1>4

(* Reserving a terminal: it is retained and not yet sent. *)
LEMMA RetainTerminalKeeps ==
    ASSUME StreamInv, NEW i \in Items, NEW b \in ByteSizes, RetainTerminal(i, b)
    PROVE  StreamInv'
  <1>0. LedgerInv'
    BY StreamLedgerStep DEF StreamInv, StreamNext
  <1>1. /\ actor = "idle" /\ actor' = "retaining" /\ sending' = nextTerminal
        /\ nextTerminal # 0 /\ nextTerminal' = Increment(nextTerminal)
        /\ Retained' = Retained \cup {nextTerminal}
        /\ \A t \in Retained : t # nextTerminal => entries'[t] = entries[t]
        /\ entries'[nextTerminal].state = "PendingFinalization"
        /\ UNCHANGED <<nextOutbound, openOutbound>>
    BY DEF RetainTerminal, ReserveTerminal, Retained
  <1>2. UNCHANGED <<queue, stopped, lastOutbound, protocolFailed, accepted, lost, throws>>
    BY DEF RetainTerminal, publisherVars, readerVars, faultVars
  <1>3. SentNumbers' = SentNumbers
    BY <1>1 DEF SentNumbers
  <1>4. \A t \in Counter : t # nextTerminal => (Issued(t, nextTerminal') <=> Issued(t, nextTerminal))
    <2>1. \A t \in Counter : Issued(t, nextTerminal') <=> t <= nextTerminal
      BY <1>1, LedgerFacts, IssuedNext
    <2> QED BY <1>1, <2>1, LedgerFacts DEF Issued
  <1>5. SentTerminals' = SentTerminals
    <2>1. nextTerminal \notin SentTerminals /\ nextTerminal \notin SentTerminals'
      BY <1>1, LedgerFacts DEF SentTerminals, Issued
    <2>2. ASSUME NEW t \in Counter \ {0}, t # nextTerminal
          PROVE  t \in SentTerminals <=> t \in SentTerminals'
      BY <1>1, <1>4, <2>2 DEF SentTerminals
    <2> QED BY <2>1, <2>2 DEF SentTerminals
  <1>6. FlowParts'
    BY <1>2, <1>3, <1>5, NothingSent DEF StreamInv, FlowParts
  <1>7. InHand'
    BY <1>1, LedgerFacts DEF StreamInv, InHand
  <1>8. ForgottenAccepted'
    BY <1>1, <1>2, <1>4 DEF StreamInv, ForgottenAccepted
  <1>9. StreamTypeOK'
    BY <1>0, <1>1, <1>2, LedgerFacts DEF StreamInv, StreamTypeOK, LedgerInv
  <1> QED BY <1>0, <1>2, <1>6, <1>7, <1>8, <1>9 DEF StreamInv, FlowParts

(* Completing the terminal in hand: it is ready and not yet sent. *)
LEMMA FinalizeTerminalKeeps ==
    ASSUME StreamInv, NEW b \in ByteSizes, FinalizeTerminal(b)
    PROVE  StreamInv'
  <1>0. LedgerInv'
    BY StreamLedgerStep DEF StreamInv, StreamNext
  <1>1. /\ actor = "retaining" /\ actor' = "idle" /\ sending' = 0 /\ sending \in Retained
        /\ Retained' = Retained
        /\ \A t \in Retained : t # sending => entries'[t] = entries[t]
        /\ entries[sending].state = "PendingFinalization" /\ entries'[sending].state = "Ready"
        /\ UNCHANGED <<nextTerminal, nextOutbound, openOutbound>>
    BY LedgerFacts DEF FinalizeTerminal, CompleteTerminal, Retained, Entry
  <1>2. UNCHANGED <<queue, stopped, lastOutbound, protocolFailed, accepted, lost, throws>>
    BY DEF FinalizeTerminal, publisherVars, readerVars, faultVars
  <1>3. SentNumbers' = SentNumbers
    BY <1>1 DEF SentNumbers
  <1>4. SentTerminals' = SentTerminals
    BY <1>1 DEF SentTerminals
  <1>5. FlowParts'
    BY <1>2, <1>3, <1>4, NothingSent DEF StreamInv, FlowParts
  <1>6. InHand'
    BY <1>1, LedgerFacts DEF StreamInv, InHand
  <1>7. ForgottenAccepted'
    BY <1>1, <1>2 DEF StreamInv, ForgottenAccepted
  <1>8. StreamTypeOK'
    BY <1>0, <1>1, <1>2, LedgerFacts DEF StreamInv, StreamTypeOK, LedgerInv
  <1> QED BY <1>0, <1>2, <1>5, <1>6, <1>7, <1>8 DEF StreamInv, FlowParts

(* Beginning a publication may take a number, which is not sent before the *)
(* sink accepts it.                                                        *)
LEMMA BeginPublicationKeeps ==
    ASSUME StreamInv, NEW t \in Retained, BeginPublication(t)
    PROVE  StreamInv'
  <1>0. LedgerInv'
    BY StreamLedgerStep DEF StreamInv, StreamNext
  <1>1. /\ actor = "idle" /\ actor' = "sending" /\ sending' = t
        /\ Retained' = Retained
        /\ \A u \in Retained : u # t => entries'[u] = entries[u]
        /\ entries[t].state = "Ready" /\ entries'[t].state = "Publishing"
        /\ UNCHANGED nextTerminal
    BY LedgerFacts DEF BeginPublication, BeginNextPublication, Retained, Entry
  <1>2. UNCHANGED <<queue, stopped, lastOutbound, protocolFailed, accepted, lost, throws>>
    BY DEF BeginPublication, publisherVars, readerVars, faultVars
  <1>3. \/ /\ openOutbound = 0 /\ nextOutbound # 0
           /\ openOutbound' = nextOutbound /\ nextOutbound' = Increment(nextOutbound)
           /\ entries'[t].outbound = nextOutbound
        \/ /\ UNCHANGED <<openOutbound, nextOutbound>>
           /\ entries'[t].outbound = openOutbound
    BY LedgerFacts DEF BeginPublication, BeginNextPublication, ReserveOutboundSequenceUnchecked,
       Retained, Entry
  <1>4. SentNumbers' = SentNumbers
    <2>1. CASE /\ openOutbound = 0 /\ nextOutbound # 0
               /\ openOutbound' = nextOutbound /\ nextOutbound' = Increment(nextOutbound)
      <3>1. \A k \in Counter : Issued(k, nextOutbound') <=> k <= nextOutbound
        BY <2>1, LedgerFacts, IssuedNext
      <3>2. nextOutbound \notin SentNumbers /\ nextOutbound \notin SentNumbers'
        BY <1>1, <2>1, LedgerFacts DEF SentNumbers, Issued
      <3>3. ASSUME NEW k \in Counter \ {0}, k # nextOutbound
            PROVE  k \in SentNumbers <=> k \in SentNumbers'
        BY <2>1, <3>1, <3>3, LedgerFacts DEF SentNumbers, Issued
      <3> QED BY <3>2, <3>3 DEF SentNumbers
    <2>2. CASE UNCHANGED <<openOutbound, nextOutbound>>
      BY <1>1, <2>2 DEF SentNumbers
    <2> QED BY <1>3, <2>1, <2>2
  <1>5. SentTerminals' = SentTerminals
    BY <1>1 DEF SentTerminals
  <1>6. FlowParts'
    BY <1>2, <1>4, <1>5, NothingSent DEF StreamInv, FlowParts
  <1>7. InHand'
    BY <1>1, <1>3, LedgerFacts DEF StreamInv, InHand
  <1>8. ForgottenAccepted'
    BY <1>1, <1>2 DEF StreamInv, ForgottenAccepted
  <1>9. StreamTypeOK'
    BY <1>0, <1>1, <1>2, LedgerFacts DEF StreamInv, StreamTypeOK, LedgerInv
  <1> QED BY <1>0, <1>2, <1>6, <1>7, <1>8, <1>9 DEF StreamInv, FlowParts

(* A sink that throws puts the terminal back with its number still open. *)
LEMMA SinkThrowsKeeps ==
    ASSUME StreamInv, SinkThrows
    PROVE  StreamInv'
  <1>0. LedgerInv'
    BY StreamLedgerStep DEF StreamInv, StreamNext
  <1>1. /\ actor = "sending" /\ actor' = "idle" /\ sending' = 0 /\ sending \in Retained
        /\ Retained' = Retained
        /\ \A t \in Retained : t # sending => entries'[t] = entries[t]
        /\ entries[sending].state = "Publishing" /\ entries'[sending].state = "Ready"
        /\ UNCHANGED <<nextTerminal, nextOutbound, openOutbound>>
    BY LedgerFacts DEF SinkThrows, AbortPublication, Retained, Entry
  <1>2. /\ UNCHANGED <<queue, stopped, lastOutbound, protocolFailed, accepted, lost>>
        /\ throws < MaxThrows /\ throws' = throws + 1
    BY DEF SinkThrows, publisherVars, readerVars
  <1>3. SentNumbers' = SentNumbers
    BY <1>1 DEF SentNumbers
  <1>4. SentTerminals' = SentTerminals
    BY <1>1 DEF SentTerminals
  <1>5. FlowParts'
    BY <1>2, <1>3, <1>4, NothingSent DEF StreamInv, FlowParts
  <1>6. InHand'
    BY <1>1, LedgerFacts DEF StreamInv, InHand
  <1>7. ForgottenAccepted'
    BY <1>1, <1>2 DEF StreamInv, ForgottenAccepted
  <1>8. StreamTypeOK' /\ (lost <= throws)'
    BY <1>0, <1>1, <1>2, LedgerFacts, StreamAssumption DEF StreamInv, StreamTypeOK, LedgerInv
  <1> QED BY <1>0, <1>5, <1>6, <1>7, <1>8 DEF StreamInv, FlowParts

(* Confirming closes the number of the terminal that was sent. *)
LEMMA ConfirmSentKeeps ==
    ASSUME StreamInv, ConfirmSent
    PROVE  StreamInv'
  <1>0. LedgerInv'
    BY StreamLedgerStep DEF StreamInv, StreamNext
  <1>1. /\ actor = "sent" /\ actor' = "idle" /\ sending' = 0 /\ sending \in Retained
        /\ Retained' = Retained
        /\ \A t \in Retained : t # sending => entries'[t] = entries[t]
        /\ entries[sending].state = "Publishing"
        /\ entries'[sending].state = "AwaitingAcknowledgement"
        /\ openOutbound' = 0 /\ UNCHANGED <<nextTerminal, nextOutbound>>
    BY LedgerFacts DEF ConfirmSent, ConfirmPublished, Retained, Entry
  <1>2. UNCHANGED <<queue, stopped, lastOutbound, protocolFailed, accepted, lost, throws>>
    BY DEF ConfirmSent, publisherVars, readerVars, faultVars
  <1>3. SentNumbers' = SentNumbers
    BY <1>1 DEF SentNumbers
  <1>4. SentTerminals' = SentTerminals
    BY <1>1 DEF SentTerminals
  <1>5. FlowParts'
    BY <1>2, <1>3, <1>4, NothingSent DEF StreamInv, FlowParts
  <1>6. InHand'
    BY <1>1, LedgerFacts DEF StreamInv, InHand
  <1>7. ForgottenAccepted'
    BY <1>1, <1>2 DEF StreamInv, ForgottenAccepted
  <1>8. StreamTypeOK'
    BY <1>0, <1>1, <1>2, LedgerFacts DEF StreamInv, StreamTypeOK, LedgerInv
  <1> QED BY <1>0, <1>2, <1>5, <1>6, <1>7, <1>8 DEF StreamInv, FlowParts

(* Only a terminal that was handed over is forgotten. *)
LEMMA AcknowledgeCommandKeeps ==
    ASSUME StreamInv, NEW t \in Retained, AcknowledgeCommand(t)
    PROVE  StreamInv' /\ t \in 1 .. Len(accepted)
  <1>0. LedgerInv'
    BY StreamLedgerStep DEF StreamInv, StreamNext
  <1>1. /\ actor = "idle" /\ UNCHANGED <<actor, sending>>
        /\ Retained' = Retained \ {t}
        /\ \A u \in Retained : u # t => entries'[u] = entries[u]
        /\ entries[t].state = "AwaitingAcknowledgement"
        /\ UNCHANGED <<nextTerminal, nextOutbound, openOutbound>>
    BY DEF AcknowledgeCommand, AcknowledgeTerminal, Retained
  <1>2. UNCHANGED <<queue, stopped, lastOutbound, protocolFailed, accepted, lost, throws>>
    BY DEF AcknowledgeCommand, publisherVars, readerVars, faultVars
  <1>3. t \in 1 .. Len(accepted)
    <2>1. PICK k \in DOMAIN accepted : accepted[k] = t
      BY DEF AcknowledgeCommand, Range
    <2>2. DOMAIN accepted = 1 .. Len(accepted)
      BY LenProperties DEF StreamInv, StreamTypeOK
    <2> QED BY <2>1, <2>2 DEF StreamInv, ReaderSeen
  <1>4. SentNumbers' = SentNumbers
    BY <1>1 DEF SentNumbers
  <1>5. SentTerminals' = SentTerminals
    BY <1>1 DEF SentTerminals
  <1>6. FlowParts'
    BY <1>2, <1>4, <1>5, NothingSent DEF StreamInv, FlowParts
  <1>7. InHand'
    BY <1>1, LedgerFacts DEF StreamInv, InHand
  <1>8. ForgottenAccepted'
    BY <1>1, <1>2, <1>3 DEF StreamInv, ForgottenAccepted
  <1>9. StreamTypeOK'
    BY <1>0, <1>1, <1>2 DEF StreamInv, StreamTypeOK, LedgerInv
  <1> QED BY <1>0, <1>2, <1>3, <1>6, <1>7, <1>8, <1>9 DEF StreamInv, FlowParts

(* The number a terminal in the actor's hands owns is the newest one, and  *)
(* every earlier terminal was sent.                                        *)
LEMMA SendingIsNext ==
    ASSUME StreamInv, actor = "sending"
    PROVE  /\ sending \in Retained /\ sending \in Nat \ {0} /\ entries[sending] \in Entry
           /\ entries[sending].outbound = openOutbound
           /\ openOutbound \in Counter /\ openOutbound \in Nat /\ openOutbound # 0
           /\ SentNumbers = 1 .. openOutbound - 1
           /\ SentTerminals = 1 .. sending - 1
  <1>1. /\ sending \in Retained /\ sending \in Nat /\ sending # 0 /\ entries[sending] \in Entry
        /\ entries[sending].state = "Publishing" /\ entries[sending].outbound = openOutbound
        /\ Issued(sending, nextTerminal) /\ sending \in Counter
        /\ openOutbound \in Counter /\ openOutbound \in Nat
    BY LedgerFacts DEF StreamInv, InHand
  <1>2. openOutbound # 0
    BY <1>1 DEF StreamInv, LedgerInv, NumberedFromPublishing
  <1>3. CounterModulus \in Nat /\ Counter = 0 .. CounterModulus - 1 /\ Counter \subseteq Nat
    BY LedgerAssumption DEF Counter
  <1>4. SentNumbers = 1 .. openOutbound - 1
    <2>1. nextOutbound = Increment(openOutbound)
      BY <1>2 DEF StreamInv, InHand
    <2>2. \A k \in Counter : Issued(k, nextOutbound) <=> k <= openOutbound
      BY <1>1, <1>2, <2>1, IssuedNext
    <2>3. \A k : k \in SentNumbers <=> k \in Counter /\ k # 0 /\ k <= openOutbound /\ k # openOutbound
      BY <2>2 DEF SentNumbers
    <2>4. \A k : k \in SentNumbers <=> k \in 1 .. openOutbound - 1
      BY <1>1, <1>2, <1>3, <2>3
    <2> QED BY <2>4
  <1>5. SentTerminals = 1 .. sending - 1
    <2>1. \A t \in Retained : t < sending => entries[t].state = "AwaitingAcknowledgement"
      BY <1>1, <1>2 DEF StreamInv, LedgerInv, PublishedInTerminalOrder
    <2>2. \A t \in Retained : sending < t => entries[t].state # "AwaitingAcknowledgement"
      <3> SUFFICES ASSUME NEW t \in Retained, sending < t,
                          entries[t].state = "AwaitingAcknowledgement"
                   PROVE  FALSE
        OBVIOUS
      <3>1. entries[t].outbound # 0
        BY DEF StreamInv, LedgerInv, NumberedFromPublishing
      <3>2. entries[sending].state = "AwaitingAcknowledgement"
        BY <1>1, <3>1 DEF StreamInv, LedgerInv, PublishedInTerminalOrder
      <3> QED BY <1>1, <3>2
    <2>3. Len(accepted) < sending
      <3> SUFFICES ASSUME sending <= Len(accepted) PROVE FALSE
        BY <1>1, LedgerFacts
      <3>1. sending \in SentTerminals
        BY <1>1, LedgerFacts DEF StreamInv, ReaderSeen
      <3> QED BY <1>1, <3>1 DEF SentTerminals
    <2>4. ASSUME NEW t \in Counter, t # 0
          PROVE  t \in SentTerminals <=> t < sending
      <3>1. CASE t \in Retained
        <4>1. t \in Nat /\ Issued(t, nextTerminal)
          BY <3>1, LedgerFacts
        <4>2. t \in SentTerminals <=> entries[t].state = "AwaitingAcknowledgement"
          BY <2>4, <3>1, <4>1 DEF SentTerminals
        <4> QED BY <1>1, <2>1, <2>2, <3>1, <4>1, <4>2
      <3>2. CASE t \notin Retained
        <4>1. t \in SentTerminals <=> Issued(t, nextTerminal)
          BY <2>4, <3>2 DEF SentTerminals
        <4>2. Issued(t, nextTerminal) => t < sending
          BY <1>1, <1>3, <2>3, <2>4, <3>2, LedgerFacts DEF StreamInv, ForgottenAccepted
        <4>3. t < sending => Issued(t, nextTerminal)
          BY <1>1, <1>3, LedgerFacts DEF Issued
        <4> QED BY <4>1, <4>2, <4>3
      <3> QED BY <3>1, <3>2
    <2>5. \A t : t \in SentTerminals => t \in Counter /\ t # 0
      BY DEF SentTerminals
    <2>6. \A t : t \in SentTerminals <=> t \in 1 .. sending - 1
      BY <1>1, <1>3, <2>4, <2>5
    <2> QED BY <2>6
  <1> QED BY <1>1, <1>2, <1>4, <1>5

(* The sink takes the terminal in hand: its number and it are sent. *)
LEMMA SinkAcceptsKeeps ==
    ASSUME StreamInv, SinkAccepts
    PROVE  StreamInv'
  <1> DEFINE r == [outbound |-> entries[sending].outbound, terminal |-> sending]
  <1>0. LedgerInv'
    BY StreamLedgerStep DEF StreamInv, StreamNext
  <1>1. /\ actor = "sending" /\ actor' = "sent" /\ PublishRaw(r)
        /\ UNCHANGED <<entries, retainedBytes, nextTerminal, nextOutbound, openOutbound, tombstones>>
        /\ UNCHANGED <<sending, lastOutbound, protocolFailed, accepted, lost, throws>>
    BY DEF SinkAccepts, ledgerVars, readerVars, faultVars
  <1>2. Retained' = Retained
    BY <1>1 DEF Retained
  <1>3. r \in Record /\ r.outbound = openOutbound /\ r.terminal = sending
    BY <1>1, SendingIsNext, LedgerFacts DEF Record
  <1>4. SentNumbers' = SentNumbers \cup ({r.outbound} \ {0})
    <2>1. Issued(openOutbound, nextOutbound)
      BY <1>1, SendingIsNext DEF StreamInv, LedgerInv, NumbersIssued
    <2> QED BY <1>1, <1>3, <2>1, SendingIsNext DEF SentNumbers
  <1>5. SentTerminals' = SentTerminals \cup ({r.terminal} \ {0})
    <2>1. Issued(sending, nextTerminal) /\ sending \in Counter /\ sending # 0
      BY <1>1, SendingIsNext, LedgerFacts
    <2> QED BY <1>1, <1>2, <1>3, <2>1, SendingIsNext DEF SentTerminals
  <1>6. FlowParts' /\ queue' \in Seq(Record) /\ stopped' \in BOOLEAN
    <2>1. StreamTypeOK /\ FlowParts
      BY DEF StreamInv, FlowParts
    <2>2. r.outbound # 0 => SentNumbers = 1 .. r.outbound - 1
      BY <1>1, <1>3, SendingIsNext
    <2>3. r.terminal # 0 => SentTerminals = 1 .. r.terminal - 1
      BY <1>1, <1>3, SendingIsNext
    <2>4. r.outbound # 0
      BY <1>1, <1>3, SendingIsNext
    <2> HIDE DEF r
    <2> QED BY <1>1, <1>3, <1>4, <1>5, <2>1, <2>2, <2>3, <2>4, RecordSent
  <1>7. InHand'
    BY <1>1, <1>2, SendingIsNext DEF StreamInv, InHand
  <1>8. ForgottenAccepted'
    BY <1>1, <1>2 DEF StreamInv, ForgottenAccepted
  <1>9. StreamTypeOK'
    BY <1>0, <1>1, <1>6 DEF StreamInv, StreamTypeOK, LedgerInv
  <1> QED BY <1>0, <1>1, <1>6, <1>7, <1>8, <1>9 DEF StreamInv, FlowParts

(* A plain event is numbered and given to the publisher in one turn; when  *)
(* the sink throws its number is lost.                                     *)
LEMMA PublishEventKeeps ==
    ASSUME StreamInv, PublishEvent
    PROVE  StreamInv'
  <1> DEFINE r == [outbound |-> nextOutbound, terminal |-> 0]
  <1>0. LedgerInv'
    BY StreamLedgerStep DEF StreamInv, StreamNext
  <1>1. /\ actor = "idle" /\ openOutbound = 0 /\ nextOutbound # 0
        /\ nextOutbound' = Increment(nextOutbound)
        /\ UNCHANGED <<entries, nextTerminal, openOutbound, actor, sending>>
        /\ UNCHANGED <<lastOutbound, protocolFailed, accepted>>
    BY DEF PublishEvent, readerVars
  <1>2. Retained' = Retained
    BY <1>1 DEF Retained
  <1>3. SentTerminals' = SentTerminals
    BY <1>1, <1>2 DEF SentTerminals
  <1>4. /\ SentNumbers = 1 .. nextOutbound - 1
        /\ SentNumbers' = SentNumbers \cup {nextOutbound}
    <2>1. CounterModulus \in Nat /\ Counter = 0 .. CounterModulus - 1 /\ nextOutbound \in Counter
          /\ nextOutbound \in Nat
      BY LedgerAssumption, LedgerFacts DEF Counter
    <2>2. \A k \in Counter : Issued(k, nextOutbound') <=> k <= nextOutbound
      BY <1>1, <2>1, IssuedNext
    <2>3. \A k : k \in SentNumbers <=> k \in Counter /\ k # 0 /\ k < nextOutbound
      BY <1>1 DEF SentNumbers, Issued
    <2>4. \A k : k \in SentNumbers' <=> k \in Counter /\ k # 0 /\ k <= nextOutbound
      BY <1>1, <2>2 DEF SentNumbers
    <2>5. \A k : k \in SentNumbers <=> k \in 1 .. nextOutbound - 1
      BY <1>1, <2>1, <2>3
    <2>6. \A k : k \in SentNumbers' <=> k \in SentNumbers \cup {nextOutbound}
      BY <1>1, <2>1, <2>3, <2>4
    <2> QED BY <2>5, <2>6
  <1>5. InHand'
    BY <1>1, <1>2 DEF StreamInv, InHand
  <1>6. ForgottenAccepted'
    BY <1>1, <1>2 DEF StreamInv, ForgottenAccepted
  <1>7. CASE PublishRaw(r) /\ UNCHANGED faultVars
    <2>1. UNCHANGED <<lost, throws>>
      BY <1>7 DEF faultVars
    <2>2. r \in Record /\ r.outbound = nextOutbound /\ r.terminal = 0
      BY LedgerFacts DEF Record
    <2>3. SentNumbers' = SentNumbers \cup ({r.outbound} \ {0})
      BY <1>1, <1>4, <2>2
    <2>4. SentTerminals' = SentTerminals \cup ({r.terminal} \ {0})
      BY <1>3, <2>2
    <2>5. r.outbound # 0 => SentNumbers = 1 .. r.outbound - 1
      BY <1>4, <2>2
    <2>6. StreamTypeOK /\ FlowParts
      BY DEF StreamInv, FlowParts
    <2>7. FlowParts' /\ queue' \in Seq(Record) /\ stopped' \in BOOLEAN
      <3> HIDE DEF r
      <3> QED BY <1>1, <1>7, <2>1, <2>2, <2>3, <2>4, <2>5, <2>6, RecordSent
    <2>8. StreamTypeOK'
      BY <1>0, <1>1, <2>1, <2>7 DEF StreamInv, StreamTypeOK, LedgerInv
    <2> QED BY <1>0, <1>5, <1>6, <2>1, <2>7, <2>8 DEF StreamInv, FlowParts
  <1>8. CASE /\ throws < MaxThrows /\ throws' = throws + 1 /\ lost' = lost + 1
             /\ UNCHANGED publisherVars
    <2>1. UNCHANGED queue /\ UNCHANGED stopped
      BY <1>8 DEF publisherVars
    <2>2. lost \in Nat /\ throws \in Nat /\ MaxThrows \in Nat /\ lost <= throws
      BY StreamAssumption DEF StreamInv, StreamTypeOK
    <2>3. StreamTypeOK' /\ (lost <= throws)'
      BY <1>0, <1>1, <1>8, <2>1, <2>2 DEF StreamInv, StreamTypeOK, LedgerInv
    <2>4. QueueSent' /\ ReaderSeen'
      BY <1>1, <1>3, <1>4, <2>1 DEF StreamInv, QueueSent, ReaderSeen
    <2>5. NumbersFlow' /\ NoSpuriousProtocolFailure'
      BY <1>8, <2>2 DEF NumbersFlow, NoSpuriousProtocolFailure
    <2>6. TerminalsFlow'
      BY <1>1, <1>3, <2>1 DEF StreamInv, TerminalsFlow, CarriesTerminal
    <2> QED BY <1>0, <1>5, <1>6, <2>3, <2>4, <2>5, <2>6 DEF StreamInv
  <1> QED BY <1>7, <1>8 DEF PublishEvent

(* A passive record carries no number and no terminal. *)
LEMMA PublishPassiveKeeps ==
    ASSUME StreamInv, PublishPassive
    PROVE  StreamInv'
  <1> DEFINE r == [outbound |-> 0, terminal |-> 0]
  <1>0. LedgerInv'
    BY StreamLedgerStep DEF StreamInv, StreamNext
  <1>1. /\ PublishRaw(r)
        /\ UNCHANGED <<entries, nextTerminal, nextOutbound, openOutbound, actor, sending>>
        /\ UNCHANGED <<lastOutbound, protocolFailed, accepted, lost, throws>>
    BY DEF PublishPassive, ledgerVars, readerVars, faultVars
  <1>2. Retained' = Retained
    BY <1>1 DEF Retained
  <1>3. r \in Record /\ r.outbound = 0 /\ r.terminal = 0
    BY LedgerFacts DEF Record
  <1>4. SentNumbers' = SentNumbers \cup ({r.outbound} \ {0})
    BY <1>1, <1>3 DEF SentNumbers
  <1>5. SentTerminals' = SentTerminals \cup ({r.terminal} \ {0})
    BY <1>1, <1>2, <1>3 DEF SentTerminals
  <1>6. FlowParts' /\ queue' \in Seq(Record) /\ stopped' \in BOOLEAN
    <2>1. StreamTypeOK /\ FlowParts
      BY DEF StreamInv, FlowParts
    <2> HIDE DEF r
    <2> QED BY <1>1, <1>3, <1>4, <1>5, <2>1, RecordSent
  <1>7. InHand'
    BY <1>1, <1>2 DEF StreamInv, InHand
  <1>8. ForgottenAccepted'
    BY <1>1, <1>2 DEF StreamInv, ForgottenAccepted
  <1>9. StreamTypeOK'
    BY <1>0, <1>1, <1>6 DEF StreamInv, StreamTypeOK, LedgerInv
  <1> QED BY <1>0, <1>1, <1>6, <1>7, <1>8, <1>9 DEF StreamInv, FlowParts

(* The reader takes the first record: a passive one is skipped, the next   *)
(* number is accepted and its terminal is the next one, and any other      *)
(* number is there only after a plain event was lost.                      *)
LEMMA ReadFrameKeeps ==
    ASSUME StreamInv, ReadFrame
    PROVE  /\ StreamInv'
           /\ \/ UNCHANGED accepted
              \/ /\ accepted' = Append(accepted, Len(accepted) + 1)
                 /\ Len(accepted) + 1 \in SentTerminals
  <1> DEFINE r == Head(queue)
  <1>0. LedgerInv'
    BY StreamLedgerStep DEF StreamInv, StreamNext
  <1>1. /\ ~ protocolFailed /\ queue # <<>> /\ queue' = Tail(queue)
        /\ UNCHANGED <<entries, nextTerminal, nextOutbound, openOutbound, actor, sending>>
        /\ UNCHANGED <<stopped, lost, throws>>
    BY DEF ReadFrame, ledgerVars, faultVars
  <1>2. \/ r.outbound = 0 /\ UNCHANGED <<lastOutbound, protocolFailed, accepted>>
        \/ /\ r.outbound # 0 /\ r.outbound = Increment(lastOutbound)
           /\ lastOutbound' = r.outbound
           /\ accepted' = IF r.terminal = 0 THEN accepted ELSE Append(accepted, r.terminal)
           /\ UNCHANGED protocolFailed
        \/ /\ r.outbound # 0 /\ r.outbound # Increment(lastOutbound)
           /\ protocolFailed' = TRUE
           /\ UNCHANGED <<lastOutbound, accepted>>
    BY DEF ReadFrame, readerVars, Authoritative
  <1>3. queue \in Seq(Record)
    BY DEF StreamInv, StreamTypeOK
  <1>4. /\ Tail(queue) \in Seq(Record) /\ Len(queue) \in Nat \ {0}
        /\ Len(Tail(queue)) = Len(queue) - 1
        /\ \A i \in 1 .. Len(queue) - 1 : i + 1 \in 1 .. Len(queue) /\ Tail(queue)[i] = queue[i + 1]
        /\ 1 \in 1 .. Len(queue) /\ r = queue[1] /\ r \in Record
    BY <1>1, <1>3, TailFacts
  <1>5. /\ Numbers(queue)[1] = r.outbound /\ Terminals(queue)[1] = r.terminal
        /\ Shifted(Len(queue), Numbers(queue), Numbers(Tail(queue)))
        /\ Shifted(Len(queue), Terminals(queue), Terminals(Tail(queue)))
    BY <1>1, <1>3, TailFacts
  <1>6. /\ \A k : k # r.outbound /\ Carries(queue, k) => Carries(Tail(queue), k)
        /\ \A k : k # r.terminal /\ CarriesTerminal(queue, k) => CarriesTerminal(Tail(queue), k)
    BY <1>1, <1>3, TailFacts
  <1>7. /\ r.outbound \in Counter /\ r.terminal \in Counter /\ lastOutbound \in Counter
        /\ r.outbound \in Nat /\ r.terminal \in Nat /\ lastOutbound \in Nat
        /\ Len(accepted) \in Nat /\ accepted \in Seq(Counter) /\ Counter \subseteq Nat
    BY <1>4, LedgerFacts DEF Record, StreamInv, StreamTypeOK
  <1>8. /\ r.outbound # 0 => r.outbound \in SentNumbers
        /\ r.outbound = 0 => r.terminal = 0
        /\ r.terminal # 0 => r.terminal \in SentTerminals
    BY <1>4 DEF StreamInv, QueueSent
  <1> HIDE DEF r
  <1>9. Retained' = Retained /\ SentNumbers' = SentNumbers /\ SentTerminals' = SentTerminals
    BY <1>1 DEF Retained, SentNumbers, SentTerminals
  <1>10. InHand'
    BY <1>1, <1>9 DEF StreamInv, InHand
  <1>11. QueueSent'
    BY <1>1, <1>4, <1>9 DEF StreamInv, QueueSent
  <1>12. lost = 0 => /\ Gapless(Len(queue), Numbers(queue), lastOutbound)
                     /\ r.outbound = 0 => Gapless(Len(Tail(queue)), Numbers(Tail(queue)), lastOutbound)
                     /\ r.outbound # 0 =>
                           /\ r.outbound = lastOutbound + 1
                           /\ Gapless(Len(Tail(queue)), Numbers(Tail(queue)), lastOutbound + 1)
    <2>1. lost = 0 => Gapless(Len(queue), Numbers(queue), lastOutbound)
      BY <1>1 DEF StreamInv, NumbersFlow
    <2> QED BY <1>4, <1>5, <1>7, <2>1, GaplessTail
  <1>13. /\ r.terminal = 0 => Gapless(Len(Tail(queue)), Terminals(Tail(queue)), Len(accepted))
         /\ r.terminal # 0 =>
               /\ r.terminal = Len(accepted) + 1
               /\ Gapless(Len(Tail(queue)), Terminals(Tail(queue)), Len(accepted) + 1)
    <2>1. Gapless(Len(queue), Terminals(queue), Len(accepted))
      BY <1>1 DEF StreamInv, TerminalsFlow
    <2> QED BY <1>4, <1>5, <1>7, <2>1, GaplessTail
  <1>14. /\ lost = 0 /\ ~ stopped =>
              \A k \in Counter : k \in SentNumbers /\ lastOutbound < k /\ k # r.outbound
                                    => Carries(Tail(queue), k)
         /\ ~ stopped =>
              \A t \in Counter : t \in SentTerminals /\ Len(accepted) < t /\ t # r.terminal
                                    => CarriesTerminal(Tail(queue), t)
    BY <1>1, <1>6 DEF StreamInv, NumbersFlow, TerminalsFlow
  <1>15. 0 \notin SentNumbers /\ 0 \notin SentTerminals
    BY DEF SentNumbers, SentTerminals
  <1>16. CASE r.outbound = 0 /\ UNCHANGED <<lastOutbound, protocolFailed, accepted>>
    <2>1. ReaderSeen' /\ ForgottenAccepted' /\ NoSpuriousProtocolFailure'
      BY <1>1, <1>9, <1>16 DEF StreamInv, ReaderSeen, ForgottenAccepted, NoSpuriousProtocolFailure
    <2>2. NumbersFlow'
      BY <1>1, <1>9, <1>12, <1>14, <1>15, <1>16 DEF NumbersFlow
    <2>3. TerminalsFlow'
      BY <1>1, <1>8, <1>9, <1>13, <1>14, <1>15, <1>16 DEF TerminalsFlow
    <2>4. StreamTypeOK'
      BY <1>0, <1>1, <1>4, <1>16 DEF StreamInv, StreamTypeOK, LedgerInv
    <2> QED BY <1>0, <1>1, <1>10, <1>11, <1>16, <2>1, <2>2, <2>3, <2>4 DEF StreamInv
  <1>17. CASE /\ r.outbound # 0 /\ r.outbound = Increment(lastOutbound)
              /\ lastOutbound' = r.outbound
              /\ accepted' = IF r.terminal = 0 THEN accepted ELSE Append(accepted, r.terminal)
              /\ UNCHANGED protocolFailed
    <2>1. NumbersFlow'
      <3>1. lost = 0 => \A k \in Counter : lastOutbound' < k => lastOutbound < k /\ k # r.outbound
        BY <1>7, <1>12, <1>17
      <3> QED BY <1>1, <1>9, <1>12, <1>14, <1>17, <3>1 DEF NumbersFlow
    <2>2. NoSpuriousProtocolFailure'
      BY <1>1, <1>17 DEF NoSpuriousProtocolFailure
    <2>3. \/ r.terminal = 0 /\ UNCHANGED accepted
          \/ r.terminal # 0 /\ accepted' = Append(accepted, Len(accepted) + 1)
      BY <1>13, <1>17
    <2>4. CASE r.terminal = 0 /\ UNCHANGED accepted
      <3>1. ReaderSeen' /\ ForgottenAccepted'
        BY <1>1, <1>8, <1>9, <1>17, <2>4 DEF StreamInv, ReaderSeen, ForgottenAccepted
      <3>2. TerminalsFlow'
        BY <1>1, <1>9, <1>13, <1>14, <1>15, <2>4 DEF TerminalsFlow
      <3>3. StreamTypeOK'
        BY <1>0, <1>1, <1>4, <1>7, <1>17, <2>4 DEF StreamInv, StreamTypeOK, LedgerInv
      <3> QED BY <1>0, <1>1, <1>10, <1>11, <2>1, <2>2, <2>4, <3>1, <3>2, <3>3 DEF StreamInv
    <2>5. CASE r.terminal # 0 /\ accepted' = Append(accepted, Len(accepted) + 1)
      <3>0. /\ r.terminal = Len(accepted) + 1 /\ r.terminal \in SentTerminals
            /\ Len(accepted) + 1 \in Counter
        BY <1>7, <1>8, <1>13, <2>5
      <3>1. /\ accepted' \in Seq(Counter) /\ Len(accepted') = Len(accepted) + 1
            /\ \A k \in 1 .. Len(accepted) : accepted'[k] = accepted[k]
            /\ accepted'[Len(accepted) + 1] = Len(accepted) + 1
        BY <1>7, <2>5, <3>0, AppendProperties
      <3>2. ReaderSeen'
        <4>1. (lastOutbound # 0 => lastOutbound \in SentNumbers)'
          BY <1>8, <1>9, <1>17
        <4>2. \A k \in 1 .. Len(accepted') : accepted'[k] = k /\ k \in SentTerminals'
          BY <1>7, <1>9, <3>0, <3>1 DEF StreamInv, ReaderSeen
        <4> QED BY <4>1, <4>2 DEF ReaderSeen
      <3>3. ForgottenAccepted'
        BY <1>1, <1>7, <1>9, <3>1 DEF StreamInv, ForgottenAccepted
      <3>4. TerminalsFlow'
        <4>1. \A t \in Counter : Len(accepted') < t => Len(accepted) < t /\ t # r.terminal
          BY <1>7, <3>0, <3>1
        <4> QED BY <1>1, <1>9, <1>13, <1>14, <2>5, <3>1, <4>1 DEF TerminalsFlow
      <3>5. StreamTypeOK'
        BY <1>0, <1>1, <1>4, <1>7, <1>17, <3>1 DEF StreamInv, StreamTypeOK, LedgerInv
      <3> QED BY <1>0, <1>1, <1>10, <1>11, <2>1, <2>2, <2>5, <3>0, <3>2, <3>3, <3>4, <3>5
              DEF StreamInv
    <2> QED BY <2>3, <2>4, <2>5
  <1>18. CASE /\ r.outbound # 0 /\ r.outbound # Increment(lastOutbound)
              /\ protocolFailed' = TRUE
              /\ UNCHANGED <<lastOutbound, accepted>>
    <2>1. lost # 0
      <3> SUFFICES ASSUME lost = 0 PROVE FALSE
        OBVIOUS
      <3>1. r.outbound = lastOutbound + 1
        BY <1>12, <1>18
      <3>2. Increment(lastOutbound) = lastOutbound + 1
        BY <1>7, <3>1, LedgerAssumption DEF Increment, Counter
      <3> QED BY <1>18, <3>1, <3>2
    <2>2. NoSpuriousProtocolFailure'
      BY <1>1, <2>1 DEF NoSpuriousProtocolFailure, StreamInv, StreamTypeOK
    <2>3. ReaderSeen' /\ ForgottenAccepted'
      BY <1>1, <1>9, <1>18 DEF StreamInv, ReaderSeen, ForgottenAccepted
    <2>4. NumbersFlow' /\ TerminalsFlow'
      BY <1>18 DEF NumbersFlow, TerminalsFlow
    <2>5. StreamTypeOK'
      BY <1>0, <1>1, <1>4, <1>18 DEF StreamInv, StreamTypeOK, LedgerInv
    <2> QED BY <1>0, <1>1, <1>10, <1>11, <1>18, <2>2, <2>3, <2>4, <2>5 DEF StreamInv
  <1> QED BY <1>2, <1>16, <1>17, <1>18

-----------------------------------------------------------------------------
(* The theorems *)

(* Nothing was issued, sent or read at the start. *)
LEMMA InitStream == StreamInit => StreamInv
  <1> SUFFICES ASSUME StreamInit PROVE StreamInv
    OBVIOUS
  <1>0. LedgerInv
    BY LedgerAssumption DEF StreamInit, Init, LedgerInv, TypeOK, NumbersIssued, NumberedFromPublishing,
       PublishedInTerminalOrder, RetryOwnsReservation, IdentityNotReused, Retained, Issued, Counter
  <1>1. /\ LedgerInv /\ Retained = {} /\ nextTerminal = 1 /\ nextOutbound = 1 /\ openOutbound = 0
        /\ actor = "idle" /\ sending = 0 /\ queue = <<>> /\ lastOutbound = 0
        /\ accepted = <<>> /\ lost = 0 /\ throws = 0
    BY <1>0 DEF StreamInit, Init, Retained
  <1>2. stopped = FALSE /\ protocolFailed = FALSE
    BY DEF StreamInit
  <1>3. Counter \subseteq Nat /\ 0 \in Counter /\ Len(queue) = 0 /\ Len(accepted) = 0
    BY <1>1, LedgerAssumption DEF Counter
  <1>4. SentNumbers = {} /\ SentTerminals = {}
    <2>1. \A k \in Counter \ {0} : ~ Issued(k, 1)
      BY <1>3 DEF Issued
    <2> QED BY <1>1, <2>1 DEF SentNumbers, SentTerminals
  <1>5. StreamTypeOK
    <2>1. queue \in Seq(Record) /\ accepted \in Seq(Counter)
      BY <1>1
    <2>2. stopped \in BOOLEAN /\ protocolFailed \in BOOLEAN
      BY <1>2
    <2>3. lost \in 0 .. MaxThrows /\ throws \in 0 .. MaxThrows
      BY <1>1, StreamAssumption
    <2> QED BY <1>1, <1>3, <2>1, <2>2, <2>3 DEF StreamTypeOK, LedgerInv
  <1>6. InHand
    BY <1>1 DEF InHand
  <1>7. QueueSent /\ ReaderSeen
    BY <1>1, <1>3 DEF QueueSent, ReaderSeen
  <1>8. NumbersFlow /\ TerminalsFlow
    BY <1>3, <1>4 DEF NumbersFlow, TerminalsFlow, Gapless
  <1>9. ForgottenAccepted
    BY <1>1, <1>3 DEF ForgottenAccepted, Issued
  <1>10. lost <= throws /\ NoSpuriousProtocolFailure
    BY <1>1, <1>2 DEF NoSpuriousProtocolFailure
  <1> QED BY <1>1, <1>5, <1>6, <1>7, <1>8, <1>9, <1>10 DEF StreamInv

(* Every step keeps the invariant. *)
LEMMA StreamStep == StreamInv /\ [StreamNext]_streamVars => StreamInv'
  <1> SUFFICES ASSUME StreamInv, [StreamNext]_streamVars
               PROVE  StreamInv'
    OBVIOUS
  <1>1. CASE \E i \in Items, b \in ByteSizes : RetainTerminal(i, b)
    BY <1>1, RetainTerminalKeeps
  <1>2. CASE \E b \in ByteSizes : FinalizeTerminal(b)
    BY <1>2, FinalizeTerminalKeeps
  <1>3. CASE \E t \in Retained : BeginPublication(t)
    BY <1>3, BeginPublicationKeeps
  <1>4. CASE SinkAccepts
    BY <1>4, SinkAcceptsKeeps
  <1>5. CASE SinkThrows
    BY <1>5, SinkThrowsKeeps
  <1>6. CASE ConfirmSent
    BY <1>6, ConfirmSentKeeps
  <1>7. CASE PublishEvent
    BY <1>7, PublishEventKeeps
  <1>8. CASE PublishPassive
    BY <1>8, PublishPassiveKeeps
  <1>9. CASE \E t \in Retained : AcknowledgeCommand(t)
    BY <1>9, AcknowledgeCommandKeeps
  <1>10. CASE ReadFrame
    BY <1>10, ReadFrameKeeps
  <1>11. CASE UNCHANGED streamVars
    <2>1. /\ UNCHANGED <<entries, nextTerminal, nextOutbound, openOutbound, actor, sending>>
          /\ UNCHANGED <<queue, stopped, lastOutbound, protocolFailed, accepted, lost, throws>>
      BY <1>11 DEF streamVars
    <2>2. LedgerInv'
      BY StreamLedgerStep DEF StreamInv
    <2>3. Retained' = Retained /\ SentNumbers' = SentNumbers /\ SentTerminals' = SentTerminals
      BY <2>1 DEF Retained, SentNumbers, SentTerminals
    <2>4. FlowParts'
      BY <2>1, <2>3, NothingSent DEF StreamInv, FlowParts
    <2>5. InHand' /\ ForgottenAccepted'
      BY <2>1, <2>3 DEF StreamInv, InHand, ForgottenAccepted
    <2>6. StreamTypeOK'
      BY <2>1, <2>2 DEF StreamInv, StreamTypeOK, LedgerInv
    <2> QED BY <2>1, <2>2, <2>4, <2>5, <2>6 DEF StreamInv, FlowParts
  <1> QED
    BY <1>1, <1>2, <1>3, <1>4, <1>5, <1>6, <1>7, <1>8, <1>9, <1>10, <1>11 DEF StreamNext

(* The inductive invariant of the stream holds throughout, for every queue *)
(* limit, counter width and bound of the ledger.                           *)
THEOREM SpecStreamInv == StreamSpec => []StreamInv
  <1> QED BY InitStream, StreamStep, PTL DEF StreamSpec

(* The stream's state stays within its types: every number and identity in *)
(* the queue, and everything the reader holds, fits the counters' width.   *)
THEOREM SpecStreamTypeOK == StreamSpec => []StreamTypeOK
  <1>1. StreamInv => StreamTypeOK
    BY DEF StreamInv
  <1> QED BY <1>1, SpecStreamInv, PTL

(* The reader of ProcessWorker fails the protocol only after a plain event *)
(* was numbered and its sink call threw: retries of terminals, evictions   *)
(* of passive records and a full queue never leave a gap in the numbers.   *)
THEOREM SpecNoSpuriousProtocolFailure == StreamSpec => []NoSpuriousProtocolFailure
  <1>1. StreamInv => NoSpuriousProtocolFailure
    BY DEF StreamInv
  <1> QED BY <1>1, SpecStreamInv, PTL

-----------------------------------------------------------------------------
(* The refinement of TerminalDelivery *)

(* What TerminalDelivery calls issued and acknowledged. *)
IssuedCount == IF nextTerminal = 0 THEN CounterModulus - 1 ELSE nextTerminal - 1

Forgotten ==
    {t \in Counter \ {0} : (nextTerminal = 0 \/ t < nextTerminal) /\ t \notin Retained}

(* A step that issues, delivers and forgets nothing stutters. *)
LEMMA DeliveryStutters ==
    ASSUME UNCHANGED <<nextTerminal, accepted>>, Retained' = Retained
    PROVE  UNCHANGED Delivery!deliveryVars
  BY DEF Delivery!deliveryVars

(* RetainTerminal issues the next terminal, also when it is the last one   *)
(* of the counter.                                                         *)
LEMMA RetainIssues ==
    ASSUME StreamInv, NEW i \in Items, NEW b \in ByteSizes, RetainTerminal(i, b)
    PROVE  Delivery!Issue
  <1>1. /\ nextTerminal # 0 /\ nextTerminal' = Increment(nextTerminal)
        /\ Retained' = Retained \cup {nextTerminal}
        /\ UNCHANGED accepted
    BY DEF RetainTerminal, ReserveTerminal, Retained, readerVars
  <1>2. /\ CounterModulus \in Nat /\ CounterModulus > 1 /\ Counter = 0 .. CounterModulus - 1
        /\ nextTerminal \in Nat /\ nextTerminal < CounterModulus /\ nextTerminal \in Counter
    BY LedgerAssumption, LedgerFacts DEF Counter
  <1>3. \/ nextTerminal + 1 = CounterModulus /\ nextTerminal' = 0
        \/ nextTerminal + 1 < CounterModulus /\ nextTerminal' = nextTerminal + 1
    BY <1>1, <1>2 DEF Increment
  <1>4. IssuedCount' = IssuedCount + 1
    BY <1>1, <1>2, <1>3 DEF IssuedCount
  <1>5. \A t : t \in Forgotten' <=> t \in Forgotten
    <2>1. \A t \in Counter : Issued(t, nextTerminal') <=> t <= nextTerminal
      BY <1>1, <1>2, IssuedNext
    <2> QED BY <1>1, <1>2, <2>1 DEF Forgotten, Issued
  <1>6. Forgotten' = Forgotten
    BY <1>5
  <1> QED BY <1>1, <1>4, <1>6 DEF Delivery!Issue, IssuedCount, Forgotten

(* Acknowledging forgets a terminal that was delivered. *)
LEMMA AcknowledgeForgets ==
    ASSUME StreamInv, NEW t \in Retained, AcknowledgeCommand(t)
    PROVE  Delivery!Acknowledge
  <1>1. /\ Retained' = Retained \ {t} /\ UNCHANGED nextTerminal /\ UNCHANGED accepted
    BY DEF AcknowledgeCommand, AcknowledgeTerminal, Retained, readerVars
  <1>2. t \in 1 .. Len(accepted)
    BY AcknowledgeCommandKeeps
  <1>3. t \in Counter /\ t # 0 /\ (nextTerminal = 0 \/ t < nextTerminal)
    BY LedgerFacts DEF Issued
  <1>4. t \notin Forgotten /\ Forgotten' = Forgotten \cup {t}
    BY <1>1, <1>3 DEF Forgotten
  <1>5. UNCHANGED IssuedCount
    BY <1>1 DEF IssuedCount
  <1> QED BY <1>1, <1>2, <1>4, <1>5 DEF Delivery!Acknowledge, IssuedCount, Forgotten

(* Reading a frame delivers the next terminal that was issued, or nothing. *)
LEMMA ReadDelivers ==
    ASSUME StreamInv, ReadFrame
    PROVE  Delivery!Deliver \/ UNCHANGED Delivery!deliveryVars
  <1>1. UNCHANGED nextTerminal /\ Retained' = Retained
    BY DEF ReadFrame, ledgerVars, Retained
  <1>2. CASE UNCHANGED accepted
    BY <1>1, <1>2, DeliveryStutters
  <1>3. CASE /\ accepted' = Append(accepted, Len(accepted) + 1)
             /\ Len(accepted) + 1 \in SentTerminals
    <2>1. /\ CounterModulus \in Nat /\ Counter = 0 .. CounterModulus - 1
          /\ nextTerminal \in Nat /\ Len(accepted) \in Nat
      BY LedgerAssumption, LedgerFacts DEF Counter
    <2>2. Len(accepted) < IssuedCount
      BY <1>3, <2>1 DEF SentTerminals, Issued, IssuedCount
    <2>3. UNCHANGED IssuedCount /\ UNCHANGED Forgotten
      BY <1>1 DEF IssuedCount, Forgotten
    <2> QED BY <1>3, <2>2, <2>3 DEF Delivery!Deliver, IssuedCount, Forgotten
  <1> QED BY <1>2, <1>3, ReadFrameKeeps

(* Every step of the stream is a step of TerminalDelivery or a stutter. *)
LEMMA DeliveryStep ==
    ASSUME StreamInv, [StreamNext]_streamVars
    PROVE  [Delivery!Next]_(Delivery!deliveryVars)
  <1>1. CASE \E i \in Items, b \in ByteSizes : RetainTerminal(i, b)
    BY <1>1, RetainIssues DEF Delivery!Next
  <1>2. CASE \E b \in ByteSizes : FinalizeTerminal(b)
    BY <1>2, DeliveryStutters DEF FinalizeTerminal, CompleteTerminal, Retained, readerVars
  <1>3. CASE \E t \in Retained : BeginPublication(t)
    BY <1>3, DeliveryStutters DEF BeginPublication, BeginNextPublication, Retained, readerVars
  <1>4. CASE SinkAccepts
    BY <1>4, DeliveryStutters DEF SinkAccepts, ledgerVars, Retained, readerVars
  <1>5. CASE SinkThrows
    BY <1>5, DeliveryStutters DEF SinkThrows, AbortPublication, Retained, readerVars
  <1>6. CASE ConfirmSent
    BY <1>6, DeliveryStutters DEF ConfirmSent, ConfirmPublished, Retained, readerVars
  <1>7. CASE PublishEvent
    BY <1>7, DeliveryStutters DEF PublishEvent, Retained, readerVars
  <1>8. CASE PublishPassive
    BY <1>8, DeliveryStutters DEF PublishPassive, ledgerVars, Retained, readerVars
  <1>9. CASE \E t \in Retained : AcknowledgeCommand(t)
    BY <1>9, AcknowledgeForgets DEF Delivery!Next
  <1>10. CASE ReadFrame
    BY <1>10, ReadDelivers DEF Delivery!Next
  <1>11. CASE UNCHANGED streamVars
    BY <1>11, DeliveryStutters DEF streamVars, Retained
  <1> QED
    BY <1>1, <1>2, <1>3, <1>4, <1>5, <1>6, <1>7, <1>8, <1>9, <1>10, <1>11 DEF StreamNext

(* The worker's ledger, its outbound queue and the coordinator's reader    *)
(* implement TerminalDelivery: each terminal is handed over once and in    *)
(* the order of issue, and forgotten by the worker only after that.        *)
THEOREM StreamImplementsDelivery == StreamSpec => DeliverySpec
  <1>1. StreamInit => Delivery!Init
    <2> SUFFICES ASSUME StreamInit PROVE Delivery!Init
      OBVIOUS
    <2>1. nextTerminal = 1 /\ accepted = <<>> /\ Counter \subseteq Nat
      BY LedgerAssumption DEF StreamInit, Init, Counter
    <2>2. \A t \in Counter \ {0} : ~ (nextTerminal = 0 \/ t < nextTerminal)
      BY <2>1
    <2>3. IssuedCount = 0
      BY <2>1 DEF IssuedCount
    <2>4. Forgotten = {}
      BY <2>2 DEF Forgotten
    <2> QED BY <2>1, <2>3, <2>4 DEF Delivery!Init, IssuedCount, Forgotten
  <1>2. StreamInv /\ [StreamNext]_streamVars => [Delivery!Next]_(Delivery!deliveryVars)
    BY DeliveryStep
  <1> QED BY <1>1, <1>2, SpecStreamInv, PTL DEF StreamSpec, DeliverySpec, Delivery!Spec

=============================================================================
