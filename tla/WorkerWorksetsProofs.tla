------------------------ MODULE WorkerWorksetsProofs ------------------------
(***************************************************************************)
(* What holds of WorkerWorksets for every set of worksets, any number of   *)
(* items and every limit: the worker implements the reporting contract     *)
(* (WorksetReporting), an accepted workset is in one place, an item that   *)
(* is reported unstarted was never started, and retaining a terminal never *)
(* finds the capacity exhausted.                                           *)
(*                                                                         *)
(* Whatever a handler does to the items and the packages is a settlement:  *)
(* some items that are still open get their terminal, and each resident    *)
(* package stays with these terminals or leaves with each of its items     *)
(* settled (Settles). What the invariant says of reports and places is     *)
(* shown once, of settlements; each handler is then shown to be one.       *)
(***************************************************************************)
EXTENDS WorkerWorksets, LeastElement, FiniteSetTheorems, TLAPS

(* The packages in the worker. *)
Resident == {active, staged} \ {None}
ResidentIds == {p.ws : p \in Resident}
Departed == DOMAIN draining \cup ended

(* The items of these packages that are still to be reported. *)
Open == UNION {{p.ws} \X Missing(p) : p \in Resident}

(* Items that hold, or may need, a place among the retained terminals. *)
Occupied == retained \cup Open \cup ItemsOf(pending, Live(pending))

(* Retained terminals of a workset. *)
RetainedOf(ws) == {item \in retained : item[1] = ws}

Types ==
    /\ pending \in Staging \cup {None}
    /\ active \in Package \cup {None} /\ staged \in Package \cup {None}
    /\ inv \in Invocation \cup {None}
    /\ retained \subseteq Items /\ accepted \subseteq Worksets
    /\ suppressed \subseteq Items /\ abandoned \subseteq Items /\ started \subseteq Items
    /\ report \in [Items -> {"none", "executed", "unstarted"}]

(* A workset is in one place. *)
Places ==
    /\ active # None /\ staged # None => active.ws # staged.ws
    /\ ResidentIds \cap Departed = {}
    /\ DOMAIN draining \cap ended = {} /\ summarised \subseteq ended
    /\ accepted = ResidentIds \cup Departed
    /\ pending # None => pending.ws \notin accepted

(* A draining workset waits for its retained terminals. *)
Counted ==
    /\ \A ws \in DOMAIN draining :
          draining[ws] = Cardinality(RetainedOf(ws)) /\ RetainedOf(ws) # {}
    /\ \A item \in retained : item[1] \in ResidentIds \cup DOMAIN draining

(* Which items have a report. *)
Reported ==
    /\ \A item \in retained : report[item] # "none"
    /\ \A item \in Items : report[item] # "none" =>
          item[1] \in accepted /\ item \notin suppressed \cup abandoned
    /\ \A item \in suppressed : item[1] \in accepted
    /\ \A item \in abandoned : item[1] \in Departed
    /\ \A p \in Resident : \A o \in Ordinals :
          /\ o \in p.terminal <=> report[<<p.ws, o>>] # "none"
          /\ o \in p.suppressed <=> <<p.ws, o>> \in suppressed
    /\ \A ws \in Departed : \A o \in Ordinals :
          <<ws, o>> \in suppressed \cup abandoned \/ report[<<ws, o>>] # "none"

(* The items before the next one are done with; a package that is not yet  *)
(* started has no item that was cancelled without a terminal, and once     *)
(* there is one no item is left to be started.                             *)
Unreported(p) == p.cancelled \ (p.terminal \cup p.suppressed)
Progress ==
    /\ \A p \in Resident :
          /\ p.suppressed \subseteq p.cancelled
          /\ \A o \in Ordinals : o < p.next => o \in p.terminal \cup p.suppressed
    /\ staged # None => Unreported(staged) = {}
    /\ turn = "activate" => active # None /\ Unreported(active) = {}
    /\ active # None /\ Unreported(active) # {} =>
          \A o \in Ordinals : o >= active.next =>
              o \in active.cancelled \cup active.terminal \/ (inv # None /\ o = inv.ord)

(* The invocation is that of the next item of the active package. *)
Invoked ==
    /\ inv # None => /\ active # None /\ inv.ord = active.next
                     /\ inv.ord \notin active.cancelled \cup active.terminal
    /\ turn \in {"activate", "stop"} => inv = None
    /\ \A job \in publications :
          inv # None /\ inv.phase = "finalizing" /\ job[1] = <<active.ws, inv.ord>>

(* An item that was started is executed or being executed. *)
Begun ==
    \A item \in started :
        \/ report[item] = "executed"
        \/ inv # None /\ inv.phase # "limbo" /\ item = <<active.ws, inv.ord>>

Reserved == Cardinality(Occupied) <= MaxTerminals

(* The inductive invariant. *)
WorksetsInv ==
    /\ Types /\ Places /\ Counted /\ Reported
    /\ Progress /\ Invoked /\ Begun /\ Reserved

-----------------------------------------------------------------------------
(* Settlements *)

(* A resident package p stays as q, with the terminals of T.               *)
Stays(p, q, T) ==
    /\ q.ws = p.ws /\ q.suppressed = p.suppressed
    /\ \A o \in Ordinals : o \in q.terminal <=> o \in p.terminal \/ <<p.ws, o>> \in T

(* It leaves as q: each item has a terminal, was left out at submission, or *)
(* is abandoned.                                                            *)
Leaves(p, q, T) ==
    /\ q # None /\ q.ws = p.ws /\ q.suppressed = p.suppressed
    /\ Unreported(q) \subseteq Ordinals
    /\ \A o \in Unreported(q) : o \notin p.terminal /\ <<p.ws, o>> \notin T
    /\ \A o \in Ordinals :
          o \in p.terminal \cup p.suppressed \cup Unreported(q) \/ <<p.ws, o>> \in T

(* The items of E are reported executed and those of U unstarted, the      *)
(* packages of P leave.                                                    *)
Settles(E, U, P) ==
    /\ Retain(E, U)
    /\ MoveToDraining(P) \/ (P = {} /\ UNCHANGED drainVars)
    /\ UNCHANGED <<accepted, suppressed>>
    /\ E \cup U \subseteq Open /\ E \cap U = {}
    /\ \A q \in Resident' : \E p \in Resident : Stays(p, q, E \cup U)
    /\ \A q \in P : \E p \in Resident : Leaves(p, q, E \cup U)
    /\ ResidentIds \subseteq ResidentIds' \cup {q.ws : q \in P}
    /\ ResidentIds' \cap {q.ws : q \in P} = {}

(* Nothing is admitted: what is staged for admission is as before, or      *)
(* given up.                                                               *)
NothingAdmitted ==
    pending' # None =>
        /\ pending # None
        /\ pending'.ws = pending.ws /\ pending'.suppressed = pending.suppressed

(* The packages of the invariant. *)
LEMMA PackageFacts ==
    ASSUME Types
    PROVE  /\ \A p \in Resident : p \in Package /\ p # None
           /\ \A p \in Resident :
                /\ p.ws \in Worksets /\ p.next \in 1 .. ItemCount + 1
                /\ p.suppressed \subseteq Ordinals /\ p.cancelled \subseteq Ordinals
                /\ p.terminal \subseteq Ordinals
                /\ Missing(p) = Ordinals \ (p.terminal \cup p.suppressed)
           /\ pending # None =>
                /\ pending.ws \in Worksets /\ pending.suppressed \subseteq Ordinals
                /\ ItemsOf(pending, Live(pending)) = {pending.ws} \X (Ordinals \ pending.suppressed)
           /\ inv # None => inv.ord \in Ordinals
           /\ Ordinals \subseteq Nat
  <1>1. \A p \in Resident : p \in Package /\ p # None
    BY DEF Types, Resident
  <1>2. \A p \in Package : /\ p.ws \in Worksets /\ p.next \in 1 .. ItemCount + 1
                           /\ p.suppressed \subseteq Ordinals /\ p.cancelled \subseteq Ordinals
                           /\ p.terminal \subseteq Ordinals
    BY DEF Package
  <1>3. \A p \in Resident : Missing(p) = Ordinals \ (p.terminal \cup p.suppressed)
    BY <1>1 DEF Missing
  <1>4. pending # None =>
           /\ pending.ws \in Worksets /\ pending.suppressed \subseteq Ordinals
           /\ ItemsOf(pending, Live(pending)) = {pending.ws} \X (Ordinals \ pending.suppressed)
    BY DEF Types, Staging, ItemsOf, Live
  <1>5. (inv # None => inv.ord \in Ordinals) /\ Ordinals \subseteq Nat
    BY WorksetsAssumption DEF Types, Invocation, Ordinals
  <1> QED BY <1>1, <1>2, <1>3, <1>4, <1>5

(* The open items are those of resident packages without a report. *)
LEMMA OpenFacts ==
    ASSUME Types, Places, Reported
    PROVE  /\ Open \subseteq Items
           /\ \A p \in Resident, o \in Ordinals :
                 <<p.ws, o>> \in Open <=> o \notin p.terminal \cup p.suppressed
           /\ \A item \in Open :
                 /\ item = <<item[1], item[2]>> /\ item[1] \in ResidentIds
                 /\ item \in Items /\ item[2] \in Ordinals /\ report[item] = "none"
                 /\ item \notin suppressed \cup abandoned
  <1>1. \A p \in Resident :
           /\ p.ws \in Worksets /\ Missing(p) = Ordinals \ (p.terminal \cup p.suppressed)
    BY PackageFacts
  <1>2. \A p, q \in Resident : p.ws = q.ws => p = q
    BY DEF Places, Resident
  <1>3. Open \subseteq Items
    BY <1>1 DEF Open, Items
  <1>4. \A p \in Resident, o \in Ordinals :
           <<p.ws, o>> \in Open <=> o \notin p.terminal \cup p.suppressed
    BY <1>1, <1>2 DEF Open
  <1>5. ASSUME NEW item \in Open
        PROVE  /\ item = <<item[1], item[2]>> /\ item[1] \in ResidentIds
               /\ item \in Items /\ item[2] \in Ordinals /\ report[item] = "none"
               /\ item \notin suppressed \cup abandoned
    <2>1. PICK p \in Resident : item \in {p.ws} \X Missing(p)
      BY <1>5 DEF Open
    <2>2. item = <<p.ws, item[2]>> /\ item[2] \in Ordinals \ (p.terminal \cup p.suppressed)
          /\ item[1] = p.ws
      BY <1>1, <2>1
    <2>3. item[1] \in ResidentIds /\ item \in Items
      BY <1>1, <2>2 DEF ResidentIds, Items
    <2>4. report[item] = "none" /\ item \notin suppressed
      BY <2>2 DEF Reported
    <2>5. item \notin abandoned
      BY <2>3 DEF Places, Reported
    <2> QED BY <2>2, <2>3, <2>4, <2>5
  <1> QED BY <1>3, <1>4, <1>5

(* Sets of items are finite. *)
LEMMA FiniteItems ==
    /\ IsFiniteSet(Items) /\ IsFiniteSet(Ordinals)
    /\ \A S : S \subseteq Items =>
          /\ IsFiniteSet(S) /\ Cardinality(S) \in Nat
          /\ Cardinality(S) = 0 <=> S = {}
          /\ \A T : T \subseteq S => Cardinality(T) <= Cardinality(S)
  <1>1. IsFiniteSet(Ordinals)
    BY WorksetsAssumption, FS_Interval DEF Ordinals
  <1>2. IsFiniteSet(Items)
    BY <1>1, WorksetsAssumption, FS_Product DEF Items
  <1>3. ASSUME NEW S, S \subseteq Items
        PROVE  /\ IsFiniteSet(S) /\ Cardinality(S) \in Nat
               /\ Cardinality(S) = 0 <=> S = {}
               /\ \A T : T \subseteq S => Cardinality(T) <= Cardinality(S)
    <2>1. IsFiniteSet(S)
      BY <1>2, <1>3, FS_Subset
    <2>2. Cardinality(S) \in Nat
      BY <2>1, FS_CardinalityType
    <2>3. Cardinality(S) = 0 <=> S = {}
      BY <2>1, FS_EmptySet
    <2>4. \A T : T \subseteq S => Cardinality(T) <= Cardinality(S)
      BY <2>1, FS_Subset
    <2> QED BY <2>1, <2>2, <2>3, <2>4
  <1> QED BY <1>1, <1>2, <1>3

(* The reports of a settlement. *)
LEMMA SettledReports ==
    ASSUME WorksetsInv, NEW E, NEW U, NEW P, Settles(E, U, P)
    PROVE  /\ retained' = retained \cup E \cup U /\ retained' \subseteq Items
           /\ report' \in [Items -> {"none", "executed", "unstarted"}]
           /\ \A item \in E : report'[item] = "executed"
           /\ \A item \in U : report'[item] = "unstarted"
           /\ \A item \in Items : item \notin E \cup U => report'[item] = report[item]
  <1>1. Open \subseteq Items /\ \A item \in Open : report[item] = "none"
    BY OpenFacts DEF WorksetsInv
  <1>2. retained \subseteq Items /\ report \in [Items -> {"none", "executed", "unstarted"}]
    BY DEF WorksetsInv, Types
  <1>3. Retain(E, U) /\ E \cup U \subseteq Open /\ E \cap U = {}
    BY DEF Settles
  <1> QED BY <1>1, <1>2, <1>3 DEF Retain

(* The worksets of a settlement: those of the packages that leave drain if *)
(* they have retained terminals, and end if not, summarised or not.         *)
LEMMA SettledPlaces ==
    ASSUME WorksetsInv, NEW E, NEW U, NEW P, Settles(E, U, P)
    PROVE  LET gone == {q.ws : q \in P}
           IN  /\ gone \subseteq ResidentIds /\ ResidentIds' = ResidentIds \ gone
               /\ DOMAIN draining' = DOMAIN draining \cup {ws \in gone : RetainedOf(ws)' # {}}
               /\ ended' = ended \cup {ws \in gone : RetainedOf(ws)' = {}}
               /\ summarised \subseteq summarised' /\ summarised' \subseteq ended'
               /\ \A ws \in gone \cap DOMAIN draining' :
                     draining'[ws] = Cardinality(RetainedOf(ws)')
               /\ \A ws \in DOMAIN draining : draining'[ws] = draining[ws]
               /\ Departed' = Departed \cup gone
  <1> DEFINE gone == {q.ws : q \in P}
  <1>1. gone \subseteq ResidentIds
    BY DEF Settles, Leaves, ResidentIds
  <1>2. ResidentIds' = ResidentIds \ gone
    <2>1. ResidentIds' \subseteq ResidentIds
      BY DEF Settles, Stays, ResidentIds
    <2> QED BY <2>1 DEF Settles
  <1>3. gone \cap DOMAIN draining = {}
    BY <1>1 DEF WorksetsInv, Places, Departed
  <1>4. \A ws : Unacknowledged(ws) = Cardinality(RetainedOf(ws)')
    BY DEF Unacknowledged, RetainedOf
  <1>5. \A ws : Cardinality(RetainedOf(ws)') = 0 <=> RetainedOf(ws)' = {}
    <2>1. \A ws : RetainedOf(ws)' \subseteq Items
      BY SettledReports DEF RetainedOf
    <2> QED BY <2>1, FiniteItems
  <1>6. CASE P = {} /\ UNCHANGED drainVars
    <2>1. gone = {}
      BY <1>6
    <2> QED BY <1>2, <1>6, <2>1 DEF drainVars, Departed, WorksetsInv, Places
  <1>7. CASE MoveToDraining(P)
    <2>1. draining' = [ws \in DOMAIN draining \cup (gone \ {ws \in gone : Unacknowledged(ws) = 0})
                         |-> IF ws \in gone THEN Unacknowledged(ws) ELSE draining[ws]]
      BY <1>7 DEF MoveToDraining
    <2>2. /\ ended' = ended \cup {ws \in gone : Unacknowledged(ws) = 0}
          /\ summarised \subseteq summarised' /\ summarised' \subseteq ended'
      BY <1>7 DEF MoveToDraining, Forget, WorksetsInv, Places
    <2> HIDE DEF gone
    <2>3. {ws \in gone : Unacknowledged(ws) = 0} = {ws \in gone : RetainedOf(ws)' = {}}
      BY <1>4, <1>5
    <2>4. DOMAIN draining' = DOMAIN draining \cup {ws \in gone : RetainedOf(ws)' # {}}
      BY <2>1, <2>3
    <2>5. \A ws \in gone \cap DOMAIN draining' : draining'[ws] = Cardinality(RetainedOf(ws)')
      BY <1>4, <2>1
    <2>6. \A ws \in DOMAIN draining : draining'[ws] = draining[ws]
      BY <1>3, <2>1
    <2>7. Departed' = Departed \cup gone
      BY <2>2, <2>3, <2>4 DEF Departed
    <2> QED BY <1>1, <1>2, <2>2, <2>3, <2>4, <2>5, <2>6, <2>7 DEF gone
  <1> QED BY <1>6, <1>7 DEF Settles

(* Items of worksets that have left are not touched any more. *)
LEMMA SettledElsewhere ==
    ASSUME WorksetsInv, NEW E, NEW U, NEW P, Settles(E, U, P),
           NEW ws, ws \notin ResidentIds
    PROVE  /\ RetainedOf(ws)' = RetainedOf(ws)
           /\ \A o \in Ordinals : <<ws, o>> \notin E \cup U
  <1>1. \A item \in E \cup U : item[1] \in ResidentIds
    BY OpenFacts DEF WorksetsInv, Settles
  <1>2. retained' = retained \cup E \cup U
    BY SettledReports
  <1>3. RetainedOf(ws)' = RetainedOf(ws)
    BY <1>1, <1>2 DEF RetainedOf
  <1> QED BY <1>1, <1>3

(* What a settlement abandons: the items that were cancelled only.         *)
LEMMA SettledAbandons ==
    ASSUME WorksetsInv, NEW E, NEW U, NEW P, Settles(E, U, P)
    PROVE  /\ abandoned' = abandoned \cup UNION {{q.ws} \X Unreported(q) : q \in P}
           /\ abandoned' \subseteq Items
           /\ \A item \in abandoned' : item[1] \in Departed' /\ report'[item] = "none"
           /\ \A q \in P, o \in Ordinals :
                 <<q.ws, o>> \in suppressed \cup abandoned' \/ report'[<<q.ws, o>>] # "none"
  <1> DEFINE more == UNION {{q.ws} \X Unreported(q) : q \in P}
             gone == {q.ws : q \in P}
  <1>1. \A q \in P : \E p \in Resident : Leaves(p, q, E \cup U)
    BY DEF Settles
  <1>2. \A p \in Resident : p # None /\ p.ws \in Worksets
    BY PackageFacts DEF WorksetsInv
  <1>3. abandoned' = abandoned \cup more
    <2>1. CASE P = {} /\ UNCHANGED drainVars
      BY <2>1 DEF drainVars
    <2>2. CASE MoveToDraining(P)
      <3>1. \A q \in P : ItemsOf(q, q.cancelled \ (q.terminal \cup q.suppressed))
                            = {q.ws} \X Unreported(q)
        BY <1>1 DEF Leaves, ItemsOf, Unreported
      <3> QED BY <2>2, <3>1 DEF MoveToDraining
    <2> QED BY <2>1, <2>2 DEF Settles
  <1>4. Departed' = Departed \cup {q.ws : q \in P}
    BY SettledPlaces
  <1>5. Departed \subseteq Departed' /\ \A q \in P : q.ws \in Departed'
    BY <1>4
  <1>6. ASSUME NEW q \in P, NEW o \in Unreported(q)
        PROVE  <<q.ws, o>> \in Items /\ report'[<<q.ws, o>>] = "none"
    <2>1. PICK p \in Resident : Leaves(p, q, E \cup U)
      BY <1>1
    <2>2. /\ o \in Ordinals /\ o \notin p.terminal \cup p.suppressed
          /\ <<p.ws, o>> \notin E \cup U /\ q.ws = p.ws
      BY <2>1, <1>6 DEF Leaves, Unreported
    <2>3. <<p.ws, o>> \in Items
      BY <1>2, <2>2 DEF Items
    <2>4. report[<<p.ws, o>>] = "none"
      BY <2>2 DEF WorksetsInv, Reported
    <2>5. report'[<<p.ws, o>>] = report[<<p.ws, o>>]
      BY <2>2, <2>3, SettledReports
    <2> QED BY <2>2, <2>3, <2>4, <2>5
  <1>7. \A item \in more : item \in Items /\ report'[item] = "none" /\ item[1] \in Departed'
    BY <1>5, <1>6
  <1>8. \A item \in abandoned : item \in Items /\ report'[item] = "none" /\ item[1] \in Departed'
    <2> SUFFICES ASSUME NEW item \in abandoned
                 PROVE  item \in Items /\ report'[item] = "none" /\ item[1] \in Departed'
      OBVIOUS
    <2>1. item \in Items /\ item[1] \in Departed
      BY DEF WorksetsInv, Types, Reported
    <2>2. report[item] = "none" /\ item \notin E \cup U
      BY <2>1, OpenFacts DEF WorksetsInv, Reported, Settles
    <2>3. report'[item] = report[item]
      BY <2>1, <2>2, SettledReports
    <2> QED BY <1>5, <2>1, <2>2, <2>3
  <1>9. ASSUME NEW q \in P, NEW o \in Ordinals
        PROVE  <<q.ws, o>> \in suppressed \cup abandoned' \/ report'[<<q.ws, o>>] # "none"
    <2>1. PICK p \in Resident : Leaves(p, q, E \cup U)
      BY <1>1
    <2>2. q.ws = p.ws /\ <<p.ws, o>> \in Items
      BY <1>2, <2>1 DEF Leaves, Items
    <2>3. CASE <<p.ws, o>> \in E \cup U
      BY <2>2, <2>3, SettledReports
    <2>4. CASE o \in Unreported(q)
      BY <1>3, <2>4
    <2>5. CASE o \in p.suppressed
      BY <2>2, <2>5 DEF WorksetsInv, Reported
    <2>6. CASE o \in p.terminal /\ <<p.ws, o>> \notin E \cup U
      BY <2>2, <2>6, SettledReports DEF WorksetsInv, Reported
    <2> QED BY <2>1, <2>3, <2>4, <2>5, <2>6 DEF Leaves
  <1> QED BY <1>3, <1>7, <1>8, <1>9

(* A settlement keeps each workset in one place, and the counts of the     *)
(* draining ones.                                                          *)
LEMMA SettledCounted ==
    ASSUME WorksetsInv, NEW E, NEW U, NEW P, Settles(E, U, P), NothingAdmitted,
           active' # None /\ staged' # None => active'.ws # staged'.ws
    PROVE  Places' /\ Counted'
  <1> DEFINE gone == {q.ws : q \in P}
  <1>1. /\ gone \subseteq ResidentIds /\ ResidentIds' = ResidentIds \ gone
        /\ DOMAIN draining' = DOMAIN draining \cup {ws \in gone : RetainedOf(ws)' # {}}
        /\ ended' = ended \cup {ws \in gone : RetainedOf(ws)' = {}}
        /\ summarised' \subseteq ended'
    BY SettledPlaces
  <1>2. /\ \A ws \in gone \cap DOMAIN draining' : draining'[ws] = Cardinality(RetainedOf(ws)')
        /\ \A ws \in DOMAIN draining : draining'[ws] = draining[ws]
    BY SettledPlaces
  <1> HIDE DEF gone
  <1>3. UNCHANGED accepted
    BY DEF Settles
  <1>4. Places'
    BY <1>1, <1>3 DEF WorksetsInv, Places, Departed, NothingAdmitted
  <1>5. \A ws \in DOMAIN draining' :
           draining'[ws] = Cardinality(RetainedOf(ws)') /\ RetainedOf(ws)' # {}
    <2> SUFFICES ASSUME NEW ws \in DOMAIN draining', ws \notin gone
                 PROVE  draining'[ws] = Cardinality(RetainedOf(ws)') /\ RetainedOf(ws)' # {}
      BY <1>1, <1>2 DEF WorksetsInv, Places, Departed
    <2>1. ws \in DOMAIN draining /\ ws \notin ResidentIds
      BY <1>1 DEF WorksetsInv, Places, Departed
    <2>2. RetainedOf(ws)' = RetainedOf(ws)
      BY <2>1, SettledElsewhere
    <2> QED BY <1>2, <2>1, <2>2 DEF WorksetsInv, Counted
  <1>6. ASSUME NEW item \in retained'
        PROVE  item[1] \in ResidentIds' \cup DOMAIN draining'
    <2>1. item[1] \in ResidentIds \cup DOMAIN draining
      <3>1. retained' = retained \cup E \cup U
        BY SettledReports
      <3>2. \A x \in E \cup U : x[1] \in ResidentIds
        BY OpenFacts DEF WorksetsInv, Settles
      <3> QED BY <1>6, <3>1, <3>2 DEF WorksetsInv, Counted
    <2>2. item \in RetainedOf(item[1])'
      BY <1>6 DEF RetainedOf
    <2> QED BY <1>1, <2>1, <2>2
  <1> QED BY <1>4, <1>5, <1>6 DEF Counted

(* A settlement keeps what is known of the reports.                        *)
LEMMA SettledReported ==
    ASSUME WorksetsInv, NEW E, NEW U, NEW P, Settles(E, U, P)
    PROVE  Reported'
  <1>1. /\ report' \in [Items -> {"none", "executed", "unstarted"}]
        /\ retained' = retained \cup E \cup U
        /\ \A item \in E \cup U : report'[item] # "none"
        /\ \A item \in Items : item \notin E \cup U => report'[item] = report[item]
    BY SettledReports
  <1>2. /\ \A item \in E \cup U : /\ item \in Items /\ item[1] \in ResidentIds
                                  /\ item \notin suppressed \cup abandoned
        /\ UNCHANGED <<accepted, suppressed>>
    BY OpenFacts DEF WorksetsInv, Settles
  <1>3. \A item \in retained' : report'[item] # "none"
    BY <1>1 DEF WorksetsInv, Reported, Types
  <1>4. \A item \in abandoned' : item[1] \in Departed' /\ report'[item] = "none"
    BY SettledAbandons
  <1>5. \A item \in Items : report'[item] # "none" =>
           item[1] \in accepted' /\ item \notin suppressed' \cup abandoned'
    <2> SUFFICES ASSUME NEW item \in Items, report'[item] # "none"
                 PROVE  item[1] \in accepted /\ item \notin suppressed \cup abandoned'
      BY <1>2
    <2>1. item \notin abandoned'
      BY <1>4
    <2>2. CASE item \in E \cup U
      BY <1>2, <2>1, <2>2 DEF WorksetsInv, Places
    <2>3. CASE item \notin E \cup U
      BY <1>1, <2>1, <2>3 DEF WorksetsInv, Reported
    <2> QED BY <2>2, <2>3
  <1>6. \A item \in suppressed' : item[1] \in accepted'
    BY <1>2 DEF WorksetsInv, Reported
  <1>7. ASSUME NEW q \in Resident', NEW o \in Ordinals
        PROVE  /\ o \in q.terminal <=> report'[<<q.ws, o>>] # "none"
               /\ o \in q.suppressed <=> <<q.ws, o>> \in suppressed'
    <2>1. PICK p \in Resident : Stays(p, q, E \cup U)
      BY DEF Settles
    <2>2. /\ q.ws = p.ws /\ q.suppressed = p.suppressed
          /\ o \in q.terminal <=> o \in p.terminal \/ <<p.ws, o>> \in E \cup U
      BY <2>1 DEF Stays
    <2>3. <<p.ws, o>> \in Items
      BY PackageFacts DEF WorksetsInv, Items
    <2>4. /\ o \in p.terminal <=> report[<<p.ws, o>>] # "none"
          /\ o \in p.suppressed <=> <<p.ws, o>> \in suppressed
      BY DEF WorksetsInv, Reported
    <2> QED BY <1>1, <1>2, <2>2, <2>3, <2>4
  <1>8. ASSUME NEW ws \in Departed', NEW o \in Ordinals
        PROVE  <<ws, o>> \in suppressed' \cup abandoned' \/ report'[<<ws, o>>] # "none"
    <2>1. CASE ws \in Departed
      <3>1. <<ws, o>> \notin E \cup U /\ <<ws, o>> \in Items
        <4>1. ws \notin ResidentIds /\ ws \in Worksets
          BY <2>1 DEF WorksetsInv, Places, Types
        <4> QED BY <4>1, SettledElsewhere DEF Items
      <3>2. abandoned \subseteq abandoned'
        BY SettledAbandons
      <3> QED BY <1>1, <1>2, <2>1, <3>1, <3>2 DEF WorksetsInv, Reported
    <2>2. CASE \E q \in P : q.ws = ws
      BY <1>2, <2>2, SettledAbandons
    <2>3. Departed' = Departed \cup {q.ws : q \in P}
      BY SettledPlaces
    <2> QED BY <2>1, <2>2, <2>3
  <1> QED BY <1>3, <1>4, <1>5, <1>6, <1>7, <1>8 DEF Reported

(* A settlement takes no place among the terminals that was not reserved.  *)
LEMMA SettledReserved ==
    ASSUME WorksetsInv, NEW E, NEW U, NEW P, Settles(E, U, P), NothingAdmitted, Types'
    PROVE  Reserved'
  <1>1. Open' \subseteq Open
    <2> SUFFICES ASSUME NEW q \in Resident', NEW o \in Missing(q)'
                 PROVE  <<q.ws, o>> \in Open
      BY DEF Open
    <2>1. o \in Ordinals /\ o \notin q.terminal \cup q.suppressed
      BY DEF Missing, Resident
    <2>2. PICK p \in Resident : Stays(p, q, E \cup U)
      BY DEF Settles
    <2> QED BY <2>1, <2>2, OpenFacts DEF WorksetsInv, Stays
  <1>2. retained' \subseteq retained \cup Open
    <2>1. retained' = retained \cup E \cup U
      BY SettledReports
    <2> QED BY <2>1 DEF Settles
  <1>3. ItemsOf(pending, Live(pending))' \subseteq ItemsOf(pending, Live(pending))
    BY DEF NothingAdmitted, ItemsOf, Live
  <1>4. Occupied' \subseteq Occupied
    BY <1>1, <1>2, <1>3 DEF Occupied
  <1>5. Occupied \subseteq Items
    BY OpenFacts, PackageFacts DEF WorksetsInv, Types, Occupied, Items, ItemsOf
  <1>6. Cardinality(Occupied') <= Cardinality(Occupied) /\ Cardinality(Occupied) \in Nat
        /\ Cardinality(Occupied') \in Nat
    <2>1. Occupied' \subseteq Items
      BY <1>4, <1>5
    <2> QED BY <1>4, <1>5, <2>1, FiniteItems
  <1> QED BY <1>6, WorksetsAssumption DEF WorksetsInv, Reserved

(* Where the worker goes on from: the packages and the invocation fit each *)
(* other again, and every started item is executed or being executed.      *)
Resumes(E) ==
    /\ NothingAdmitted
    /\ pending' \in Staging \cup {None} /\ inv' \in Invocation \cup {None}
    /\ active' \in Package \cup {None} /\ staged' \in Package \cup {None}
    /\ active' # None /\ staged' # None => active'.ws # staged'.ws
    /\ Progress' /\ Invoked'
    /\ \A item \in started' :
          \/ item \in E
          \/ item \in started /\ report[item] = "executed"
          \/ /\ inv' # None /\ inv'.phase # "limbo"
             /\ item = <<active'.ws, inv'.ord>> /\ item \in Items

(* What a step may do to the reports. *)
ReportStep ==
    /\ UNCHANGED <<accepted, suppressed>>
    /\ \A item \in Items : report'[item] = report[item] \/ item \in Open
    /\ abandoned \subseteq abandoned' /\ summarised \subseteq summarised'
    /\ Sound' => abandoned' = abandoned

(* A settlement from which the worker resumes keeps the invariant. *)
LEMMA SettlementKeeps ==
    ASSUME WorksetsInv, NEW E, NEW U, NEW P, Settles(E, U, P), Resumes(E),
           ~ Sound' \/ \A q \in P : Unreported(q) = {}
    PROVE  WorksetsInv' /\ ReportStep
  <1>1. /\ retained' \subseteq Items
        /\ report' \in [Items -> {"none", "executed", "unstarted"}]
    BY SettledReports
  <1>2. UNCHANGED <<accepted, suppressed>> /\ E \subseteq Open /\ U \subseteq Open
    BY DEF Settles
  <1>3. abandoned' \subseteq Items
    BY SettledAbandons
  <1>4. \A item \in E : item \in Items /\ report'[item] = "executed"
    BY <1>2, SettledReports, OpenFacts DEF WorksetsInv
  <1>5. ASSUME NEW item \in started'
        PROVE  /\ item \in Items
               /\ \/ report'[item] = "executed"
                  \/ inv' # None /\ inv'.phase # "limbo" /\ item = <<active'.ws, inv'.ord>>
    <2>1. CASE item \in E
      BY <1>4, <2>1
    <2>2. CASE item \in started /\ report[item] = "executed"
      <3>1. item \in Items
        BY <2>2 DEF WorksetsInv, Types
      <3>2. item \notin E \cup U
        BY <1>2, <2>2, OpenFacts DEF WorksetsInv
      <3> QED BY <2>2, <3>1, <3>2, SettledReports
    <2> QED BY <1>5, <2>1, <2>2 DEF Resumes
  <1>6. Types'
    BY <1>1, <1>2, <1>3, <1>5 DEF WorksetsInv, Types, Resumes
  <1>7. Places' /\ Counted'
    BY SettledCounted DEF Resumes
  <1>8. Reported' /\ Reserved'
    BY <1>6, SettledReported, SettledReserved DEF Resumes
  <1>9. Begun'
    BY <1>5 DEF Begun
  <1>10. ReportStep
    <2>1. \A item \in Items : report'[item] = report[item] \/ item \in Open
      BY <1>2, SettledReports
    <2>2. summarised \subseteq summarised'
      BY SettledPlaces
    <2>3. abandoned' = abandoned \cup UNION {{q.ws} \X Unreported(q) : q \in P}
      BY SettledAbandons
    <2>4. Sound' => abandoned' = abandoned
      BY <2>3
    <2> QED BY <1>2, <2>1, <2>2, <2>3, <2>4 DEF ReportStep
  <1> QED BY <1>6, <1>7, <1>8, <1>9, <1>10 DEF WorksetsInv, Resumes

(* The loop of StartNextWorksetItem over the items that were cancelled.    *)
LEMMA AdvanceFacts ==
    ASSUME WorksetsInv, active # None
    PROVE  /\ NextItem \in 1 .. ItemCount + 1
           /\ NextItem <= ItemCount =>
                 NextItem \in Ordinals /\ NextItem \notin active.cancelled \cup active.terminal
           /\ PassedOver \subseteq active.cancelled \ (active.terminal \cup active.suppressed)
           /\ \A o \in Ordinals : o < NextItem =>
                 o \in active.terminal \cup active.suppressed \cup PassedOver
           /\ \A o \in PassedOver : o >= active.next
           /\ NextItem >= active.next
  <1> DEFINE S == {o \in active.next .. ItemCount : o \notin active.cancelled \cup active.terminal}
                  \cup {ItemCount + 1}
  <1>1. active \in Resident
    BY DEF Resident
  <1>2. active.next \in 1 .. ItemCount + 1 /\ ItemCount \in Nat
    BY <1>1, PackageFacts, WorksetsAssumption DEF WorksetsInv
  <1>3. S \subseteq Nat /\ S # {}
    BY <1>2
  <1>4. PICK n \in S : \A m \in S : n <= m
    BY <1>3, LeastNat
  <1>5. NextItem \in S /\ \A m \in S : NextItem <= m
    BY <1>4 DEF NextItem, Min
  <1>6. /\ NextItem \in 1 .. ItemCount + 1 /\ NextItem >= active.next
        /\ NextItem <= ItemCount =>
              NextItem \in Ordinals /\ NextItem \notin active.cancelled \cup active.terminal
    BY <1>2, <1>5 DEF Ordinals
  <1>7. \A o \in Ordinals : active.next <= o /\ o < NextItem => o \in active.cancelled \cup active.terminal
    BY <1>2, <1>5, <1>6 DEF Ordinals
  <1> HIDE DEF S
  <1>8. /\ PassedOver \subseteq active.cancelled \ (active.terminal \cup active.suppressed)
        /\ \A o \in PassedOver : o >= active.next
    BY <1>2, <1>6 DEF PassedOver
  <1>9. ASSUME NEW o \in Ordinals, o < NextItem
        PROVE  o \in active.terminal \cup active.suppressed \cup PassedOver
    <2>1. CASE o < active.next
      BY <1>1, <2>1 DEF WorksetsInv, Progress
    <2>2. CASE active.next <= o
      <3>1. o \in active.next .. NextItem - 1
        BY <1>2, <1>6, <1>9, <2>2 DEF Ordinals
      <3> QED BY <1>7, <1>9, <2>2, <3>1 DEF PassedOver
    <2> QED BY <1>2, <2>1, <2>2 DEF Ordinals
  <1> QED BY <1>6, <1>8, <1>9

(* The package after this loop. *)
LEMMA AdvancedFacts ==
    ASSUME WorksetsInv, active # None
    PROVE  /\ Advanced \in Package
           /\ Advanced.ws = active.ws /\ Advanced.suppressed = active.suppressed
           /\ Advanced.cancelled = active.cancelled /\ Advanced.next = NextItem
           /\ Advanced.terminal = active.terminal \cup PassedOver
           /\ PassedItems = {active.ws} \X PassedOver
           /\ PassedItems \subseteq Open
           /\ Stays(active, Advanced, PassedItems)
  <1>1. active \in Resident /\ active \in Package
    BY DEF Resident, WorksetsInv, Types
  <1>2. /\ NextItem \in 1 .. ItemCount + 1
        /\ PassedOver \subseteq active.cancelled \ (active.terminal \cup active.suppressed)
    BY AdvanceFacts
  <1>3. PassedOver \subseteq Ordinals /\ active.terminal \subseteq Ordinals
    BY <1>1, <1>2, PackageFacts DEF WorksetsInv
  <1>4. /\ Advanced \in Package
        /\ Advanced.ws = active.ws /\ Advanced.suppressed = active.suppressed
        /\ Advanced.cancelled = active.cancelled /\ Advanced.next = NextItem
        /\ Advanced.terminal = active.terminal \cup PassedOver
    BY <1>1, <1>2, <1>3 DEF Advanced, Package
  <1>5. PassedItems = {active.ws} \X PassedOver
    BY DEF PassedItems, ItemsOf
  <1>6. PassedItems \subseteq Open
    BY <1>1, <1>2, <1>3, <1>5, OpenFacts DEF WorksetsInv
  <1>7. Stays(active, Advanced, PassedItems)
    BY <1>4, <1>5 DEF Stays
  <1> QED BY <1>4, <1>5, <1>6, <1>7

(* The package after the terminal of its item ord. *)
LEMMA AfterItemFacts ==
    ASSUME NEW p \in Package, NEW ord \in Ordinals
    PROVE  LET q == AfterItem(p, ord)
           IN  /\ q \in Package
               /\ q.ws = p.ws /\ q.suppressed = p.suppressed /\ q.cancelled = p.cancelled
               /\ q.next = ord + 1 /\ q.terminal = p.terminal \cup {ord}
  <1>1. ord + 1 \in 1 .. ItemCount + 1
    BY WorksetsAssumption DEF Ordinals
  <1> QED BY <1>1 DEF AfterItem, Package

-----------------------------------------------------------------------------
(* Packages that leave *)

(* EnterTainted: both packages leave. The caller has settled the items of  *)
(* E and U of the active package, which has become p.                      *)
LEMMA TaintKeeps ==
    ASSUME WorksetsInv, NEW p, NEW E, NEW U, EnterTainted(p, E, U),
           UNCHANGED <<pending, accepted, suppressed>>, turn' \in {"idle", "advance", "stop"},
           started' \subseteq started \cup E,
           E \cup U \subseteq Open, E \cap U = {},
           active = None => p = None /\ E \cup U = {},
           active # None =>
              /\ p \in Package /\ Stays(active, p, E \cup U)
              /\ p.suppressed \subseteq p.cancelled
              /\ \A o \in Ordinals : o < p.next => o \in p.terminal \cup p.suppressed
              /\ \A item \in E \cup U : item[1] = active.ws,
           inv # None => p = active /\ E \cup U = {}
    PROVE  WorksetsInv' /\ ReportStep
  <1> DEFINE mine == IF inv = None \/ p = None THEN {} ELSE {<<p.ws, inv.ord>>}
             left == IF mine = {} THEN p ELSE AfterItem(p, inv.ord)
             rest == IF p = None THEN {} ELSE ItemsOf(p, Remaining(left))
             other == ItemsOf(staged, Missing(staged))
             all == E \cup mine \cup U \cup rest \cup other
             gone == {left, staged} \ {None}
  <1>1. /\ Retain(E \cup mine, U \cup rest \cup other) /\ MoveToDraining(gone)
        /\ publications' = {j \in publications : j[1] \notin mine}
        /\ active' = None /\ staged' = None /\ inv' = None /\ worker' = "Tainted"
    BY DEF EnterTainted
  <1>2. Resident' = {} /\ ResidentIds' = {}
    BY <1>1 DEF Resident, ResidentIds
  <1>3. /\ active # None => active \in Resident /\ active.ws \in Worksets /\ p # None
        /\ staged # None => staged \in Resident /\ staged.ws \in Worksets
        /\ active # None /\ staged # None => active.ws # staged.ws
    BY PackageFacts, NoneAssumption DEF Resident, WorksetsInv, Places
  <1>4. inv # None =>
           /\ active # None /\ p = active /\ inv.ord \in Ordinals /\ inv.ord = active.next
           /\ inv.ord \notin active.cancelled \cup active.terminal \cup active.suppressed
           /\ mine = {<<active.ws, inv.ord>>}
    <2>1. inv # None => active # None /\ p = active /\ inv.ord = active.next
                        /\ inv.ord \notin active.cancelled \cup active.terminal
      BY DEF WorksetsInv, Invoked
    <2>2. inv # None => inv.ord \in Ordinals /\ inv.ord \notin active.suppressed
      BY <1>3, <2>1, PackageFacts DEF WorksetsInv, Progress
    <2> QED BY <2>1, <2>2, <1>3
  <1>5. inv = None => mine = {}
    OBVIOUS
  (* The active package as it leaves. *)
  <1>6. ASSUME active # None
        PROVE  /\ left # None /\ left.ws = active.ws /\ left.suppressed = active.suppressed
               /\ left.cancelled = p.cancelled /\ left.next \in Nat /\ left.next >= 1
               /\ left.suppressed \subseteq left.cancelled
               /\ \A o \in Ordinals : o \in left.terminal <=>
                     o \in active.terminal \/ <<active.ws, o>> \in E \cup mine \cup U
               /\ \A o \in Ordinals : o < left.next => o \in left.terminal \cup left.suppressed
               /\ left.cancelled \subseteq Ordinals
    <2>1. CASE inv = None
      <3>1. left = p /\ mine = {}
        BY <2>1
      <3>2. p.next \in Nat /\ p.next >= 1 /\ p.cancelled \subseteq Ordinals
        BY <1>6, WorksetsAssumption DEF Package
      <3> HIDE DEF mine, left
      <3> QED BY <1>3, <1>6, <3>1, <3>2 DEF Stays
    <2>2. CASE inv # None
      <3>1. left = AfterItem(active, inv.ord) /\ inv.ord \in Ordinals /\ active \in Package
            /\ mine = {<<active.ws, inv.ord>>} /\ E \cup U = {}
        BY <1>3, <1>4, <2>2 DEF WorksetsInv, Types
      <3> HIDE DEF mine, left
      <3>2. /\ left \in Package /\ left.ws = active.ws /\ left.suppressed = active.suppressed
            /\ left.cancelled = active.cancelled /\ left.next = inv.ord + 1
            /\ left.terminal = active.terminal \cup {inv.ord}
        BY <3>1, AfterItemFacts
      <3>3. \A o \in Ordinals : o < left.next => o < active.next \/ o = inv.ord
        BY <1>4, <2>2, <3>2, PackageFacts DEF WorksetsInv
      <3>4. /\ active.suppressed \subseteq active.cancelled
            /\ \A o \in Ordinals : o < active.next => o \in active.terminal \cup active.suppressed
        BY <1>3, <1>4, <2>2 DEF WorksetsInv, Progress
      <3>5. left # None /\ left.next \in Nat /\ left.next >= 1 /\ left.cancelled \subseteq Ordinals
        BY <3>1, <3>2, NoneAssumption DEF Package, Ordinals
      <3> QED BY <1>4, <2>2, <3>1, <3>2, <3>3, <3>4, <3>5
    <2> QED BY <2>1, <2>2
  <1>7. active = None => p = None /\ left = None /\ rest = {} /\ mine = {}
    BY <1>4
  <1>8. active # None => rest = {active.ws} \X Remaining(left)
    BY <1>3, <1>6 DEF ItemsOf, Stays
  <1>9. /\ staged # None => other = {staged.ws} \X Missing(staged)
        /\ staged = None => other = {}
    BY DEF ItemsOf
  <1> HIDE DEF mine, left, rest, other
  <1>10. active # None =>
            /\ Remaining(left) \subseteq Ordinals
            /\ \A o \in Ordinals : o \in Remaining(left) <=>
                  o >= left.next /\ o \notin left.cancelled \cup left.terminal
    BY <1>6, WorksetsAssumption DEF Remaining, Ordinals
  <1>11. /\ mine \subseteq Open /\ rest \subseteq Open /\ other \subseteq Open
    <2>1. mine \subseteq Open
      BY <1>3, <1>4, <1>5, OpenFacts DEF WorksetsInv
    <2>2. other \subseteq Open
      BY <1>3, <1>9 DEF Open
    <2>3. rest \subseteq Open
      <3> SUFFICES ASSUME active # None, NEW o \in Remaining(left)
                   PROVE  <<active.ws, o>> \in Open
        BY <1>7, <1>8
      <3>1. o \in Ordinals /\ o \notin active.terminal \cup active.suppressed
        BY <1>6, <1>10
      <3> QED BY <1>3, <3>1, OpenFacts DEF WorksetsInv
    <2> QED BY <2>1, <2>2, <2>3
  <1>12. (E \cup mine) \cap (U \cup rest \cup other) = {}
    <2>1. mine \cap U = {}
      BY <1>4, <1>5
    <2>2. (E \cup mine) \cap rest = {}
      BY <1>4, <1>5, <1>6, <1>7, <1>8, <1>10
    <2>3. (E \cup mine) \cap other = {}
      BY <1>3, <1>4, <1>5, <1>9
    <2> QED BY <2>1, <2>2, <2>3
  <1>13. active # None => Leaves(active, left, all)
    <2> SUFFICES ASSUME active # None
                 PROVE  Leaves(active, left, all)
      OBVIOUS
    <2>1. \A o \in Ordinals : <<active.ws, o>> \in all <=>
             <<active.ws, o>> \in E \cup mine \cup U \/ o \in Remaining(left)
      BY <1>3, <1>8, <1>9
    <2>2. Unreported(left) \subseteq Ordinals
      BY <1>6 DEF Unreported
    <2>3. \A o \in Unreported(left) : o \notin active.terminal /\ <<active.ws, o>> \notin all
      BY <1>6, <1>10, <2>1, <2>2 DEF Unreported
    <2>4. \A o \in Ordinals :
             o \in active.terminal \cup active.suppressed \cup Unreported(left)
             \/ <<active.ws, o>> \in all
      <3> SUFFICES ASSUME NEW o \in Ordinals, o \notin left.terminal \cup left.suppressed,
                          o \notin left.cancelled
                   PROVE  o \in Remaining(left)
        BY <1>6, <2>1 DEF Unreported
      <3>1. ~ (o < left.next) /\ o \in Nat
        BY <1>6, PackageFacts DEF WorksetsInv
      <3> QED BY <1>6, <1>10, <3>1
    <2> QED BY <1>6, <2>2, <2>3, <2>4 DEF Leaves
  <1>14. staged # None => Leaves(staged, staged, all)
    <2> SUFFICES ASSUME staged # None
                 PROVE  Leaves(staged, staged, all)
      OBVIOUS
    <2>1. Unreported(staged) = {}
      BY DEF WorksetsInv, Progress
    <2>2. \A o \in Ordinals :
             o \in staged.terminal \cup staged.suppressed \/ <<staged.ws, o>> \in all
      BY <1>9 DEF Missing
    <2> QED BY <2>1, <2>2 DEF Leaves
  <1>15. /\ \A q \in gone : \E x \in Resident : Leaves(x, q, all)
         /\ ResidentIds \subseteq {q.ws : q \in gone}
    <2>1. \A q \in gone : \E x \in Resident : Leaves(x, q, all)
      BY <1>3, <1>7, <1>13, <1>14
    <2>2. \A x \in Resident : \E q \in gone : q.ws = x.ws
      BY <1>6 DEF Resident
    <2> QED BY <2>1, <2>2 DEF ResidentIds
  <1>16. Settles(E \cup mine, U \cup rest \cup other, gone)
    <2>1. (E \cup mine) \cup (U \cup rest \cup other) = all
      OBVIOUS
    <2>2. (E \cup mine) \cup (U \cup rest \cup other) \subseteq Open
      BY <1>11
    <2> HIDE DEF all, gone
    <2> QED BY <1>1, <1>2, <1>12, <1>15, <2>1, <2>2 DEF Settles
  <1>17. Resumes(E \cup mine)
    <2>1. pending' \in Staging \cup {None} /\ NothingAdmitted
      BY DEF WorksetsInv, Types, NothingAdmitted
    <2>2. Progress'
      BY <1>1, <1>2 DEF Progress
    <2>3. publications' = {}
      BY <1>1, <1>4 DEF WorksetsInv, Invoked
    <2>4. Invoked'
      BY <1>1, <2>3 DEF Invoked
    <2>5. \A item \in started' : item \in E \cup mine \/ (item \in started /\ report[item] = "executed")
      BY <1>4 DEF WorksetsInv, Begun
    <2> QED BY <1>1, <2>1, <2>2, <2>4, <2>5 DEF Resumes
  <1>18. ~ Sound'
    BY <1>1 DEF Sound
  <1> QED BY <1>16, <1>17, <1>18, SettlementKeeps

(* FinishCurrentWorkset: the active package leaves as q, with the terminals *)
(* of U, and a staged one is promoted.                                      *)
LEMMA FinishKeeps ==
    ASSUME WorksetsInv, active # None, inv = None, NEW q, NEW U,
           Retain({}, U), FinishCurrentWorkset(q),
           U \subseteq Open, \A item \in U : item[1] = active.ws,
           Leaves(active, q, U), Unreported(q) = {},
           UNCHANGED <<inv, pending, accepted, suppressed, publications, started>>
    PROVE  WorksetsInv' /\ ReportStep
  <1>1. /\ MoveToDraining({q})
        /\ \/ active' = staged /\ staged' = None /\ turn' = "activate" /\ staged # None
           \/ active' = None /\ staged' = staged /\ turn' = "idle"
    BY DEF FinishCurrentWorkset
  <1>2. active \in Resident /\ (staged # None => active.ws # staged.ws /\ staged \in Resident)
    BY DEF Resident, WorksetsInv, Places
  <1>3. Resident' = {staged} \ {None}
    BY <1>1 DEF Resident
  <1>4. staged # None => Stays(staged, staged, U)
    BY <1>2 DEF Stays
  <1>5. /\ ResidentIds \subseteq ResidentIds' \cup {active.ws}
        /\ ResidentIds' \cap {active.ws} = {}
    BY <1>2, <1>3 DEF ResidentIds, Resident
  <1>6. Settles({}, U, {q})
    <2>1. q.ws = active.ws /\ {x.ws : x \in {q}} = {active.ws}
      BY DEF Leaves
    <2>2. \A x \in Resident' : \E p \in Resident : Stays(p, x, {} \cup U)
      BY <1>2, <1>3, <1>4
    <2>3. \A x \in {q} : \E p \in Resident : Leaves(p, x, {} \cup U)
      BY <1>2
    <2> QED BY <1>1, <1>5, <2>1, <2>2, <2>3 DEF Settles
  <1>7. Resumes({})
    <2>1. NothingAdmitted /\ pending' \in Staging \cup {None} /\ inv' \in Invocation \cup {None}
      BY DEF NothingAdmitted, WorksetsInv, Types
    <2>2. /\ active' \in Package \cup {None} /\ staged' \in Package \cup {None}
          /\ active' = None \/ staged' = None
      BY <1>1 DEF WorksetsInv, Types
    <2>3. Progress'
      BY <1>1, <1>2, <1>3 DEF WorksetsInv, Progress
    <2>4. Invoked'
      BY <1>1 DEF WorksetsInv, Invoked
    <2>5. \A item \in started' : item \in started /\ report[item] = "executed"
      BY DEF WorksetsInv, Begun
    <2> QED BY <2>1, <2>2, <2>3, <2>4, <2>5 DEF Resumes
  <1>8. \A x \in {q} : Unreported(x) = {}
    OBVIOUS
  <1> QED BY <1>6, <1>7, <1>8, SettlementKeeps

-----------------------------------------------------------------------------
(* Packages that stay *)

(* A step that leaves the reports alone reports no item. *)
LEMMA NothingRetained ==
    ASSUME WorksetsInv, UNCHANGED reportVars
    PROVE  Retain({}, {})
  BY DEF WorksetsInv, Types, Retain, reportVars

(* A step that only moves the worker, its turn or the invocation. *)
LEMMA StillKeeps ==
    ASSUME WorksetsInv,
           UNCHANGED <<packageVars, reportVars, drainVars, accepted, suppressed, publications,
                       started>>,
           NothingAdmitted, pending' \in Staging \cup {None},
           \/ inv' = inv
           \/ /\ inv # None /\ inv' \in Invocation
              /\ inv'.ord = inv.ord /\ inv'.phase = inv.phase,
           turn' = turn \/ turn' \in {"idle", "start", "advance"} \/ (turn' = "stop" /\ inv' = None)
    PROVE  WorksetsInv' /\ ReportStep
  <1>1. UNCHANGED <<active, staged>> /\ Resident' = Resident /\ ResidentIds' = ResidentIds
    BY DEF packageVars, Resident, ResidentIds
  <1>2. Settles({}, {}, {})
    <2>1. \A p : Stays(p, p, {} \cup {})
      BY DEF Stays
    <2> QED BY <1>1, <2>1, NothingRetained DEF Settles
  <1>3. inv' \in Invocation \cup {None} /\ (inv' = None <=> inv = None)
    BY NoneAssumption DEF WorksetsInv, Types
  <1>4. Progress'
    BY <1>1, <1>3 DEF WorksetsInv, Progress
  <1>5. Invoked'
    BY <1>1, <1>3 DEF WorksetsInv, Invoked
  <1>6. \A item \in started' :
           \/ item \in started /\ report[item] = "executed"
           \/ inv' # None /\ inv'.phase # "limbo" /\ item = <<active'.ws, inv'.ord>> /\ item \in Items
    BY <1>1, <1>3 DEF WorksetsInv, Begun, Types
  <1>7. Resumes({})
    BY <1>1, <1>3, <1>4, <1>5, <1>6 DEF Resumes, WorksetsInv, Types, Places
  <1> QED BY <1>2, <1>7, SettlementKeeps

(* What a package has to be for the worker to go on with it. *)
Fits(q) ==
    /\ q.suppressed \subseteq q.cancelled
    /\ \A o \in Ordinals : o < q.next => o \in q.terminal \cup q.suppressed
    /\ Unreported(q) # {} =>
          \A o \in Ordinals : o >= q.next =>
              o \in q.cancelled \cup q.terminal \/ (inv' # None /\ o = inv'.ord)

(* The active package becomes q, with the terminals of E and U. *)
LEMMA ActiveKeeps ==
    ASSUME WorksetsInv, active # None, NEW q \in Package, active' = q,
           UNCHANGED <<staged, pending, drainVars, accepted, suppressed>>,
           NEW E, NEW U, Retain(E, U), E \cup U \subseteq Open, E \cap U = {},
           \A item \in E \cup U : item[1] = active.ws,
           Stays(active, q, E \cup U), Fits(q), turn' # "activate",
           inv' \in Invocation \cup {None}, Invoked',
           \A item \in started' :
              \/ item \in E
              \/ item \in started /\ report[item] = "executed"
              \/ /\ inv' # None /\ inv'.phase # "limbo"
                 /\ item = <<active'.ws, inv'.ord>> /\ item \in Items
    PROVE  WorksetsInv' /\ ReportStep
  <1>1. /\ active \in Resident /\ (staged # None => active.ws # staged.ws /\ staged \in Resident)
        /\ q # None /\ q.ws = active.ws
    BY NoneAssumption DEF Resident, WorksetsInv, Places, Stays
  <1>2. Resident' = {q} \cup ({staged} \ {None}) /\ ResidentIds' = ResidentIds
    BY <1>1 DEF Resident, ResidentIds
  <1>3. staged # None => Stays(staged, staged, E \cup U)
    BY <1>1 DEF Stays
  <1>4. Settles(E, U, {})
    <2>1. \A x \in Resident' : \E p \in Resident : Stays(p, x, E \cup U)
      BY <1>1, <1>2, <1>3
    <2> QED BY <1>2, <2>1 DEF Settles
  <1>5. Progress'
    <2>1. \A x \in Resident' :
             /\ x.suppressed \subseteq x.cancelled
             /\ \A o \in Ordinals : o < x.next => o \in x.terminal \cup x.suppressed
      BY <1>1, <1>2 DEF Fits, WorksetsInv, Progress
    <2> QED BY <1>1, <2>1 DEF Progress, Fits, WorksetsInv
  <1>6. Resumes(E)
    <2>1. NothingAdmitted /\ pending' \in Staging \cup {None}
      BY DEF NothingAdmitted, WorksetsInv, Types
    <2>2. active' \in Package /\ staged' \in Package \cup {None}
          /\ (staged' # None => active'.ws # staged'.ws)
      BY <1>1 DEF WorksetsInv, Types
    <2> QED BY <1>5, <2>1, <2>2 DEF Resumes
  <1> QED BY <1>4, <1>6, SettlementKeeps

(* CloseActiveWorksetAdmissionAfterPublication: no later item is left to   *)
(* be started.                                                             *)
LEMMA CloseAdmissionFacts ==
    ASSUME WorksetsInv, inv # None
    PROVE  LET q == CloseAdmission(active, inv.ord)
           IN  /\ q \in Package /\ q.ws = active.ws /\ q.suppressed = active.suppressed
               /\ q.terminal = active.terminal /\ q.next = active.next
               /\ active.cancelled \subseteq q.cancelled /\ inv.ord \notin q.cancelled
               /\ Unreported(q) # {} => \A o \in Ordinals : o >= q.next =>
                     o \in q.cancelled \cup q.terminal \/ o = inv.ord
  <1> DEFINE q == CloseAdmission(active, inv.ord)
             later == {o \in active.next .. ItemCount : o # inv.ord /\ o \notin active.terminal}
  <1>1. /\ active # None /\ inv.ord = active.next /\ active \in Package
        /\ inv.ord \notin active.cancelled \cup active.terminal
    BY DEF WorksetsInv, Invoked, Types
  <1>2. active.next \in 1 .. ItemCount + 1 /\ ItemCount \in Nat
    BY <1>1, WorksetsAssumption DEF Package
  <1>3. CASE active.closed
    <2>1. q = active
      BY <1>3 DEF CloseAdmission
    <2> QED BY <1>1, <2>1 DEF WorksetsInv, Progress
  <1>4. CASE ~ active.closed
    <2>1. q = [active EXCEPT !.closed = TRUE, !.cancelled = @ \cup later]
      BY <1>4 DEF CloseAdmission
    <2>2. later \subseteq Ordinals /\ inv.ord \notin later
      BY <1>2 DEF Ordinals
    <2>3. \A o \in Ordinals : o >= active.next => o \in later \cup active.terminal \/ o = inv.ord
      BY <1>2 DEF Ordinals
    <2> HIDE DEF later
    <2>4. /\ q \in Package /\ q.ws = active.ws /\ q.suppressed = active.suppressed
          /\ q.terminal = active.terminal /\ q.next = active.next
          /\ q.cancelled = active.cancelled \cup later
      BY <1>1, <2>1, <2>2 DEF Package
    <2> QED BY <1>1, <2>2, <2>3, <2>4
  <1> QED BY <1>3, <1>4

(* The terminal of the active item is retained and the item is closed: the *)
(* end of an invocation. *)
LEMMA CloseItemKeeps ==
    ASSUME WorksetsInv, inv # None, NEW p, CloseItem(p),
           p = active \/ p = CloseAdmission(active, inv.ord),
           UNCHANGED <<staged, pending, drainVars, accepted, suppressed, started>>,
           publications' = {}
    PROVE  WorksetsInv' /\ ReportStep
  <1>1. /\ active # None /\ active \in Resident /\ active \in Package
        /\ inv.ord = active.next /\ inv.ord \in Ordinals
        /\ inv.ord \notin active.cancelled \cup active.terminal
    BY PackageFacts DEF WorksetsInv, Invoked, Types, Resident
  <1>2. /\ p \in Package /\ p.ws = active.ws /\ p.suppressed = active.suppressed
        /\ p.terminal = active.terminal /\ p.next = active.next
        /\ active.cancelled \subseteq p.cancelled /\ inv.ord \notin p.cancelled
        /\ Unreported(p) # {} => \A o \in Ordinals : o >= p.next =>
              o \in p.cancelled \cup p.terminal \/ o = inv.ord
    <2>1. CASE p = active
      BY <1>1, <2>1 DEF WorksetsInv, Progress
    <2> QED BY <2>1, CloseAdmissionFacts
  <1>3. /\ active.suppressed \subseteq active.cancelled
        /\ \A o \in Ordinals : o < active.next => o \in active.terminal \cup active.suppressed
    BY <1>1 DEF WorksetsInv, Progress
  <1> DEFINE q == AfterItem(p, inv.ord)
  <1>4. /\ q \in Package
        /\ q.ws = active.ws /\ q.suppressed = active.suppressed /\ q.cancelled = p.cancelled
        /\ q.next = inv.ord + 1 /\ q.terminal = active.terminal \cup {inv.ord}
    BY <1>1, <1>2, AfterItemFacts
  <1>5. /\ Retain({ActiveItem}, {}) /\ active' = q /\ inv' = None
        /\ turn' \in {"stop", "start"}
    BY DEF CloseItem
  <1> HIDE DEF q
  <1>6. ActiveItem = <<active.ws, inv.ord>> /\ ActiveItem \in Open
    BY <1>1, <1>3, OpenFacts DEF WorksetsInv, ActiveItem
  <1>7. Stays(active, q, {ActiveItem} \cup {})
    BY <1>4, <1>6 DEF Stays
  <1>8. Fits(q)
    <2>1. \A o \in Ordinals : /\ o < q.next => o < active.next \/ o = inv.ord
                              /\ o >= q.next => o >= active.next /\ o # inv.ord
      BY <1>1, <1>4, PackageFacts DEF WorksetsInv
    <2>2. Unreported(q) \subseteq Unreported(p)
      BY <1>2, <1>4 DEF Unreported
    <2> QED BY <1>2, <1>3, <1>4, <2>1, <2>2 DEF Fits
  <1>9. Invoked'
    BY <1>5 DEF Invoked
  <1>10. \A item \in started' : item \in {ActiveItem} \/ (item \in started /\ report[item] = "executed")
    BY <1>6 DEF WorksetsInv, Begun
  <1>11. \A item \in {ActiveItem} \cup {} : item[1] = active.ws
    BY <1>6
  <1> QED BY <1>1, <1>4, <1>5, <1>6, <1>7, <1>8, <1>9, <1>10, <1>11, ActiveKeeps

-----------------------------------------------------------------------------
(* The handlers: submission and staging *)

(* The credits leave a place for the terminal of every item that occupies one. *)
LEMMA OccupiedCount ==
    ASSUME Types, Places, Reported
    PROVE  /\ Occupied \subseteq Items
           /\ Cardinality(Occupied) = Cardinality(retained) + ResidentItemCount
           /\ Cardinality(retained) \in Nat /\ ResidentItemCount \in Nat
  <1> DEFINE A == ItemsOf(active, Missing(active))
             B == ItemsOf(staged, Missing(staged))
             C == ItemsOf(pending, Live(pending))
  <1>1. ASSUME NEW ws, NEW S \in SUBSET Ordinals
        PROVE  Cardinality({ws} \X S) = Cardinality(S) /\ Cardinality(S) \in Nat
    <2>1. IsFiniteSet(S) /\ IsFiniteSet({ws}) /\ Cardinality({ws}) = 1
      BY FiniteItems, FS_Subset, FS_Singleton
    <2>2. Cardinality(S) \in Nat
      BY <2>1, FS_CardinalityType
    <2> QED BY <2>1, <2>2, FS_Product
  <1>2. Cardinality({}) = 0
    BY FS_EmptySet
  <1>3. Missing(active) \subseteq Ordinals /\ Missing(staged) \subseteq Ordinals
        /\ Live(pending) \subseteq Ordinals
    BY DEF Missing, Live
  <1>4. /\ Cardinality(A) = Cardinality(Missing(active)) /\ Cardinality(Missing(active)) \in Nat
        /\ active = None => A = {}
        /\ active # None => A = {active.ws} \X Missing(active)
    BY <1>1, <1>2, <1>3 DEF ItemsOf, Missing
  <1>5. /\ Cardinality(B) = Cardinality(Missing(staged)) /\ Cardinality(Missing(staged)) \in Nat
        /\ staged = None => B = {}
        /\ staged # None => B = {staged.ws} \X Missing(staged)
    BY <1>1, <1>2, <1>3 DEF ItemsOf, Missing
  <1>6. /\ Cardinality(C) = Cardinality(Live(pending)) /\ Cardinality(Live(pending)) \in Nat
        /\ pending = None => C = {}
        /\ pending # None => C = {pending.ws} \X Live(pending)
    BY <1>1, <1>2, <1>3 DEF ItemsOf, Live
  <1>7. A \subseteq Items /\ B \subseteq Items /\ C \subseteq Items /\ retained \subseteq Items
    BY <1>3, <1>4, <1>5, <1>6, PackageFacts DEF Types, Items, Resident
  <1> HIDE DEF A, B, C
  <1>8. Occupied = ((retained \cup A) \cup B) \cup C /\ A \subseteq Open /\ B \subseteq Open
    BY <1>4, <1>5 DEF Occupied, Open, Resident, C
  <1>9. retained \cap A = {} /\ (retained \cup A) \cap B = {}
    <2>1. \A item \in retained : item \notin Open
      BY OpenFacts DEF Reported
    <2>2. A \cap B = {}
      BY <1>4, <1>5 DEF Places
    <2> QED BY <1>8, <2>1, <2>2
  <1>10. ((retained \cup A) \cup B) \cap C = {}
    <2>1. \A item \in retained \cup A \cup B : item[1] \in accepted
      BY <1>7, <1>8, OpenFacts DEF Reported, Places
    <2>2. \A item \in C : item[1] \notin accepted
      BY <1>6 DEF Places
    <2> QED BY <2>1, <2>2
  <1>11. ASSUME NEW S \in SUBSET Items, NEW T \in SUBSET Items, S \cap T = {}
         PROVE  Cardinality(S \cup T) = Cardinality(S) + Cardinality(T)
    <2>1. IsFiniteSet(S) /\ IsFiniteSet(T) /\ Cardinality(S) \in Nat /\ Cardinality(T) \in Nat
      BY FiniteItems
    <2>2. Cardinality(S \cup T) = Cardinality(S) + Cardinality(T) - Cardinality(S \cap T)
      BY <2>1, FS_Union
    <2>3. Cardinality(S \cap T) = 0
      BY <1>2, <1>11
    <2> QED BY <2>1, <2>2, <2>3
  <1>12. Cardinality(Occupied)
            = ((Cardinality(retained) + Cardinality(A)) + Cardinality(B)) + Cardinality(C)
    <2>1. Cardinality(retained \cup A) = Cardinality(retained) + Cardinality(A)
      BY <1>7, <1>9, <1>11
    <2>2. Cardinality((retained \cup A) \cup B) = Cardinality(retained \cup A) + Cardinality(B)
      <3>1. retained \cup A \in SUBSET Items
        BY <1>7
      <3> QED BY <1>7, <1>9, <1>11, <3>1
    <2>3. Cardinality(((retained \cup A) \cup B) \cup C)
             = Cardinality((retained \cup A) \cup B) + Cardinality(C)
      <3>1. (retained \cup A) \cup B \in SUBSET Items
        BY <1>7
      <3> QED BY <1>7, <1>10, <1>11, <3>1
    <2> QED BY <1>8, <2>1, <2>2, <2>3
  <1>13. Cardinality(retained) \in Nat
    BY <1>7, FiniteItems
  <1> QED BY <1>4, <1>5, <1>6, <1>7, <1>8, <1>12, <1>13 DEF ResidentItemCount

(* HandleSubmitWorkset reserves a place for the terminal of each item. *)
LEMMA SubmitKeeps ==
    ASSUME WorksetsInv, NEW ws \in Worksets, NEW sup \in SUBSET Ordinals,
           HandleSubmitWorkset(ws, sup)
    PROVE  WorksetsInv' /\ ReportStep
  <1>1. /\ pending = None /\ ws \notin accepted
        /\ pending' = [ws |-> ws, suppressed |-> sup, cancelled |-> FALSE]
        /\ Cardinality(Ordinals \ sup) <= AvailableItemCredits
        /\ UNCHANGED <<worker, turn, active, staged, inv, retained, report, draining, ended>>
        /\ UNCHANGED <<summarised, abandoned, accepted, publications, started, suppressed>>
    BY DEF HandleSubmitWorkset, sessionVars, packageVars, reportVars, drainVars, outputVars
  <1>2. pending' \in Staging /\ pending' # None
    <2>1. [ws |-> ws, suppressed |-> sup, cancelled |-> FALSE] \in Staging
      BY DEF Staging
    <2> QED BY <1>1, <2>1, NoneAssumption
  <1>3. /\ Resident' = Resident /\ ResidentIds' = ResidentIds /\ Departed' = Departed
        /\ Open' = Open
    BY <1>1 DEF Resident, ResidentIds, Departed, Open, Missing
  <1>4. Types'
    BY <1>1, <1>2 DEF WorksetsInv, Types
  <1>5. Places'
    BY <1>1, <1>3 DEF WorksetsInv, Places
  <1>6. Counted' /\ Reported'
    BY <1>1, <1>3 DEF WorksetsInv, Counted, Reported, RetainedOf
  <1>7. Progress' /\ Invoked' /\ Begun'
    BY <1>1, <1>3 DEF WorksetsInv, Progress, Invoked, Begun
  <1>8. Reserved'
    <2> DEFINE n == Cardinality(Ordinals \ sup)
    <2>1. /\ Cardinality(Occupied') = Cardinality(retained') + ResidentItemCount'
          /\ Cardinality(retained) \in Nat /\ ResidentItemCount \in Nat
          /\ Cardinality(Occupied) = Cardinality(retained) + ResidentItemCount
      <3>1. /\ Cardinality(retained) \in Nat /\ ResidentItemCount \in Nat
            /\ Cardinality(Occupied) = Cardinality(retained) + ResidentItemCount
        BY OccupiedCount DEF WorksetsInv
      <3>2. (Types /\ Places /\ Reported
               => Cardinality(Occupied) = Cardinality(retained) + ResidentItemCount)'
        BY OccupiedCount, PTL
      <3> QED BY <1>4, <1>5, <1>6, <3>1, <3>2
    <2>2. ResidentItemCount' = ResidentItemCount + n /\ n \in Nat
      <3>1. Live(pending) = {} /\ Live(pending)' = Ordinals \ sup
        BY <1>1, <1>2 DEF Live
      <3>2. Cardinality({}) = 0 /\ n \in Nat
        BY FS_EmptySet, FiniteItems, FS_Difference, FS_CardinalityType
      <3>3. Cardinality(Missing(active)) \in Nat /\ Cardinality(Missing(staged)) \in Nat
        BY FiniteItems, FS_Difference, FS_CardinalityType, FS_EmptySet DEF Missing
      <3>4. Missing(active)' = Missing(active) /\ Missing(staged)' = Missing(staged)
        BY <1>1 DEF Missing
      <3> QED BY <3>1, <3>2, <3>3, <3>4 DEF ResidentItemCount
    <2>3. n <= PositivePart(MaxTerminals - (Cardinality(retained) + ResidentItemCount))
      <3> DEFINE x == PositivePart(MaxCredits - CreditedItemCount)
                 y == PositivePart(MaxTerminals - (Cardinality(retained) + ResidentItemCount))
      <3>1. CreditedItemCount \in Nat
        <4>1. {j[1] : j \in publications} \subseteq Items
          <5> SUFFICES ASSUME NEW j \in publications
                       PROVE  j[1] \in Items
            OBVIOUS
          <5>1. j[1] = <<active.ws, inv.ord>> /\ inv # None /\ active \in Resident
            BY DEF WorksetsInv, Invoked, Resident
          <5>2. active.ws \in Worksets /\ inv.ord \in Ordinals
            BY <5>1, PackageFacts DEF WorksetsInv
          <5> QED BY <5>1, <5>2 DEF Items
        <4>2. /\ ItemsOf(active, Missing(active)) \subseteq Items
              /\ ItemsOf(staged, Missing(staged)) \subseteq Items
              /\ ItemsOf(pending, Live(pending)) \subseteq Items
          BY PackageFacts DEF WorksetsInv, ItemsOf, Items, Resident
        <4> QED BY <4>1, <4>2, FiniteItems DEF CreditedItemCount, WorksetsInv, Types
      <3>2. x \in Nat /\ y \in Nat
        BY <2>1, <3>1, WorksetsAssumption DEF PositivePart
      <3> HIDE DEF x, y
      <3>3. \E m \in {x, y} : \A k \in {x, y} : m <= k
        BY <3>2
      <3>4. Min({x, y}) <= y
        BY <3>3 DEF Min
      <3> QED BY <1>1, <2>2, <3>2, <3>3, <3>4 DEF AvailableItemCredits, x, y, Min
    <2> QED BY <1>1, <2>1, <2>2, <2>3, WorksetsAssumption DEF Reserved, WorksetsInv, PositivePart
  <1>9. ReportStep
    BY <1>1 DEF ReportStep
  <1> QED BY <1>4, <1>5, <1>6, <1>7, <1>8, <1>9 DEF WorksetsInv

(* DrainWorksetStager admits: the workset moves from staging to a package, *)
(* and its items keep their places among the terminals.                    *)
LEMMA AdmitKeeps ==
    ASSUME WorksetsInv, StagingAdmitted
    PROVE  /\ WorksetsInv'
           /\ pending.ws \in Worksets \ accepted /\ accepted' = accepted \cup {pending.ws}
           /\ \E S \in SUBSET ({pending.ws} \X Ordinals) : suppressed' = suppressed \cup S
           /\ UNCHANGED <<report, summarised, abandoned>>
  <1> DEFINE p == [ws |-> pending.ws, next |-> 1, suppressed |-> pending.suppressed,
                   cancelled |-> pending.suppressed, terminal |-> {}, closed |-> FALSE,
                   phase |-> "Admitted"]
             ws == pending.ws
             more == {ws} \X pending.suppressed
  <1>1. /\ pending # None /\ staged = None
        /\ \/ active = None /\ inv = None /\ active' = p /\ staged' = None
           \/ active' = active /\ staged' = p /\ (active # None \/ inv # None)
        /\ turn' = "activate" => active = None /\ inv = None /\ active' = p
        /\ turn' = "stop" => turn = "stop"
        /\ accepted' = accepted \cup {ws} /\ suppressed' = suppressed \cup more
        /\ pending' = None
        /\ UNCHANGED <<inv, retained, report, draining, ended, summarised, abandoned, publications,
                       started>>
    BY DEF StagingAdmitted, ItemsOf, sessionVars, reportVars, drainVars, outputVars
  <1>2. ws \in Worksets /\ ws \notin accepted /\ pending.suppressed \subseteq Ordinals
    BY <1>1, PackageFacts DEF WorksetsInv, Places
  <1>3. /\ p \in Package /\ p # None
        /\ p.ws = ws /\ p.next = 1 /\ p.suppressed = pending.suppressed /\ p.terminal = {}
        /\ p.cancelled = pending.suppressed
    <2>1. 1 \in 1 .. ItemCount + 1
      BY WorksetsAssumption
    <2>2. p \in Package
      BY <1>2, <2>1 DEF Package
    <2> QED BY <2>2, NoneAssumption
  <1> HIDE DEF p, ws, more
  <1>4. inv # None => active # None
    BY DEF WorksetsInv, Invoked
  <1>5. Resident' = Resident \cup {p} /\ active \in {None, active'}
    BY <1>1, <1>3, <1>4 DEF Resident
  <1>6. ResidentIds' = ResidentIds \cup {ws} /\ Departed' = Departed
    <2>1. ResidentIds' = ResidentIds \cup {ws}
      BY <1>3, <1>5 DEF ResidentIds
    <2> QED BY <1>1, <2>1 DEF Departed
  <1>7. more \subseteq Items /\ \A item \in more : item[1] = ws
    BY <1>2 DEF more, Items
  <1>8. Types'
    BY <1>1, <1>2, <1>3, <1>7 DEF WorksetsInv, Types
  <1>9. Places'
    <2>1. active' # None /\ staged' # None => active'.ws # staged'.ws
      BY <1>1, <1>2, <1>3 DEF WorksetsInv, Places, ResidentIds, Resident
    <2> QED BY <1>1, <1>2, <1>6, <2>1 DEF WorksetsInv, Places, Departed
  <1>10. Counted'
    BY <1>1, <1>6 DEF WorksetsInv, Counted, RetainedOf
  <1>11. Reported'
    <2>1. /\ \A item \in Items : report[item] # "none" =>
                item[1] \in accepted' /\ item \notin suppressed' \cup abandoned
          /\ \A item \in suppressed' : item[1] \in accepted'
      BY <1>1, <1>2, <1>7 DEF WorksetsInv, Reported
    <2>2. \A o \in Ordinals : /\ report[<<ws, o>>] = "none"
                              /\ <<ws, o>> \in suppressed' <=> o \in pending.suppressed
      <3>1. \A o \in Ordinals : <<ws, o>> \in Items
        BY <1>2 DEF Items
      <3> QED BY <1>1, <1>2, <3>1 DEF WorksetsInv, Reported, more
    <2>3. \A q \in Resident : \A o \in Ordinals :
             /\ o \in q.terminal <=> report[<<q.ws, o>>] # "none"
             /\ o \in q.suppressed <=> <<q.ws, o>> \in suppressed'
      <3>1. \A q \in Resident : q.ws # ws
        BY <1>2 DEF WorksetsInv, Places, ResidentIds
      <3> QED BY <1>1, <1>7, <3>1 DEF WorksetsInv, Reported
    <2>4. \A w \in Departed : \A o \in Ordinals :
             <<w, o>> \in suppressed' \cup abandoned \/ report[<<w, o>>] # "none"
      BY <1>1 DEF WorksetsInv, Reported
    <2>5. \A q \in Resident' : \A o \in Ordinals :
             /\ o \in q.terminal <=> report[<<q.ws, o>>] # "none"
             /\ o \in q.suppressed <=> <<q.ws, o>> \in suppressed'
      BY <1>3, <1>5, <2>2, <2>3
    <2> QED BY <1>1, <1>6, <2>1, <2>4, <2>5 DEF WorksetsInv, Reported
  <1>12. Progress'
    <2>1. Unreported(p) = {}
      BY <1>3 DEF Unreported
    <2>2. \A o \in Ordinals : ~ (o < p.next)
      BY <1>3, WorksetsAssumption DEF Ordinals
    <2>3. \A q \in Resident' :
             /\ q.suppressed \subseteq q.cancelled
             /\ \A o \in Ordinals : o < q.next => o \in q.terminal \cup q.suppressed
      BY <1>3, <1>5, <2>2 DEF WorksetsInv, Progress
    <2> QED BY <1>1, <1>3, <2>1, <2>3 DEF WorksetsInv, Progress
  <1>13. Invoked' /\ Begun'
    BY <1>1, <1>4 DEF WorksetsInv, Invoked, Begun
  <1>14. Reserved'
    <2>1. Open' = Open \cup ({ws} \X (Ordinals \ pending.suppressed))
      <3>1. Missing(p) = Ordinals \ pending.suppressed
        BY <1>3 DEF Missing
      <3>2. Open' = UNION {{q.ws} \X Missing(q) : q \in Resident'}
        BY DEF Open, Missing
      <3> QED BY <1>3, <1>5, <3>1, <3>2 DEF Open
    <2>2. /\ ItemsOf(pending, Live(pending)) = {ws} \X (Ordinals \ pending.suppressed)
          /\ ItemsOf(pending, Live(pending))' = {}
      BY <1>1, PackageFacts DEF WorksetsInv, ItemsOf, ws
    <2>3. Occupied' = Occupied
      BY <1>1, <2>1, <2>2 DEF Occupied
    <2> QED BY <2>3 DEF WorksetsInv, Reserved
  <1>15. more \in SUBSET ({pending.ws} \X Ordinals)
    BY <1>2 DEF more, ws
  <1> QED BY <1>1, <1>2, <1>8, <1>9, <1>10, <1>11, <1>12, <1>13, <1>14, <1>15
          DEF WorksetsInv, ws

(* The steps that report nothing and leave the packages alone. *)
Moves ==
    \/ StagingRejected \/ BeginReadyWorksetExecution \/ StartBlocked \/ CancelActiveItem
    \/ CancelPendingWorkset \/ HandleShutdown \/ ShutdownWaits \/ ShutdownFinishes
    \/ (HandleCancel /\ Cancellable) \/ (ShutdownCancels /\ Cancellable)
    \/ (ForceStop /\ inv = None)

(* Such a step keeps the invariant. *)
LEMMA MovesKeep ==
    ASSUME WorksetsInv, Moves
    PROVE  WorksetsInv' /\ ReportStep
  <1>1. ASSUME inv # None, NEW t \in {"external", "shutdown"}
        PROVE  LET i == [inv EXCEPT !.token = t]
               IN  i \in Invocation /\ i.ord = inv.ord /\ i.phase = inv.phase
    BY <1>1 DEF WorksetsInv, Types, Invocation
  <1>2. CASE StagingRejected
    <2>1. NothingAdmitted /\ pending' \in Staging \cup {None} /\ inv' = inv /\ turn' = turn
      BY <1>2 DEF StagingRejected, NothingAdmitted
    <2> QED BY <1>2, <2>1, StillKeeps DEF StagingRejected, outputVars
  <1>3. CASE CancelPendingWorkset
    <2>1. pending \in Staging
      BY <1>3 DEF CancelPendingWorkset, WorksetsInv, Types
    <2>2. pending' = [pending EXCEPT !.cancelled = TRUE]
      BY <1>3 DEF CancelPendingWorkset
    <2>3. pending' \in Staging /\ pending'.ws = pending.ws
          /\ pending'.suppressed = pending.suppressed
      BY <2>1, <2>2 DEF Staging
    <2>4. NothingAdmitted /\ inv' = inv /\ turn' = turn
      BY <1>3, <2>3 DEF CancelPendingWorkset, NothingAdmitted
    <2> QED BY <1>3, <2>3, <2>4, StillKeeps DEF CancelPendingWorkset, outputVars
  <1>4. CASE UNCHANGED pending
    <2>1. NothingAdmitted /\ pending' \in Staging \cup {None}
      BY <1>4 DEF NothingAdmitted, WorksetsInv, Types
    <2>2. CASE BeginReadyWorksetExecution \/ StartBlocked \/ HandleShutdown \/ ShutdownWaits
               \/ ShutdownFinishes
      BY <2>1, <2>2, StillKeeps DEF BeginReadyWorksetExecution, StartBlocked, HandleShutdown,
         ShutdownWaits, ShutdownFinishes, outputVars
    <2>3. CASE ForceStop /\ inv = None
      BY <2>1, <2>3, StillKeeps DEF ForceStop
    <2>4. CASE CancelActiveItem
      <3>1. inv # None /\ inv' = [inv EXCEPT !.token = "external"] /\ turn' = turn
        BY <2>4 DEF CancelActiveItem, Cancellable
      <3> QED BY <1>1, <2>1, <2>4, <3>1, StillKeeps DEF CancelActiveItem, outputVars
    <2>5. CASE HandleCancel /\ Cancellable
      <3>1. inv # None /\ inv' = [inv EXCEPT !.token = "external"] /\ turn' = turn
        BY <2>5 DEF HandleCancel
      <3> QED BY <1>1, <2>1, <2>5, <3>1, StillKeeps DEF HandleCancel
    <2>6. CASE ShutdownCancels /\ Cancellable
      <3>1. inv # None /\ inv' = [inv EXCEPT !.token = "shutdown"] /\ turn' = "idle"
        BY <2>6 DEF ShutdownCancels
      <3> QED BY <1>1, <2>1, <2>6, <3>1, StillKeeps DEF ShutdownCancels
    <2> QED BY <1>2, <1>3, <2>2, <2>3, <2>4, <2>5, <2>6 DEF Moves
  <1>5. StagingRejected \/ CancelPendingWorkset \/ UNCHANGED pending
    BY DEF Moves, BeginReadyWorksetExecution, StartBlocked, CancelActiveItem, HandleShutdown,
       ShutdownWaits, ShutdownFinishes, HandleCancel, ShutdownCancels, ForceStop
  <1> QED BY <1>2, <1>3, <1>4, <1>5

(* ActivateCurrentWorkset: the baseline is there. *)
LEMMA BaselineReadyKeeps ==
    ASSUME WorksetsInv, BaselineReady
    PROVE  WorksetsInv' /\ ReportStep
  <1> DEFINE q == [active EXCEPT !.phase = "Ready"]
  <1>1. /\ turn = "activate" /\ active' = q /\ turn' = "idle"
        /\ UNCHANGED <<staged, pending, drainVars, accepted, suppressed, reportVars, inv,
                       publications, started>>
    BY DEF BaselineReady, outputVars
  <1>2. active # None /\ active \in Package /\ inv = None /\ Unreported(active) = {}
    BY <1>1 DEF WorksetsInv, Types, Progress, Invoked
  <1>3. /\ q \in Package /\ q.ws = active.ws /\ q.suppressed = active.suppressed
        /\ q.cancelled = active.cancelled /\ q.terminal = active.terminal /\ q.next = active.next
    BY <1>2 DEF Package
  <1> HIDE DEF q
  <1>4. Stays(active, q, {} \cup {}) /\ Fits(q)
    <2>1. active \in Resident /\ Unreported(q) = {}
      BY <1>2, <1>3 DEF Resident, Unreported
    <2> QED BY <1>3, <2>1 DEF Stays, Fits, WorksetsInv, Progress
  <1>5. Invoked' /\ inv' \in Invocation \cup {None}
    BY <1>1, <1>2 DEF WorksetsInv, Invoked, Types
  <1>6. \A item \in started' : item \in started /\ report[item] = "executed"
    BY <1>1, <1>2 DEF WorksetsInv, Begun
  <1>7. Retain({}, {})
    BY <1>1, NothingRetained
  <1> QED BY <1>1, <1>2, <1>3, <1>4, <1>5, <1>6, <1>7, ActiveKeeps

(* ActivateCurrentWorkset fails: what remains of the package is unstarted. *)
LEMMA BaselineFailsKeeps ==
    ASSUME WorksetsInv, BaselineFails
    PROVE  WorksetsInv' /\ ReportStep
  <1> DEFINE U == ItemsOf(active, Remaining(active))
  <1>1. turn = "activate" /\ Retain({}, U) /\ FinishCurrentWorkset(active)
        /\ UNCHANGED <<inv, pending, accepted, suppressed, publications, started>>
    BY DEF BaselineFails, outputVars
  <1>2. active # None /\ inv = None /\ Unreported(active) = {} /\ active \in Resident
    BY <1>1 DEF WorksetsInv, Progress, Invoked, Resident
  <1>3. U = {active.ws} \X Remaining(active)
    BY <1>2 DEF ItemsOf
  <1>4. /\ Remaining(active) \subseteq Ordinals \ (active.cancelled \cup active.terminal)
        /\ \A o \in Ordinals : o >= active.next =>
              o \in Remaining(active) \cup active.cancelled \cup active.terminal
    BY <1>2, PackageFacts, WorksetsAssumption DEF WorksetsInv, Remaining, Ordinals
  <1>5. U \subseteq Open /\ \A item \in U : item[1] = active.ws
    BY <1>2, <1>3, <1>4, OpenFacts DEF WorksetsInv, Progress
  <1>6. Leaves(active, active, U)
    <2>1. \A o \in Ordinals : o < active.next \/ o >= active.next
      BY <1>2, PackageFacts DEF WorksetsInv
    <2>2. \A o \in Ordinals : o \in active.terminal \cup active.suppressed \/ <<active.ws, o>> \in U
      BY <1>2, <1>3, <1>4, <2>1 DEF WorksetsInv, Progress, Unreported
    <2> QED BY <1>2, <2>2 DEF Leaves
  <1> HIDE DEF U
  <1> QED BY <1>1, <1>2, <1>5, <1>6, FinishKeeps

-----------------------------------------------------------------------------
(* The handlers: the items *)

(* The package is through: every item has its terminal or was left out.    *)
LEMMA WorksetEndsKeeps ==
    ASSUME WorksetsInv, WorksetEnds
    PROVE  WorksetsInv' /\ ReportStep
  <1>1. /\ active # None /\ inv = None /\ NextItem > ItemCount
        /\ Retain({}, PassedItems) /\ FinishCurrentWorkset(Advanced)
        /\ UNCHANGED <<inv, pending, accepted, suppressed, publications, started>>
    BY DEF WorksetEnds, StartTurn, outputVars
  <1>2. /\ Advanced \in Package
        /\ Advanced.ws = active.ws /\ Advanced.suppressed = active.suppressed
        /\ Advanced.cancelled = active.cancelled
        /\ Advanced.terminal = active.terminal \cup PassedOver
        /\ PassedItems = {active.ws} \X PassedOver /\ PassedItems \subseteq Open
    BY <1>1, AdvancedFacts
  <1>3. \A o \in Ordinals : o \in active.terminal \cup active.suppressed \cup PassedOver
    <2>1. \A o \in Ordinals : o < NextItem
      BY <1>1, AdvanceFacts, WorksetsAssumption DEF Ordinals
    <2> QED BY <1>1, <2>1, AdvanceFacts
  <1>4. Unreported(Advanced) = {}
    <2>1. Advanced.cancelled \subseteq Ordinals
      BY <1>2 DEF Package
    <2> QED BY <1>2, <1>3, <2>1 DEF Unreported
  <1>5. Leaves(active, Advanced, PassedItems)
    BY <1>2, <1>3, <1>4, NoneAssumption DEF Leaves
  <1>6. \A item \in PassedItems : item[1] = active.ws
    BY <1>2
  <1> QED BY <1>1, <1>2, <1>4, <1>5, <1>6, FinishKeeps

(* The session did not return to its baseline: the items that are left are *)
(* unstarted.                                                              *)
LEMMA ResetFailsKeeps ==
    ASSUME WorksetsInv, ResetFails
    PROVE  WorksetsInv' /\ ReportStep
  <1> DEFINE U == PassedItems \cup ItemsOf(active, Remaining(Advanced))
  <1>1. /\ active # None /\ inv = None /\ NextItem <= ItemCount
        /\ Retain({}, U) /\ FinishCurrentWorkset(Advanced)
        /\ UNCHANGED <<inv, pending, accepted, suppressed, publications, started>>
    BY DEF ResetFails, Startable, StartTurn, outputVars
  <1>2. /\ Advanced \in Package
        /\ Advanced.ws = active.ws /\ Advanced.suppressed = active.suppressed
        /\ Advanced.cancelled = active.cancelled /\ Advanced.next = NextItem
        /\ Advanced.terminal = active.terminal \cup PassedOver
        /\ PassedItems = {active.ws} \X PassedOver /\ PassedItems \subseteq Open
    BY <1>1, AdvancedFacts
  <1>3. /\ NextItem \in 1 .. ItemCount + 1 /\ NextItem >= active.next
        /\ NextItem \in Ordinals /\ NextItem \notin active.cancelled \cup active.terminal
        /\ \A o \in Ordinals : o < NextItem =>
              o \in active.terminal \cup active.suppressed \cup PassedOver
    BY <1>1, AdvanceFacts
  <1>4. /\ Remaining(Advanced) \subseteq Ordinals \ (active.cancelled \cup active.terminal)
        /\ \A o \in Ordinals : o >= NextItem =>
              o \in Remaining(Advanced) \cup active.cancelled \cup Advanced.terminal
    BY <1>2, <1>3, WorksetsAssumption DEF Remaining, Ordinals
  <1>5. active \in Resident /\ active.suppressed \subseteq active.cancelled
    BY <1>1 DEF Resident, WorksetsInv, Progress
  <1>6. Unreported(active) = {}
    BY <1>1, <1>3 DEF WorksetsInv, Progress
  <1>7. Unreported(Advanced) = {}
    BY <1>2, <1>6 DEF Unreported
  <1>8. U = PassedItems \cup ({active.ws} \X Remaining(Advanced))
    BY <1>1 DEF ItemsOf
  <1>9. U \subseteq Open /\ \A item \in U : item[1] = active.ws
    BY <1>2, <1>4, <1>5, <1>8, OpenFacts DEF WorksetsInv
  <1>10. Leaves(active, Advanced, U)
    <2>1. \A o \in Ordinals : o < NextItem \/ o >= NextItem
      BY <1>3 DEF Ordinals
    <2>2. \A o \in Ordinals : o \in active.terminal \cup active.suppressed \/ <<active.ws, o>> \in U
      BY <1>2, <1>3, <1>4, <1>6, <1>8, <2>1 DEF Unreported
    <2> QED BY <1>2, <1>7, <2>2, NoneAssumption DEF Leaves
  <1> HIDE DEF U
  <1> QED BY <1>1, <1>7, <1>9, <1>10, FinishKeeps

(* What the start of an item settles on the way. *)
LEMMA StartFacts ==
    ASSUME WorksetsInv, Startable
    PROVE  /\ active # None /\ active \in Resident /\ inv = None /\ publications = {}
           /\ NextItem \in Ordinals /\ <<active.ws, NextItem>> \in Open
           /\ <<active.ws, NextItem>> \notin PassedItems
           /\ NextItem \notin active.cancelled \cup active.terminal \cup PassedOver
           /\ \A item \in PassedItems : item[1] = active.ws
           /\ \A item \in started : report[item] = "executed"
           /\ Advanced.suppressed \subseteq Advanced.cancelled
           /\ \A o \in Ordinals : o < NextItem => o \in Advanced.terminal \cup Advanced.suppressed
           /\ Unreported(Advanced) = {}
  <1>1. active # None /\ inv = None /\ NextItem <= ItemCount /\ active \in Resident
    BY DEF Startable, StartTurn, Resident
  <1>2. /\ NextItem \in Ordinals /\ NextItem \notin active.cancelled \cup active.terminal
        /\ NextItem >= active.next
        /\ PassedOver \subseteq active.cancelled \ (active.terminal \cup active.suppressed)
        /\ \A o \in Ordinals : o < NextItem =>
              o \in active.terminal \cup active.suppressed \cup PassedOver
    BY <1>1, AdvanceFacts
  <1>3. /\ Advanced.suppressed = active.suppressed /\ Advanced.cancelled = active.cancelled
        /\ Advanced.terminal = active.terminal \cup PassedOver
        /\ PassedItems = {active.ws} \X PassedOver
    BY <1>1, AdvancedFacts
  <1>4. active.suppressed \subseteq active.cancelled /\ Unreported(active) = {}
    BY <1>1, <1>2 DEF WorksetsInv, Progress
  <1>5. <<active.ws, NextItem>> \in Open
    BY <1>1, <1>2, <1>4, OpenFacts DEF WorksetsInv
  <1>6. publications = {} /\ \A item \in started : report[item] = "executed"
    BY <1>1 DEF WorksetsInv, Invoked, Begun
  <1>7. Unreported(Advanced) = {}
    BY <1>3, <1>4 DEF Unreported
  <1> QED BY <1>1, <1>2, <1>3, <1>4, <1>5, <1>6, <1>7

(* The item ends before it runs, announced or not. *)
LEMMA StartFailsCleanlyKeeps ==
    ASSUME WorksetsInv, NEW announced \in BOOLEAN, StartFailsCleanly(announced)
    PROVE  WorksetsInv' /\ ReportStep
  <1> DEFINE a == AfterItem(Advanced, NextItem)
             q == [a EXCEPT !.phase = IF announced THEN "Running" ELSE @]
             item == <<active.ws, NextItem>>
  <1>1. /\ Startable /\ Retain({item}, PassedItems) /\ active' = q
        /\ started' \subseteq started \cup {item} /\ turn' \in {"stop", "start"}
        /\ UNCHANGED <<staged, pending, drainVars, accepted, suppressed, inv, publications>>
    BY DEF StartFailsCleanly, outputVars
  <1>2. /\ active # None /\ inv = None /\ publications = {} /\ NextItem \in Ordinals
        /\ item \in Open /\ item \notin PassedItems
        /\ \A x \in PassedItems : x[1] = active.ws
        /\ \A x \in started : report[x] = "executed"
    BY <1>1, StartFacts
  <1>3. /\ Advanced.suppressed \subseteq Advanced.cancelled /\ Unreported(Advanced) = {}
        /\ \A o \in Ordinals : o < NextItem => o \in Advanced.terminal \cup Advanced.suppressed
    BY <1>1, StartFacts
  <1>4. /\ Advanced \in Package /\ Advanced.ws = active.ws
        /\ PassedItems \subseteq Open /\ Stays(active, Advanced, PassedItems)
    BY <1>2, AdvancedFacts
  <1>5. /\ a \in Package
        /\ a.ws = Advanced.ws /\ a.suppressed = Advanced.suppressed
        /\ a.cancelled = Advanced.cancelled
        /\ a.next = NextItem + 1 /\ a.terminal = Advanced.terminal \cup {NextItem}
    BY <1>2, <1>4, AfterItemFacts
  <1> HIDE DEF a
  <1>6. /\ q \in Package
        /\ q.ws = Advanced.ws /\ q.suppressed = Advanced.suppressed
        /\ q.cancelled = Advanced.cancelled
        /\ q.next = NextItem + 1 /\ q.terminal = Advanced.terminal \cup {NextItem}
    BY <1>5 DEF Package
  <1> HIDE DEF q
  <1>7. Stays(active, q, {item} \cup PassedItems)
    BY <1>4, <1>6 DEF Stays
  <1>8. Fits(q)
    <2>1. \A o \in Ordinals : o < q.next => o < NextItem \/ o = NextItem
      BY <1>2, <1>6 DEF Ordinals
    <2>2. Unreported(q) = {}
      BY <1>3, <1>6 DEF Unreported
    <2> QED BY <1>3, <1>6, <2>1, <2>2 DEF Fits
  <1>9. Invoked' /\ inv' \in Invocation \cup {None}
    BY <1>1, <1>2 DEF Invoked
  <1>10. \A x \in started' : x \in {item} \/ (x \in started /\ report[x] = "executed")
    BY <1>1, <1>2
  <1>11. /\ {item} \cup PassedItems \subseteq Open /\ {item} \cap PassedItems = {}
         /\ \A x \in {item} \cup PassedItems : x[1] = active.ws
    BY <1>2, <1>4
  <1> HIDE DEF item
  <1> QED BY <1>1, <1>2, <1>6, <1>7, <1>8, <1>9, <1>10, <1>11, ActiveKeeps

(* The item starts, or its invocation is recorded without a start. *)
LEMMA ItemStartsKeeps ==
    ASSUME WorksetsInv, NEW phase \in {"limbo", "executing"}, ItemStarts(phase)
    PROVE  WorksetsInv' /\ ReportStep
  <1> DEFINE q == [Advanced EXCEPT !.phase = "Running"]
             i == [ord |-> NextItem, token |-> "none", phase |-> phase]
             item == <<active.ws, NextItem>>
  <1>1. /\ Startable /\ Retain({}, PassedItems) /\ active' = q /\ inv' = i
        /\ started' = IF phase = "limbo" THEN started ELSE started \cup {item}
        /\ turn' = "idle"
        /\ UNCHANGED <<staged, pending, drainVars, accepted, suppressed, publications>>
    BY DEF ItemStarts, outputVars
  <1>2. /\ active # None /\ inv = None /\ publications = {} /\ NextItem \in Ordinals
        /\ item \in Open
        /\ NextItem \notin active.cancelled \cup active.terminal \cup PassedOver
        /\ \A x \in PassedItems : x[1] = active.ws
        /\ \A x \in started : report[x] = "executed"
    BY <1>1, StartFacts
  <1>3. /\ Advanced.suppressed \subseteq Advanced.cancelled /\ Unreported(Advanced) = {}
        /\ \A o \in Ordinals : o < NextItem => o \in Advanced.terminal \cup Advanced.suppressed
    BY <1>1, StartFacts
  <1>4. /\ Advanced \in Package /\ Advanced.ws = active.ws /\ Advanced.next = NextItem
        /\ Advanced.cancelled = active.cancelled
        /\ Advanced.terminal = active.terminal \cup PassedOver
        /\ PassedItems \subseteq Open /\ Stays(active, Advanced, PassedItems)
    BY <1>2, AdvancedFacts
  <1>5. /\ q \in Package
        /\ q.ws = active.ws /\ q.suppressed = Advanced.suppressed
        /\ q.cancelled = Advanced.cancelled /\ q.next = NextItem /\ q.terminal = Advanced.terminal
    BY <1>4 DEF Package
  <1>6. i \in Invocation /\ i # None /\ i.ord = NextItem /\ i.phase = phase
    BY <1>2, NoneAssumption DEF Invocation
  <1> HIDE DEF q, i
  <1>7. Stays(active, q, {} \cup PassedItems)
    BY <1>4, <1>5 DEF Stays
  <1>8. Fits(q)
    <2>1. Unreported(q) = {}
      BY <1>3, <1>5 DEF Unreported
    <2> QED BY <1>3, <1>5, <2>1 DEF Fits
  <1>9. Invoked'
    <2>1. q # None
      BY <1>5, NoneAssumption
    <2>2. NextItem \notin q.cancelled \cup q.terminal
      BY <1>2, <1>4, <1>5
    <2> QED BY <1>1, <1>2, <1>5, <1>6, <2>1, <2>2 DEF Invoked
  <1>10. \A x \in started' :
            \/ x \in started /\ report[x] = "executed"
            \/ /\ inv' # None /\ inv'.phase # "limbo"
               /\ x = <<active'.ws, inv'.ord>> /\ x \in Items
    <2>1. item \in Items
      BY <1>2, OpenFacts DEF WorksetsInv
    <2> QED BY <1>1, <1>2, <1>5, <1>6, <2>1
  <1>11. \A x \in {} \cup PassedItems : x[1] = active.ws
    BY <1>2
  <1> QED BY <1>1, <1>2, <1>4, <1>5, <1>6, <1>7, <1>8, <1>9, <1>10, <1>11, ActiveKeeps

(* The steps that taint the session. *)
Taints ==
    \/ BaselineTaints \/ WorksetEndTaints \/ StartTaints \/ IntegrityLost \/ StrayCompletion
    \/ (HandleCancel /\ ~ Cancellable) \/ (ShutdownCancels /\ ~ Cancellable)
    \/ (ForceStop /\ inv # None)

(* Such a step keeps the invariant. *)
LEMMA TaintsKeep ==
    ASSUME WorksetsInv, Taints
    PROVE  WorksetsInv' /\ ReportStep
  <1>1. CASE EnterTainted(active, {}, {})
             /\ UNCHANGED <<pending, accepted, suppressed, started>>
             /\ turn' \in {"idle", "advance", "stop"}
    <2>1. active # None => /\ active \in Package /\ Stays(active, active, {} \cup {})
                           /\ active.suppressed \subseteq active.cancelled
                           /\ \A o \in Ordinals : o < active.next =>
                                 o \in active.terminal \cup active.suppressed
      BY DEF WorksetsInv, Types, Progress, Resident, Stays
    <2> QED BY <1>1, <2>1, TaintKeeps
  <1>2. CASE WorksetEndTaints \/ (StartTaints /\ EnterTainted(Advanced, {}, PassedItems)
                                  /\ started' = started)
    <2>1. /\ active # None /\ inv = None /\ EnterTainted(Advanced, {}, PassedItems)
          /\ turn' = "idle" /\ UNCHANGED <<pending, accepted, suppressed, started>>
      BY <1>2 DEF WorksetEndTaints, StartTaints, Startable, StartTurn
    <2>2. /\ Advanced \in Package /\ Stays(active, Advanced, {} \cup PassedItems)
          /\ PassedItems \subseteq Open
          /\ \A item \in PassedItems : item[1] = active.ws
      BY <2>1, AdvancedFacts
    <2>3. /\ Advanced.suppressed \subseteq Advanced.cancelled
          /\ \A o \in Ordinals : o < Advanced.next => o \in Advanced.terminal \cup Advanced.suppressed
      <3>1. active.suppressed \subseteq active.cancelled
        BY <2>1 DEF WorksetsInv, Progress, Resident
      <3> QED BY <2>1, <3>1, AdvancedFacts, AdvanceFacts
    <2> QED BY <2>1, <2>2, <2>3, TaintKeeps
  <1>3. CASE StartTaints
             /\ EnterTainted(AfterItem(Advanced, NextItem), {<<active.ws, NextItem>>}, PassedItems)
             /\ started' \in {started, started \cup {<<active.ws, NextItem>>}}
    <2> DEFINE a == AfterItem(Advanced, NextItem)
               item == <<active.ws, NextItem>>
    <2>1. /\ Startable /\ turn' = "idle" /\ UNCHANGED <<pending, accepted, suppressed>>
          /\ EnterTainted(a, {item}, PassedItems)
      BY <1>3 DEF StartTaints
    <2>2. /\ active # None /\ inv = None /\ NextItem \in Ordinals
          /\ item \in Open /\ item \notin PassedItems
          /\ \A x \in PassedItems : x[1] = active.ws
          /\ Advanced.suppressed \subseteq Advanced.cancelled
          /\ \A o \in Ordinals : o < NextItem => o \in Advanced.terminal \cup Advanced.suppressed
      BY <2>1, StartFacts
    <2>3. /\ Advanced \in Package /\ Stays(active, Advanced, PassedItems) /\ PassedItems \subseteq Open
      BY <2>2, AdvancedFacts
    <2>4. /\ a \in Package
          /\ a.ws = Advanced.ws /\ a.suppressed = Advanced.suppressed
          /\ a.cancelled = Advanced.cancelled
          /\ a.next = NextItem + 1 /\ a.terminal = Advanced.terminal \cup {NextItem}
      BY <2>2, <2>3, AfterItemFacts
    <2> HIDE DEF a
    <2>5. Stays(active, a, {item} \cup PassedItems)
      BY <2>3, <2>4 DEF Stays
    <2>6. \A o \in Ordinals : o < a.next => o \in a.terminal \cup a.suppressed
      <3>1. \A o \in Ordinals : o < a.next => o < NextItem \/ o = NextItem
        BY <2>2, <2>4 DEF Ordinals
      <3> QED BY <2>2, <2>4, <3>1
    <2>7. /\ {item} \cup PassedItems \subseteq Open /\ {item} \cap PassedItems = {}
          /\ \A x \in {item} \cup PassedItems : x[1] = active.ws
          /\ started' \subseteq started \cup {item} /\ a.suppressed \subseteq a.cancelled
      BY <1>3, <2>2, <2>3, <2>4
    <2> HIDE DEF item
    <2> QED BY <2>1, <2>2, <2>4, <2>5, <2>6, <2>7, TaintKeeps
  <1>4. CASE BaselineTaints \/ IntegrityLost \/ StrayCompletion
    BY <1>1, <1>4 DEF BaselineTaints, IntegrityLost, StrayCompletion
  <1>5. CASE HandleCancel /\ ~ Cancellable
    BY <1>1, <1>5 DEF HandleCancel, Commands
  <1>6. CASE (ShutdownCancels /\ ~ Cancellable) \/ (ForceStop /\ inv # None)
    BY <1>1, <1>6 DEF ShutdownCancels, ForceStop
  <1>7. CASE StartTaints
    BY <1>2, <1>3, <1>7 DEF StartTaints
  <1> QED BY <1>2, <1>4, <1>5, <1>6, <1>7 DEF Taints

(* HandleInvocationTerminal: the terminal is retained at once. *)
LEMMA ExecutionEndsKeeps ==
    ASSUME WorksetsInv, ExecutionEnds
    PROVE  WorksetsInv' /\ ReportStep
  <1>1. /\ inv # None /\ inv.phase = "executing" /\ CloseItem(active)
        /\ UNCHANGED <<staged, pending, drainVars, accepted, suppressed, started, publications>>
    BY DEF ExecutionEnds, outputVars
  <1>2. publications' = {}
    BY <1>1 DEF WorksetsInv, Invoked
  <1> QED BY <1>1, <1>2, CloseItemKeeps

(* The active package is as before or its later items are closed; the      *)
(* invocation goes on.                                                     *)
LEMMA GoesOnKeeps ==
    ASSUME WorksetsInv, inv # None, NEW p,
           p = active \/ p = CloseAdmission(active, inv.ord), active' = p,
           UNCHANGED <<staged, pending, drainVars, accepted, suppressed, started, reportVars>>,
           inv' \in Invocation, inv'.ord = inv.ord, inv'.phase # "limbo",
           turn' \in {"idle", "advance"},
           \A job \in publications' :
              inv'.phase = "finalizing" /\ job[1] = <<active.ws, inv.ord>>
    PROVE  WorksetsInv' /\ ReportStep
  <1>1. /\ active # None /\ active \in Resident /\ active \in Package
        /\ inv.ord = active.next /\ inv.ord \in Ordinals
        /\ inv.ord \notin active.cancelled \cup active.terminal
    BY PackageFacts DEF WorksetsInv, Invoked, Types, Resident
  <1>2. /\ p \in Package /\ p.ws = active.ws /\ p.suppressed = active.suppressed
        /\ p.terminal = active.terminal /\ p.next = active.next
        /\ active.cancelled \subseteq p.cancelled /\ inv.ord \notin p.cancelled
        /\ Unreported(p) # {} => \A o \in Ordinals : o >= p.next =>
              o \in p.cancelled \cup p.terminal \/ o = inv.ord
    <2>1. CASE p = active
      BY <1>1, <2>1 DEF WorksetsInv, Progress
    <2> QED BY <2>1, CloseAdmissionFacts
  <1>3. inv' # None /\ p # None
    BY <1>2, NoneAssumption
  <1>4. Stays(active, p, {} \cup {}) /\ Fits(p)
    <2>1. /\ active.suppressed \subseteq active.cancelled
          /\ \A o \in Ordinals : o < active.next => o \in active.terminal \cup active.suppressed
      BY <1>1 DEF WorksetsInv, Progress
    <2> QED BY <1>2, <1>3, <2>1 DEF Stays, Fits
  <1>5. Invoked'
    BY <1>1, <1>2, <1>3 DEF Invoked
  <1>6. ASSUME NEW item \in started'
        PROVE  \/ item \in started /\ report[item] = "executed"
               \/ /\ inv' # None /\ inv'.phase # "limbo"
                  /\ item = <<active'.ws, inv'.ord>> /\ item \in Items
    BY <1>2, <1>3, <1>6 DEF WorksetsInv, Begun, Types
  <1>7. Retain({}, {})
    BY NothingRetained
  <1> QED BY <1>1, <1>2, <1>4, <1>5, <1>6, <1>7, ActiveKeeps

(* HandleInvocationTerminal with staged outputs: they are handed to the    *)
(* finalizer, or one was refused and the terminal is retained at once.     *)
LEMMA ExecutionCompletesKeeps ==
    ASSUME WorksetsInv, NEW n, NEW taken, ExecutionCompletes(n, taken)
    PROVE  WorksetsInv' /\ ReportStep
  <1>1. /\ inv # None /\ inv.phase = "executing" /\ publications = {}
        /\ active # None /\ inv \in Invocation
    BY DEF ExecutionCompletes, WorksetsInv, Invoked, Types
  <1>2. UNCHANGED <<staged, pending, drainVars, accepted, suppressed, started>>
    BY DEF ExecutionCompletes
  <1>3. CASE taken = 1 .. n
    <2>1. /\ publications' = publications \cup (ItemsOf(active, {inv.ord}) \X taken)
          /\ inv' = [inv EXCEPT !.phase = "finalizing"]
          /\ turn' \in {"idle", "advance"}
          /\ active' = active /\ UNCHANGED reportVars
      BY <1>3 DEF ExecutionCompletes
    <2>2. inv' \in Invocation /\ inv'.ord = inv.ord /\ inv'.phase = "finalizing"
      BY <1>1, <2>1 DEF Invocation
    <2>3. \A job \in publications' : job[1] = <<active.ws, inv.ord>>
      BY <1>1, <2>1 DEF ItemsOf
    <2> QED BY <1>1, <1>2, <2>1, <2>2, <2>3, GoesOnKeeps
  <1>4. CASE taken # 1 .. n
    <2>1. CloseItem(CloseAdmission(active, inv.ord)) /\ publications' = {}
      BY <1>1, <1>4 DEF ExecutionCompletes
    <2> QED BY <1>1, <1>2, <2>1, CloseItemKeeps
  <1> QED BY <1>3, <1>4

(* DrainArtifactFinalizers: one more output is done, or the last one. *)
LEMMA FinalizerCompletesKeeps ==
    ASSUME WorksetsInv, NEW job, NEW ok, FinalizerCompletes(job, ok)
    PROVE  WorksetsInv' /\ ReportStep
  <1> DEFINE p == IF ok THEN active ELSE CloseAdmission(active, inv.ord)
  <1>1. /\ turn = "idle" /\ job \in publications
        /\ UNCHANGED <<staged, pending, drainVars, accepted, suppressed, started>>
    BY DEF FinalizerCompletes
  <1>2. /\ inv # None /\ inv.phase = "finalizing" /\ inv \in Invocation
        /\ \A j \in publications : j[1] = <<active.ws, inv.ord>>
    BY <1>1 DEF WorksetsInv, Invoked, Types
  <1>3. p = active \/ p = CloseAdmission(active, inv.ord)
    OBVIOUS
  <1>4. \/ active' = p /\ UNCHANGED <<turn, inv, reportVars, publications>>
        \/ CloseItem(p) /\ publications' = {j \in publications : j[1] # job[1]}
    BY DEF FinalizerCompletes
  <1> HIDE DEF p
  <1>5. CASE active' = p /\ UNCHANGED <<turn, inv, reportVars, publications>>
    BY <1>1, <1>2, <1>3, <1>5, GoesOnKeeps
  <1>6. CASE CloseItem(p) /\ publications' = {j \in publications : j[1] # job[1]}
    <2>1. publications' = {}
      BY <1>1, <1>2, <1>6
    <2> QED BY <1>1, <1>2, <1>3, <1>6, <2>1, CloseItemKeeps
  <1> QED BY <1>4, <1>5, <1>6

-----------------------------------------------------------------------------
(* The handlers: cancellation *)

(* A package some of whose items were cancelled with their terminals. *)
LEMMA CancelledFacts ==
    ASSUME NEW p \in Package, NEW S \in SUBSET Ordinals
    PROVE  LET q == Cancelled(p, S)
           IN  /\ q \in Package
               /\ q.ws = p.ws /\ q.suppressed = p.suppressed /\ q.next = p.next
               /\ q.cancelled = p.cancelled \cup S /\ q.terminal = p.terminal \cup S
               /\ Unreported(q) \subseteq Unreported(p)
  <1> DEFINE q == Cancelled(p, S)
  <1>1. /\ q \in Package
        /\ q.ws = p.ws /\ q.suppressed = p.suppressed /\ q.next = p.next
        /\ q.cancelled = p.cancelled \cup S /\ q.terminal = p.terminal \cup S
    BY DEF Cancelled, Package
  <1> HIDE DEF q
  <1>2. Unreported(q) \subseteq Unreported(p)
    BY <1>1 DEF Unreported
  <1> QED BY <1>1, <1>2 DEF q

(* Items of the active package that wait are cancelled: it becomes q. *)
LEMMA CancelKeeps ==
    ASSUME WorksetsInv, active # None, NEW S \in SUBSET Ordinals, NEW q \in Package,
           q.ws = active.ws, q.suppressed = active.suppressed, q.next = active.next,
           q.cancelled = active.cancelled \cup S, q.terminal = active.terminal \cup S,
           \A o \in S : Cancels(active, o) /\ (inv # None => inv.ord # o),
           Retain({}, ItemsOf(active, S)), active' = q,
           UNCHANGED <<staged, pending, drainVars, accepted, suppressed, started, publications>>,
           \/ inv' = inv
           \/ inv # None /\ inv' \in Invocation /\ inv'.ord = inv.ord /\ inv'.phase = inv.phase,
           turn' \in {"idle", "start"}
    PROVE  WorksetsInv' /\ ReportStep
  <1> DEFINE U == ItemsOf(active, S)
  <1>1. /\ active \in Resident /\ active \in Package /\ active.suppressed \subseteq active.cancelled
        /\ \A o \in Ordinals : o < active.next => o \in active.terminal \cup active.suppressed
    BY DEF WorksetsInv, Types, Resident, Progress
  <1>2. U = {active.ws} \X S /\ \A item \in U : item[1] = active.ws
    BY DEF ItemsOf
  <1>3. U \subseteq Open
    BY <1>1, <1>2, OpenFacts DEF WorksetsInv, Cancels
  <1> HIDE DEF U
  <1>4. Stays(active, q, {} \cup U)
    BY <1>2 DEF Stays
  <1>5. inv' \in Invocation \cup {None} /\ (inv' = None <=> inv = None) /\ q # None
    BY NoneAssumption DEF WorksetsInv, Types
  <1>6. Fits(q)
    <2>1. Unreported(q) \subseteq Unreported(active)
      BY DEF Unreported
    <2>2. Unreported(active) # {} => \A o \in Ordinals : o >= active.next =>
             o \in active.cancelled \cup active.terminal \/ (inv # None /\ o = inv.ord)
      BY DEF WorksetsInv, Progress
    <2> QED BY <1>1, <1>5, <2>1, <2>2 DEF Fits
  <1>7. Invoked'
    BY <1>5 DEF WorksetsInv, Invoked, Cancels
  <1>8. ASSUME NEW item \in started'
        PROVE  \/ item \in started /\ report[item] = "executed"
               \/ /\ inv' # None /\ inv'.phase # "limbo"
                  /\ item = <<active'.ws, inv'.ord>> /\ item \in Items
    BY <1>5, <1>8 DEF WorksetsInv, Begun, Types
  <1>9. Retain({}, U)
    BY DEF U
  <1> QED BY <1>2, <1>3, <1>4, <1>5, <1>6, <1>7, <1>8, <1>9, ActiveKeeps

(* HandleCancelWorksetItem for an item of the active package. *)
LEMMA CancelWaitingItemKeeps ==
    ASSUME WorksetsInv, NEW o \in Ordinals, CancelWaitingItem(o)
    PROVE  WorksetsInv' /\ ReportStep
  <1>1. /\ active # None /\ Cancels(active, o) /\ (inv # None => inv.ord # o)
        /\ Retain({}, ItemsOf(active, {o})) /\ active' = Cancelled(active, {o})
        /\ inv' = inv /\ turn' \in {"idle", "start"}
        /\ UNCHANGED <<staged, pending, drainVars, accepted, suppressed, started, publications>>
    BY DEF CancelWaitingItem, outputVars
  <1>2. active \in Package /\ {o} \in SUBSET Ordinals
    BY <1>1 DEF WorksetsInv, Types
  <1> DEFINE q == Cancelled(active, {o})
  <1>3. /\ q \in Package
        /\ q.ws = active.ws /\ q.suppressed = active.suppressed /\ q.next = active.next
        /\ q.cancelled = active.cancelled \cup {o} /\ q.terminal = active.terminal \cup {o}
    BY <1>2, CancelledFacts
  <1> HIDE DEF q
  <1>4. active' = q
    BY <1>1 DEF q
  <1>5. \A x \in {o} : Cancels(active, x) /\ (inv # None => inv.ord # x)
    BY <1>1
  <1> QED BY <1>1, <1>2, <1>3, <1>4, <1>5, CancelKeeps

(* HandleCancelWorkset for the active package. *)
LEMMA CancelActiveWorksetKeeps ==
    ASSUME WorksetsInv, CancelActiveWorkset
    PROVE  WorksetsInv' /\ ReportStep
  <1> DEFINE S == {o \in active.next .. ItemCount :
                     Cancels(active, o) /\ (inv # None => inv.ord # o)}
             c == Cancelled(active, S)
             q == [c EXCEPT !.closed = TRUE]
  <1>1. /\ active # None /\ Retain({}, ItemsOf(active, S)) /\ active' = q
        /\ inv' = IF Cancellable THEN [inv EXCEPT !.token = "external"] ELSE inv
        /\ turn' \in {"idle", "start"}
        /\ UNCHANGED <<staged, pending, drainVars, accepted, suppressed, started, publications>>
    BY DEF CancelActiveWorkset, outputVars
  <1>2. active \in Package /\ active \in Resident
    BY <1>1 DEF WorksetsInv, Types, Resident
  <1>3. S \in SUBSET Ordinals
    <2>1. active.next \in 1 .. ItemCount + 1 /\ ItemCount \in Nat
      BY <1>2, WorksetsAssumption DEF Package
    <2> QED BY <2>1 DEF Ordinals
  <1>4. \A o \in S : Cancels(active, o) /\ (inv # None => inv.ord # o)
    OBVIOUS
  <1> HIDE DEF S
  <1>5. /\ c \in Package
        /\ c.ws = active.ws /\ c.suppressed = active.suppressed /\ c.next = active.next
        /\ c.cancelled = active.cancelled \cup S /\ c.terminal = active.terminal \cup S
    BY <1>2, <1>3, CancelledFacts
  <1> HIDE DEF c
  <1>6. /\ q \in Package
        /\ q.ws = active.ws /\ q.suppressed = active.suppressed /\ q.next = active.next
        /\ q.cancelled = active.cancelled \cup S /\ q.terminal = active.terminal \cup S
    BY <1>5 DEF Package
  <1>7. \/ inv' = inv
        \/ inv # None /\ inv' \in Invocation /\ inv'.ord = inv.ord /\ inv'.phase = inv.phase
    BY <1>1 DEF Cancellable, WorksetsInv, Types, Invocation
  <1> HIDE DEF q
  <1> QED BY <1>1, <1>3, <1>4, <1>6, <1>7, CancelKeeps

(* HandleCancelWorksetItem for an item of the staged package. *)
LEMMA CancelStagedItemKeeps ==
    ASSUME WorksetsInv, NEW o \in Ordinals, CancelStagedItem(o)
    PROVE  WorksetsInv' /\ ReportStep
  <1> DEFINE q == Cancelled(staged, {o})
             U == ItemsOf(staged, {o})
  <1>1. /\ staged # None /\ Cancels(staged, o) /\ Retain({}, U) /\ staged' = q
        /\ turn = "idle"
        /\ UNCHANGED <<turn, pending, active, inv, drainVars, accepted, publications, started,
                       suppressed>>
    BY DEF CancelStagedItem, Commands, outputVars
  <1>2. /\ staged \in Package /\ staged \in Resident /\ Unreported(staged) = {}
        /\ staged.suppressed \subseteq staged.cancelled
        /\ active # None => active.ws # staged.ws /\ active \in Resident
    BY <1>1 DEF WorksetsInv, Types, Resident, Progress, Places
  <1>3. /\ q \in Package
        /\ q.ws = staged.ws /\ q.suppressed = staged.suppressed /\ q.next = staged.next
        /\ q.cancelled = staged.cancelled \cup {o} /\ q.terminal = staged.terminal \cup {o}
        /\ Unreported(q) \subseteq Unreported(staged)
    BY <1>2, CancelledFacts
  <1> HIDE DEF q
  <1>4. q # None
    BY <1>3, NoneAssumption
  <1>5. U = {<<staged.ws, o>>} /\ U \subseteq Open
    <2>1. U = {<<staged.ws, o>>}
      BY <1>1 DEF ItemsOf
    <2>2. o \notin staged.terminal \cup staged.suppressed
      BY <1>1, <1>2 DEF Cancels
    <2>3. <<staged.ws, o>> \in Open
      BY <1>2, <2>2, OpenFacts DEF WorksetsInv
    <2> QED BY <2>1, <2>3
  <1> HIDE DEF U
  <1>6. Resident' = {q} \cup ({active} \ {None}) /\ ResidentIds' = ResidentIds
    BY <1>1, <1>3, <1>4 DEF Resident, ResidentIds
  <1>7. Settles({}, U, {})
    <2>1. Stays(staged, q, {} \cup U)
      BY <1>3, <1>5 DEF Stays
    <2>2. active # None => Stays(active, active, {} \cup U)
      BY <1>2, <1>5 DEF Stays
    <2>3. \A x \in Resident' : \E p \in Resident : Stays(p, x, {} \cup U)
      BY <1>2, <1>6, <2>1, <2>2
    <2> QED BY <1>1, <1>5, <1>6, <2>3 DEF Settles
  <1>8. Progress'
    <2>1. \A x \in Resident' :
             /\ x.suppressed \subseteq x.cancelled
             /\ \A y \in Ordinals : y < x.next => y \in x.terminal \cup x.suppressed
      BY <1>2, <1>3, <1>6 DEF WorksetsInv, Progress
    <2> QED BY <1>1, <1>2, <1>3, <2>1 DEF WorksetsInv, Progress
  <1>9. Invoked'
    BY <1>1 DEF WorksetsInv, Invoked
  <1>10. \A item \in started' :
            \/ item \in started /\ report[item] = "executed"
            \/ /\ inv' # None /\ inv'.phase # "limbo"
               /\ item = <<active'.ws, inv'.ord>> /\ item \in Items
    BY <1>1 DEF WorksetsInv, Begun, Types
  <1>11. Resumes({})
    <2>1. NothingAdmitted /\ pending' \in Staging \cup {None} /\ inv' \in Invocation \cup {None}
          /\ active' \in Package \cup {None}
      BY <1>1 DEF NothingAdmitted, WorksetsInv, Types
    <2>2. staged' \in Package /\ (active' # None => active'.ws # staged'.ws)
      BY <1>1, <1>2, <1>3
    <2> QED BY <1>8, <1>9, <1>10, <2>1, <2>2 DEF Resumes
  <1> QED BY <1>7, <1>11, SettlementKeeps

(* The staged package leaves with each of its items settled. *)
LEMMA StagedLeaves ==
    ASSUME WorksetsInv, staged # None, NEW T,
           \A o \in Ordinals : Cancels(staged, o) => <<staged.ws, o>> \in T
    PROVE  Leaves(staged, staged, T)
  <1>1. /\ Unreported(staged) = {} /\ staged.cancelled \subseteq Ordinals
        /\ staged.terminal \subseteq Ordinals
    BY PackageFacts DEF WorksetsInv, Progress, Resident
  <1> QED BY <1>1 DEF Leaves, Unreported, Cancels

(* Its items that can be cancelled are open. *)
LEMMA StagedOpen ==
    ASSUME WorksetsInv, staged # None
    PROVE  LET U == ItemsOf(staged, {o \in Ordinals : Cancels(staged, o)})
           IN  /\ U \subseteq Open /\ \A item \in U : item[1] = staged.ws
               /\ \A o \in Ordinals : Cancels(staged, o) => <<staged.ws, o>> \in U
  <1>1. staged \in Resident /\ staged.suppressed \subseteq staged.cancelled
    BY DEF Resident, WorksetsInv, Progress
  <1> DEFINE S == {o \in Ordinals : Cancels(staged, o)}
             U == ItemsOf(staged, S)
  <1>2. S \subseteq Ordinals \ (staged.terminal \cup staged.suppressed)
    BY <1>1 DEF Cancels
  <1>3. \A o \in Ordinals : Cancels(staged, o) => o \in S
    OBVIOUS
  <1> HIDE DEF S
  <1>4. U = {staged.ws} \X S
    BY DEF ItemsOf
  <1> HIDE DEF U
  <1>5. U \subseteq Open
    BY <1>1, <1>2, <1>4, OpenFacts DEF WorksetsInv
  <1> QED BY <1>3, <1>4, <1>5 DEF U, S

(* HandleCancelWorkset for the staged package. *)
LEMMA CancelStagedWorksetKeeps ==
    ASSUME WorksetsInv, CancelStagedWorkset
    PROVE  WorksetsInv' /\ ReportStep
  <1> DEFINE U == ItemsOf(staged, {o \in Ordinals : Cancels(staged, o)})
  <1>1. /\ staged # None /\ Retain({}, U) /\ MoveToDraining({staged}) /\ staged' = None
        /\ turn = "idle"
        /\ UNCHANGED <<turn, pending, active, inv, accepted, publications, started, suppressed>>
    BY DEF CancelStagedWorkset, Commands, outputVars
  <1>2. /\ U \subseteq Open /\ \A item \in U : item[1] = staged.ws
        /\ \A o \in Ordinals : Cancels(staged, o) => <<staged.ws, o>> \in U
    BY <1>1, StagedOpen
  <1> HIDE DEF U
  <1>3. /\ staged \in Resident /\ Unreported(staged) = {}
        /\ active # None => active.ws # staged.ws /\ active \in Resident
    BY <1>1 DEF WorksetsInv, Resident, Progress, Places
  <1>4. Leaves(staged, staged, {} \cup U)
    BY <1>1, <1>2, StagedLeaves
  <1>5. /\ Resident' = {active} \ {None}
        /\ ResidentIds \subseteq ResidentIds' \cup {staged.ws}
        /\ ResidentIds' \cap {staged.ws} = {}
    BY <1>1, <1>3 DEF Resident, ResidentIds
  <1>6. Settles({}, U, {staged})
    <2>1. active # None => Stays(active, active, {} \cup U)
      BY <1>2, <1>3 DEF Stays
    <2>2. \A x \in Resident' : \E p \in Resident : Stays(p, x, {} \cup U)
      BY <1>3, <1>5, <2>1
    <2>3. \A x \in {staged} : \E p \in Resident : Leaves(p, x, {} \cup U)
      BY <1>3, <1>4
    <2>4. {x.ws : x \in {staged}} = {staged.ws}
      OBVIOUS
    <2> QED BY <1>1, <1>2, <1>5, <2>2, <2>3, <2>4 DEF Settles
  <1>7. Resumes({})
    <2>1. NothingAdmitted /\ pending' \in Staging \cup {None} /\ inv' \in Invocation \cup {None}
          /\ active' \in Package \cup {None} /\ staged' = None
      BY <1>1 DEF NothingAdmitted, WorksetsInv, Types
    <2>2. Progress'
      BY <1>1, <1>3, <1>5 DEF WorksetsInv, Progress
    <2>3. Invoked'
      BY <1>1 DEF WorksetsInv, Invoked
    <2>4. \A item \in started' :
             \/ item \in started /\ report[item] = "executed"
             \/ /\ inv' # None /\ inv'.phase # "limbo"
                /\ item = <<active'.ws, inv'.ord>> /\ item \in Items
      BY <1>1 DEF WorksetsInv, Begun, Types
    <2> QED BY <2>1, <2>2, <2>3, <2>4 DEF Resumes
  <1>8. \A x \in {staged} : Unreported(x) = {}
    BY <1>3
  <1> QED BY <1>6, <1>7, <1>8, SettlementKeeps

-----------------------------------------------------------------------------
(* The handlers: shutdown and acknowledgement *)

(* FinishShutdown: what is resident is failed and leaves. *)
LEMMA FinishShutdownKeeps ==
    ASSUME WorksetsInv, FinishShutdown
    PROVE  WorksetsInv' /\ ReportStep
  <1> DEFINE mine == IF active = None THEN {} ELSE ItemsOf(active, Remaining(active))
             other == IF staged = None THEN {}
                      ELSE ItemsOf(staged, {o \in Ordinals : Cancels(staged, o)})
             U == mine \cup other
  <1>1. /\ turn = "stop" /\ Retain({}, U) /\ MoveToDraining(Resident)
        /\ active' = None /\ staged' = None /\ worker' = "Stopped" /\ turn' = "idle"
        /\ UNCHANGED <<pending, inv, accepted, publications, started, suppressed>>
    BY DEF FinishShutdown, Resident
  <1>2. Resident' = {} /\ ResidentIds' = {} /\ ~ Sound'
    BY <1>1 DEF Resident, ResidentIds, Sound
  <1>3. inv = None
    BY <1>1 DEF WorksetsInv, Invoked
  <1>4. active # None => /\ active \in Resident /\ active.suppressed \subseteq active.cancelled
                         /\ \A o \in Ordinals : o < active.next =>
                               o \in active.terminal \cup active.suppressed
    BY DEF Resident, WorksetsInv, Progress
  <1>5. active # None =>
           /\ Remaining(active) \subseteq Ordinals \ (active.cancelled \cup active.terminal)
           /\ \A o \in Ordinals : o >= active.next =>
                 o \in Remaining(active) \cup active.cancelled \cup active.terminal
    BY <1>4, PackageFacts, WorksetsAssumption DEF WorksetsInv, Remaining, Ordinals
  <1>6. active # None => mine = {active.ws} \X Remaining(active)
    BY DEF ItemsOf
  <1>7. mine \subseteq Open
    <2>1. CASE active = None
      BY <2>1
    <2>2. CASE active # None
      BY <1>4, <1>5, <1>6, <2>2, OpenFacts DEF WorksetsInv
    <2> QED BY <2>1, <2>2
  <1>8. /\ other \subseteq Open
        /\ staged # None => /\ \A item \in other : item[1] = staged.ws
                            /\ \A o \in Ordinals : Cancels(staged, o) => <<staged.ws, o>> \in other
        /\ staged = None => other = {}
    BY StagedOpen
  <1> HIDE DEF mine, other
  <1>9. staged # None => Leaves(staged, staged, {} \cup U)
    BY <1>8, StagedLeaves
  <1>10. active # None => Leaves(active, active, {} \cup U)
    <2> SUFFICES ASSUME active # None
                 PROVE  Leaves(active, active, {} \cup U)
      OBVIOUS
    <2>1. \A item \in other : item[1] # active.ws
      BY <1>8 DEF WorksetsInv, Places
    <2>2. \A o \in Ordinals : <<active.ws, o>> \in U <=> o \in Remaining(active)
      BY <1>6, <2>1
    <2>3. Unreported(active) \subseteq Ordinals
      BY <1>4, PackageFacts DEF WorksetsInv, Unreported
    <2>4. \A o \in Unreported(active) : o \notin active.terminal /\ <<active.ws, o>> \notin U
      BY <1>5, <2>2, <2>3 DEF Unreported
    <2>5. \A o \in Ordinals : o < active.next \/ o >= active.next
      BY <1>4, PackageFacts DEF WorksetsInv
    <2>6. \A o \in Ordinals : \/ o \in active.terminal \cup active.suppressed \cup Unreported(active)
                              \/ <<active.ws, o>> \in U
      BY <1>4, <1>5, <2>2, <2>5 DEF Unreported
    <2> QED BY <2>3, <2>4, <2>6 DEF Leaves
  <1>11. Settles({}, U, Resident)
    <2>1. \A x \in Resident : \E p \in Resident : Leaves(p, x, {} \cup U)
      BY <1>9, <1>10 DEF Resident
    <2>2. ResidentIds = {x.ws : x \in Resident}
      BY DEF ResidentIds
    <2> QED BY <1>1, <1>2, <1>7, <1>8, <2>1, <2>2 DEF Settles
  <1>12. Resumes({})
    <2>1. NothingAdmitted /\ pending' \in Staging \cup {None} /\ inv' \in Invocation \cup {None}
      BY <1>1 DEF NothingAdmitted, WorksetsInv, Types
    <2>2. Progress'
      BY <1>1, <1>2 DEF Progress
    <2>3. Invoked'
      BY <1>1, <1>3 DEF WorksetsInv, Invoked
    <2>4. \A item \in started' : item \in started /\ report[item] = "executed"
      BY <1>1, <1>3 DEF WorksetsInv, Begun
    <2> QED BY <1>1, <2>1, <2>2, <2>3, <2>4 DEF Resumes
  <1> QED BY <1>2, <1>11, <1>12, SettlementKeeps

(* HandleAcknowledgeTerminal: a place becomes free; the last terminal of a *)
(* draining workset is followed by its summary.                            *)
LEMMA AcknowledgeKeeps ==
    ASSUME WorksetsInv, NEW item, HandleAcknowledgeTerminal(item)
    PROVE  WorksetsInv' /\ ReportStep
  <1> DEFINE ws == item[1]
             last == ws \in DOMAIN draining /\ draining[ws] = 1
  <1>1. /\ item \in retained /\ retained' = retained \ {item} /\ abandoned' = abandoned
        /\ draining' = [w \in DOMAIN draining \ (IF last THEN {ws} ELSE {}) |->
                          IF w = ws THEN draining[w] - 1 ELSE draining[w]]
        /\ ended' = ended \cup (IF last THEN {ws} ELSE {})
        /\ summarised \subseteq summarised'
        /\ summarised' \subseteq summarised \cup (IF last THEN {ws} ELSE {})
        /\ turn' \in {"start", "idle"}
        /\ UNCHANGED <<pending, active, staged, inv, report, accepted, publications, started,
                       suppressed>>
    <2>1. Forget(IF last THEN {ws} ELSE {})
      BY DEF HandleAcknowledgeTerminal
    <2>2. /\ ended' = ended \cup (IF last THEN {ws} ELSE {})
          /\ summarised \subseteq summarised'
          /\ summarised' \subseteq summarised \cup (IF last THEN {ws} ELSE {})
      <3> HIDE DEF last, ws
      <3> QED BY <2>1 DEF Forget
    <2> QED BY <2>2 DEF HandleAcknowledgeTerminal, packageVars, outputVars
  <1>2. /\ UNCHANGED <<Resident, ResidentIds, Open>>
        /\ Types' /\ Begun' /\ Progress' /\ Invoked'
    BY <1>1 DEF Resident, ResidentIds, Open, Missing, WorksetsInv, Types, Begun, Progress, Invoked,
       Unreported
  <1>3. item \in Items /\ retained \subseteq Items
    BY <1>1 DEF WorksetsInv, Types
  <1>4. \A w : /\ RetainedOf(w) \subseteq Items /\ RetainedOf(w)' \subseteq Items
               /\ w # ws => RetainedOf(w)' = RetainedOf(w)
    BY <1>1, <1>3 DEF RetainedOf
  <1>5. RetainedOf(ws)' = RetainedOf(ws) \ {item} /\ item \in RetainedOf(ws)
    BY <1>1 DEF RetainedOf
  <1>6. Cardinality(RetainedOf(ws)') = Cardinality(RetainedOf(ws)) - 1
    BY <1>4, <1>5, FiniteItems, FS_RemoveElement
  <1>7. /\ Cardinality(RetainedOf(ws)) \in Nat /\ Cardinality(RetainedOf(ws)') \in Nat
        /\ Cardinality(RetainedOf(ws)') = 0 <=> RetainedOf(ws)' = {}
    BY <1>4, FiniteItems
  <1> HIDE DEF ws
  <1>8. /\ DOMAIN draining' = DOMAIN draining \ (IF last THEN {ws} ELSE {})
        /\ \A w \in DOMAIN draining' : w # ws => draining'[w] = draining[w]
        /\ ws \in DOMAIN draining' => draining'[ws] = draining[ws] - 1
    BY <1>1
  <1>9. last => RetainedOf(ws)' = {}
    BY <1>6, <1>7 DEF WorksetsInv, Counted
  <1>10. ws \in DOMAIN draining /\ ~ last => RetainedOf(ws)' # {}
    BY <1>6, <1>7 DEF WorksetsInv, Counted
  <1>11. last => ws \in DOMAIN draining
    OBVIOUS
  <1> HIDE DEF last
  <1>12. Departed' = Departed
    BY <1>1, <1>8, <1>11 DEF Departed
  <1>13. Places'
    BY <1>1, <1>2, <1>8, <1>11, <1>12 DEF WorksetsInv, Places
  <1>14. Counted'
    <2>1. ASSUME NEW w \in DOMAIN draining'
          PROVE  draining'[w] = Cardinality(RetainedOf(w)') /\ RetainedOf(w)' # {}
      <3>1. w \in DOMAIN draining
        BY <1>8, <2>1
      <3>2. CASE w # ws
        BY <1>4, <1>8, <2>1, <3>1, <3>2 DEF WorksetsInv, Counted
      <3>3. CASE w = ws
        <4>1. ~ last
          BY <1>8, <2>1, <3>3
        <4> QED BY <1>6, <1>8, <1>10, <2>1, <3>1, <3>3, <4>1 DEF WorksetsInv, Counted
      <3> QED BY <3>2, <3>3
    <2>2. ASSUME NEW x \in retained'
          PROVE  x[1] \in ResidentIds' \cup DOMAIN draining'
      <3>1. x \in RetainedOf(x[1])' /\ x \in retained
        BY <1>1, <2>2 DEF RetainedOf
      <3> QED BY <1>2, <1>8, <1>9, <3>1 DEF WorksetsInv, Counted
    <2> QED BY <2>1, <2>2 DEF Counted
  <1>15. Reported'
    BY <1>1, <1>2, <1>12 DEF WorksetsInv, Reported
  <1>16. Reserved'
    <2>1. Occupied' \subseteq Occupied
      BY <1>1, <1>2 DEF Occupied, ItemsOf, Live
    <2>2. Occupied \subseteq Items
      BY OccupiedCount DEF WorksetsInv
    <2>3. Occupied' \subseteq Items
      BY <2>1, <2>2
    <2>4. Cardinality(Occupied') <= Cardinality(Occupied) /\ Cardinality(Occupied) \in Nat
          /\ Cardinality(Occupied') \in Nat
      BY <2>1, <2>2, <2>3, FiniteItems
    <2> QED BY <2>4, WorksetsAssumption DEF WorksetsInv, Reserved
  <1>17. ReportStep
    BY <1>1 DEF ReportStep
  <1> QED BY <1>2, <1>13, <1>14, <1>15, <1>16, <1>17 DEF WorksetsInv

-----------------------------------------------------------------------------
(* The theorems *)

(* No workset is in the worker yet. *)
LEMMA InitWorksets == Init => WorksetsInv
  <1> SUFFICES ASSUME Init PROVE WorksetsInv
    OBVIOUS
  <1>1. /\ Resident = {} /\ ResidentIds = {} /\ Open = {} /\ Departed = {}
        /\ ItemsOf(pending, Live(pending)) = {}
    BY DEF Init, Resident, ResidentIds, Open, Departed, ItemsOf
  <1>2. Types /\ Places /\ Reported
    BY <1>1 DEF Init, Types, Places, Reported
  <1>3. Counted /\ Progress /\ Invoked /\ Begun
    BY <1>1 DEF Init, Counted, Progress, Invoked, Begun
  <1>4. Reserved
    <2>1. Occupied = {} /\ Cardinality({}) = 0
      BY <1>1, FS_EmptySet DEF Init, Occupied
    <2> QED BY <2>1, WorksetsAssumption DEF Reserved
  <1> QED BY <1>2, <1>3, <1>4 DEF WorksetsInv

(* The steps that neither submit nor admit a workset report some open      *)
(* items, or nothing at all.                                               *)
Handling ==
    \/ Moves \/ Taints \/ BaselineReady \/ BaselineFails
    \/ WorksetEnds \/ ResetFails \/ StartFailsCleanly(TRUE) \/ StartFailsCleanly(FALSE)
    \/ ItemStarts("executing") \/ ItemStarts("limbo")
    \/ ExecutionEnds \/ Acknowledging
    \/ \E n \in Outputs : \E taken \in SUBSET (1 .. n) : ExecutionCompletes(n, taken)
    \/ \E job \in jobs, ok \in BOOLEAN : FinalizerCompletes(job, ok)
    \/ \E o \in Ordinals : CancelWaitingItem(o) \/ CancelStagedItem(o)
    \/ CancelStagedWorkset \/ CancelActiveWorkset \/ FinishShutdown

(* Every step submits, admits or handles. *)
LEMMA StepKinds ==
    ASSUME Next
    PROVE  \/ \E ws \in Worksets, sup \in SUBSET Ordinals : HandleSubmitWorkset(ws, sup)
           \/ StagingAdmitted
           \/ Handling
  <1>1. CASE Submitting
    BY <1>1 DEF Submitting, Handling, Moves, Taints
  <1>2. CASE Starting
    BY <1>2 DEF Starting, Handling, Moves, Taints
  <1>3. CASE Ending
    BY <1>3 DEF Ending, Handling, Taints
  <1>4. CASE Cancelling
    BY <1>4 DEF Cancelling, Handling, Moves, Taints
  <1>5. CASE Stopping
    BY <1>5 DEF Stopping, Handling, Moves, Taints
  <1>6. CASE Acknowledging
    BY <1>6 DEF Handling
  <1> QED BY <1>1, <1>2, <1>3, <1>4, <1>5, <1>6 DEF Next

(* What such a step does, handler by handler. *)
LEMMA HandlingKeeps ==
    ASSUME WorksetsInv, Handling
    PROVE  WorksetsInv' /\ ReportStep
  <1>1. CASE Moves
    BY <1>1, MovesKeep
  <1>2. CASE Taints
    BY <1>2, TaintsKeep
  <1>3. CASE BaselineReady
    BY <1>3, BaselineReadyKeeps
  <1>4. CASE BaselineFails
    BY <1>4, BaselineFailsKeeps
  <1>5. CASE WorksetEnds
    BY <1>5, WorksetEndsKeeps
  <1>6. CASE ResetFails
    BY <1>6, ResetFailsKeeps
  <1>7. CASE StartFailsCleanly(TRUE) \/ StartFailsCleanly(FALSE)
    BY <1>7, StartFailsCleanlyKeeps
  <1>8. CASE ItemStarts("executing") \/ ItemStarts("limbo")
    BY <1>8, ItemStartsKeeps
  <1>9. CASE ExecutionEnds
    BY <1>9, ExecutionEndsKeeps
  <1>10. CASE Acknowledging
    BY <1>10, AcknowledgeKeeps DEF Acknowledging
  <1>11. CASE \E n \in Outputs : \E taken \in SUBSET (1 .. n) : ExecutionCompletes(n, taken)
    BY <1>11, ExecutionCompletesKeeps
  <1>12. CASE \E job \in jobs, ok \in BOOLEAN : FinalizerCompletes(job, ok)
    BY <1>12, FinalizerCompletesKeeps
  <1>13. CASE \E o \in Ordinals : CancelWaitingItem(o) \/ CancelStagedItem(o)
    BY <1>13, CancelWaitingItemKeeps, CancelStagedItemKeeps
  <1>14. CASE CancelStagedWorkset
    BY <1>14, CancelStagedWorksetKeeps
  <1>15. CASE CancelActiveWorkset
    BY <1>15, CancelActiveWorksetKeeps
  <1>16. CASE FinishShutdown
    BY <1>16, FinishShutdownKeeps
  <1> QED BY <1>1, <1>2, <1>3, <1>4, <1>5, <1>6, <1>7, <1>8, <1>9, <1>10, <1>11, <1>12,
             <1>13, <1>14, <1>15, <1>16 DEF Handling

(* A step that changes nothing keeps the invariant. *)
LEMMA WorksetsStutter ==
    ASSUME WorksetsInv, UNCHANGED vars
    PROVE  WorksetsInv' /\ ReportStep
  <1>1. NothingAdmitted /\ pending' \in Staging \cup {None}
    BY DEF vars, NothingAdmitted, WorksetsInv, Types
  <1> QED BY <1>1, StillKeeps DEF vars, packageVars, reportVars, drainVars

(* Every step keeps the invariant. *)
LEMMA WorksetsStep ==
    ASSUME WorksetsInv, [Next]_vars
    PROVE  WorksetsInv'
  <1>1. CASE \E ws \in Worksets, sup \in SUBSET Ordinals : HandleSubmitWorkset(ws, sup)
    BY <1>1, SubmitKeeps
  <1>2. CASE StagingAdmitted
    BY <1>2, AdmitKeeps
  <1>3. CASE Handling
    BY <1>3, HandlingKeeps
  <1>4. CASE UNCHANGED vars
    BY <1>4, WorksetsStutter
  <1> QED BY <1>1, <1>2, <1>3, <1>4, StepKinds

(* The invariant holds in every reachable state, for any worksets, items   *)
(* and limits: the packages, the reports, the invocation, the draining     *)
(* counts and the places reserved for terminals fit each other after every *)
(* handler of the actor thread.                                            *)
THEOREM SpecWorksetsInv == Spec => []WorksetsInv
  <1>1. Init => WorksetsInv
    BY InitWorksets
  <1>2. WorksetsInv /\ [Next]_vars => WorksetsInv'
    BY WorksetsStep
  <1> QED BY <1>1, <1>2, PTL DEF Spec

(* RetainWorksetTerminal never finds the retained terminals at their       *)
(* limit: HandleSubmitWorkset admits a workset only against credits, and   *)
(* what cancellation, failure, taint or a late acknowledgement does        *)
(* afterwards only turns one claim on a place into another.                *)
THEOREM SpecTerminalPlaceReserved == Spec => []TerminalPlaceReserved
  <1>1. WorksetsInv => TerminalPlaceReserved
    BY OccupiedCount DEF WorksetsInv, Reserved, TerminalPlaceReserved
  <1> QED BY <1>1, SpecWorksetsInv, PTL

(* An item reported unstarted was never announced as started by            *)
(* StartNextWorksetItem, in whatever order cancellation, failure of a      *)
(* start, taint and shutdown reach it.                                     *)
THEOREM SpecUnstartedNeverRan == Spec => []UnstartedNeverRan
  <1>1. ASSUME WorksetsInv, NEW item \in started
        PROVE  report[item] # "unstarted"
    <2>1. CASE report[item] = "executed"
      BY <2>1
    <2>2. CASE inv # None /\ item = <<active.ws, inv.ord>>
      <3>1. active \in Resident /\ inv.ord \in Ordinals /\ inv.ord \notin active.terminal
        BY <1>1, <2>2, PackageFacts DEF WorksetsInv, Invoked, Resident
      <3> QED BY <1>1, <2>2, <3>1 DEF WorksetsInv, Reported
    <2> QED BY <1>1, <2>1, <2>2 DEF WorksetsInv, Begun
  <1>2. WorksetsInv => UnstartedNeverRan
    BY <1>1 DEF UnstartedNeverRan
  <1> QED BY <1>2, SpecWorksetsInv, PTL

(* An accepted workset is active, staged, draining or ended, in one of     *)
(* these places only; draining_worksets counts its unacknowledged          *)
(* terminals, and it ends only when there are none, with its summary       *)
(* published or lost.                                                      *)
THEOREM SpecWorksetInOnePlace == Spec => []WorksetInOnePlace
  <1>1. ASSUME WorksetsInv, NEW ws \in accepted
        PROVE  Cardinality({k \in 1 .. 4 : CASE k = 1 -> active # None /\ active.ws = ws
                                             [] k = 2 -> staged # None /\ staged.ws = ws
                                             [] k = 3 -> ws \in DOMAIN draining
                                             [] k = 4 -> ws \in ended}) = 1
    <2> DEFINE in == {k \in 1 .. 4 : CASE k = 1 -> active # None /\ active.ws = ws
                                       [] k = 2 -> staged # None /\ staged.ws = ws
                                       [] k = 3 -> ws \in DOMAIN draining
                                       [] k = 4 -> ws \in ended}
    <2>1. /\ 1 \in in <=> active # None /\ active.ws = ws
          /\ 2 \in in <=> staged # None /\ staged.ws = ws
          /\ 3 \in in <=> ws \in DOMAIN draining
          /\ 4 \in in <=> ws \in ended
      OBVIOUS
    <2>2. \A k \in in : k \in {1, 2, 3, 4}
      OBVIOUS
    <2> HIDE DEF in
    <2>3. ws \in ResidentIds <=> 1 \in in \/ 2 \in in
      BY <2>1 DEF ResidentIds, Resident
    <2>4. /\ 1 \in in \/ 2 \in in \/ 3 \in in \/ 4 \in in
          /\ ~ (1 \in in /\ 2 \in in) /\ ~ (3 \in in /\ 4 \in in)
          /\ ~ ((1 \in in \/ 2 \in in) /\ (3 \in in \/ 4 \in in))
      BY <1>1, <2>1, <2>3 DEF WorksetsInv, Places, Departed
    <2>5. in \in {{1}, {2}, {3}, {4}}
      <3>1. CASE 1 \in in
        <4>1. in = {1}
          BY <2>2, <2>4, <3>1
        <4> QED BY <4>1
      <3>2. CASE 2 \in in
        <4>1. in = {2}
          BY <2>2, <2>4, <3>2
        <4> QED BY <4>1
      <3>3. CASE 3 \in in
        <4>1. in = {3}
          BY <2>2, <2>4, <3>3
        <4> QED BY <4>1
      <3>4. CASE 4 \in in
        <4>1. in = {4}
          BY <2>2, <2>4, <3>4
        <4> QED BY <4>1
      <3> QED BY <2>4, <3>1, <3>2, <3>3, <3>4
    <2>6. Cardinality(in) = 1
      BY <2>5, FS_Singleton
    <2> QED BY <2>6 DEF in
  <1>2. ASSUME WorksetsInv, NEW ws \in DOMAIN draining
        PROVE  draining[ws] = Cardinality({item \in retained : item[1] = ws}) /\ draining[ws] > 0
    <2>1. draining[ws] = Cardinality(RetainedOf(ws)) /\ RetainedOf(ws) # {}
      BY <1>2 DEF WorksetsInv, Counted
    <2>2. RetainedOf(ws) \subseteq Items
      BY <1>2 DEF WorksetsInv, Types, RetainedOf
    <2>3. Cardinality(RetainedOf(ws)) \in Nat /\ Cardinality(RetainedOf(ws)) # 0
      BY <2>1, <2>2, FiniteItems
    <2> QED BY <2>1, <2>3 DEF RetainedOf
  <1>3. ASSUME WorksetsInv, NEW item \in retained
        PROVE  item[1] \notin ended
    BY <1>3 DEF WorksetsInv, Counted, Places, Departed
  <1>4. WorksetsInv => WorksetInOnePlace
    BY <1>1, <1>2, <1>3 DEF WorksetInOnePlace
  <1> QED BY <1>4, SpecWorksetsInv, PTL

(* A step that reports only open items is a step of the contract. *)
LEMMA ReportImplements ==
    ASSUME WorksetsInv, WorksetsInv', ReportStep
    PROVE  Reporting!Report
  <1>1. /\ UNCHANGED <<accepted, suppressed>>
        /\ \A item \in Items : report'[item] = report[item] \/ item \in Open
        /\ abandoned \subseteq abandoned' /\ summarised \subseteq summarised'
        /\ Sound' => abandoned' = abandoned
    BY DEF ReportStep
  <1>2. report' \in [Items -> {"none", "executed", "unstarted"}]
    BY DEF WorksetsInv, Types
  <1>3. \A item \in Items :
           \/ report'[item] = report[item]
           \/ /\ report[item] = "none" /\ item[1] \in accepted
              /\ item \notin suppressed \cup abandoned
    BY <1>1, OpenFacts DEF WorksetsInv, Places
  <1>4. abandoned' \in SUBSET {item \in Items : item[1] \in accepted /\ report'[item] = "none"}
    <2>1. \A item \in abandoned' : item \in Items /\ item[1] \in Departed' /\ report'[item] = "none"
      BY DEF WorksetsInv, Types, Reported
    <2>2. Departed' \subseteq accepted'
      BY DEF WorksetsInv, Places
    <2> QED BY <1>1, <2>1, <2>2
  <1>5. summarised' \in SUBSET accepted
    BY <1>1 DEF WorksetsInv, Places, Departed
  <1>6. \A ws \in summarised' \ summarised : Reporting!Accounted(ws)'
    <2>1. \A ws \in summarised' : \A o \in Ordinals :
             <<ws, o>> \in suppressed' \cup abandoned' \/ report'[<<ws, o>>] # "none"
      BY DEF WorksetsInv, Places, Reported, Departed
    <2>2. ASSUME NEW ws \in summarised', NEW item \in {ws} \X Ordinals
          PROVE  item \in suppressed' \cup abandoned' \/ report'[item] # "none"
      <3>1. PICK o \in Ordinals : item = <<ws, o>>
        BY <2>2
      <3> QED BY <2>1, <2>2, <3>1
    <2> QED BY <2>2 DEF Reporting!Accounted, Reporting!ItemsOf
  <1> QED BY <1>1, <1>2, <1>3, <1>4, <1>5, <1>6 DEF Reporting!Report, Reporting!Items, Items

(* The worker implements the reporting contract: whatever handlers run, in *)
(* whatever order, an admitted item gets at most one report, only a taint  *)
(* or a stop abandons one, and a workset is summarised only when each of   *)
(* its items is accounted for.                                             *)
THEOREM WorksetsImplementReporting == Spec => ReportingContract
  <1>1. Init => Reporting!Init
    BY DEF Init, Reporting!Init, Reporting!Items, Items
  <1>2. ASSUME WorksetsInv, WorksetsInv', [Next]_vars
        PROVE  [Reporting!Next]_(Reporting!reportingVars)
    <2>1. CASE \E ws \in Worksets, sup \in SUBSET Ordinals : HandleSubmitWorkset(ws, sup)
      BY <2>1 DEF HandleSubmitWorkset, reportVars, drainVars, Reporting!reportingVars
    <2>2. CASE StagingAdmitted
      <3>1. /\ pending.ws \in Worksets \ accepted /\ accepted' = accepted \cup {pending.ws}
            /\ \E S \in SUBSET ({pending.ws} \X Ordinals) : suppressed' = suppressed \cup S
            /\ UNCHANGED <<report, summarised, abandoned>>
        BY <1>2, <2>2, AdmitKeeps
      <3>2. Reporting!Admit(pending.ws)
        BY <3>1 DEF Reporting!Admit, Reporting!ItemsOf
      <3> QED BY <3>1, <3>2 DEF Reporting!Next
    <2>3. CASE Handling
      BY <1>2, <2>3, HandlingKeeps, ReportImplements DEF Reporting!Next
    <2>4. CASE UNCHANGED vars
      BY <2>4 DEF vars, Reporting!reportingVars
    <2> QED BY <1>2, <2>1, <2>2, <2>3, <2>4, StepKinds
  <1>3. WorksetsInv /\ WorksetsInv' /\ [Next]_vars => [Reporting!Next]_(Reporting!reportingVars)
    BY <1>2
  <1> QED BY <1>1, <1>3, SpecWorksetsInv, PTL DEF Spec, ReportingContract, Reporting!Spec
=============================================================================
