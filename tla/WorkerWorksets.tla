--------------------------- MODULE WorkerWorksets ---------------------------
(***************************************************************************)
(* The worker's workset lifecycle                                          *)
(* (SavorCore/Runner/Runtime/WorkerRuntime.cpp): admission against item    *)
(* credits, one active and one staged workset, items executed one at a     *)
(* time, cancellation of items, worksets and invocations, finalization of  *)
(* an item's outputs, retained terminals and their acknowledgement,        *)
(* graceful shutdown, force stop and session taint.                        *)
(*                                                                         *)
(* Everything here runs on the actor thread.  A handler is one action;     *)
(* where it ends in a call of another handler (StartNextWorksetItem,       *)
(* ActivateCurrentWorkset, FinishShutdown, AdvanceShutdown) the variable   *)
(* turn names that call and no other action is enabled until it is made.   *)
(* A command that is rejected without an effect is a disabled action.      *)
(***************************************************************************)
EXTENDS Integers, FiniteSets, FiniteSetsExt

CONSTANTS
    Worksets,       \* workset identities; the items of each are numbered
    ItemCount,      \* items of a workset
    MaxOutputs,     \* outputs one item may stage
    MaxItems,       \* workset_limits.maximum_active_and_staged_items
    MaxCredits,     \* workset_limits.maximum_item_credits
    MaxTerminals,   \* workset_limits.maximum_retained_terminals
    None            \* an empty std::optional

ASSUME WorksetsAssumption ==
    /\ ItemCount \in Nat \ {0}
    /\ MaxOutputs \in Nat
    /\ {MaxItems, MaxCredits, MaxTerminals} \subseteq Nat
    /\ IsFiniteSet(Worksets)

VARIABLES
    worker,        \* current_snapshot.state
    shutdown,      \* pending_shutdown_commands is not empty
    forced,        \* FinishShutdown(true) was called
    turn,          \* the call the running handler still has to make
    pending,       \* pending_workset_staging
    active,        \* active_workset
    staged,        \* staged_workset
    begin,         \* mailbox->workset_begin_queued
    inv,           \* active_invocation
    retained,      \* the items of retained_terminals
    draining,      \* draining_worksets: workset -> unacknowledged
    accepted,      \* accepted_workset_submissions
    jobs,          \* finalizer jobs accepted and not yet drained
    publications,  \* artifact_publications
    started,       \* items whose ItemStarted event was published
    suppressed,    \* items left out by the cancellation sidecars
    report,        \* the terminal retained for each item
    ended,         \* worksets that left it all: the worker has forgotten them
    summarised,    \* those of them whose summary was published
    abandoned      \* items that left with their workset, cancelled and without a terminal

vars == <<worker, shutdown, forced, turn, pending, active, staged, begin, inv, retained,
          draining, accepted, jobs, publications, started, suppressed, report, ended,
          summarised, abandoned>>
sessionVars == <<worker, shutdown, forced>>
packageVars == <<active, staged>>
reportVars  == <<retained, report>>
drainVars   == <<draining, ended, summarised, abandoned>>
outputVars  == <<jobs, publications>>

Ordinals == 1 .. ItemCount
Items == Worksets \X Ordinals
Outputs == 1 .. MaxOutputs

WorkerStates == {"Ready", "Running", "Cancelling", "Stopping", "Tainted", "Stopped"}
Turns == {"idle", "start", "activate", "advance", "stop"}
Package ==
    [ws : Worksets, next : 1 .. ItemCount + 1, suppressed : SUBSET Ordinals,
     cancelled : SUBSET Ordinals, terminal : SUBSET Ordinals,
     closed : BOOLEAN, phase : {"Admitted", "Ready", "Running"}]
(* "limbo": active_invocation is set but ProgramRuntime was never started. *)
(* "executing": ProgramRuntime holds the invocation.  "finalizing":        *)
(* ProgramRuntime handed the finished execution over and forgot it.        *)
Invocation ==
    [ord : Ordinals, token : {"none", "external", "shutdown"},
     phase : {"limbo", "executing", "finalizing"}]
Staging == [ws : Worksets, suppressed : SUBSET Ordinals, cancelled : BOOLEAN]
Reports == {"none", "executed", "unstarted", "twice"}

ASSUME NoneAssumption == None \notin Package \cup Staging \cup Invocation

Init ==
    /\ worker = "Ready" /\ shutdown = FALSE /\ forced = FALSE /\ turn = "idle"
    /\ pending = None /\ active = None /\ staged = None /\ begin = FALSE /\ inv = None
    /\ retained = {} /\ draining = [ws \in {} |-> 0] /\ accepted = {}
    /\ jobs = {} /\ publications = {} /\ started = {} /\ suppressed = {}
    /\ report = [item \in Items |-> "none"]
    /\ ended = {} /\ summarised = {} /\ abandoned = {}

-----------------------------------------------------------------------------
(* Credits.                                                                *)

(* Items of a package without a terminal that were not left out. *)
Missing(p) == IF p = None THEN {} ELSE Ordinals \ (p.terminal \cup p.suppressed)
Live(p) == IF p = None THEN {} ELSE Ordinals \ p.suppressed

ResidentItemCount ==
    Cardinality(Missing(active)) + Cardinality(Missing(staged)) + Cardinality(Live(pending))

ItemsOf(p, S) == IF p = None THEN {} ELSE {p.ws} \X S

CreditedItemCount ==
    Cardinality(ItemsOf(active, Missing(active)) \cup ItemsOf(staged, Missing(staged))
                \cup ItemsOf(pending, Live(pending)) \cup retained
                \cup {j[1] : j \in publications})

PositivePart(n) == IF n < 0 THEN 0 ELSE n

(* Defect: the terminals still to be acknowledged are not counted. *)
AvailableItemCreditsResident ==
    Min({PositivePart(MaxCredits - CreditedItemCount),
         PositivePart(MaxTerminals - ResidentItemCount)})

AvailableItemCredits ==
    Min({PositivePart(MaxCredits - CreditedItemCount),
         PositivePart(MaxTerminals - (Cardinality(retained) + ResidentItemCount))})

-----------------------------------------------------------------------------
(* Terminals and the end of a workset.                                     *)

(* RetainWorksetTerminal for every item of two sets.  The terminalized     *)
(* check of the code taints the worker; "twice" marks that it was met.     *)
Retain(executed, unstarted) ==
    /\ retained' = retained \cup executed \cup unstarted
    /\ report' =
         [item \in Items |->
            IF item \notin executed \cup unstarted THEN report[item]
            ELSE IF report[item] # "none" \/ item \in executed \cap unstarted THEN "twice"
            ELSE IF item \in executed THEN "executed" ELSE "unstarted"]

Unacknowledged(ws) == Cardinality({item \in retained' : item[1] = ws})

(* PublishWorksetSummary for the worksets of W, of which no terminal is    *)
(* retained any more.  A summary is lost if NextOutboundSequence gives no  *)
(* number or the sink refuses it; its workset is forgotten all the same.   *)
Forget(W) ==
    /\ ended' = ended \cup W
    /\ \E sent \in SUBSET W : summarised' = summarised \cup sent

(* MoveToDraining for the packages of P. *)
MoveToDraining(P) ==
    LET gone  == {p.ws : p \in P}
        quiet == {ws \in gone : Unacknowledged(ws) = 0}
    IN /\ draining' = [ws \in DOMAIN draining \cup (gone \ quiet) |->
                         IF ws \in gone THEN Unacknowledged(ws) ELSE draining[ws]]
       /\ Forget(quiet)
       /\ abandoned' = abandoned \cup
            UNION {ItemsOf(p, p.cancelled \ (p.terminal \cup p.suppressed)) : p \in P}

(* FailRemainingWorksetItems: the items it terminalizes. *)
Remaining(p) == {o \in p.next .. ItemCount : o \notin p.cancelled \cup p.terminal}

(* The active item's terminal: CloseActiveItemAfterTerminalRetention. *)
AfterItem(p, ord) == [p EXCEPT !.terminal = @ \cup {ord}, !.next = ord + 1]

(* Defect: the staged successor is reset with the finished workset. *)
FinishCurrentWorksetDropsStaged(p) ==
    /\ MoveToDraining({p})
    /\ active' = None /\ staged' = None /\ turn' = "idle"
    /\ worker' = IF worker = "Stopping" THEN worker ELSE "Ready"

(* FinishCurrentWorkset: package p leaves and a staged successor is promoted. *)
FinishCurrentWorkset(p) ==
    /\ MoveToDraining({p})
    /\ IF staged # None /\ worker # "Stopping"
       THEN active' = staged /\ staged' = None /\ turn' = "activate" /\ worker' = worker
       ELSE /\ active' = None /\ staged' = staged /\ turn' = "idle"
            /\ worker' = IF worker = "Stopping" THEN worker ELSE "Ready"

(* EnterTainted: the active item and what remains of package p are failed, *)
(* the staged successor is failed, and both leave.  executed and unstarted *)
(* are the items the calling handler terminalized before.                  *)
EnterTainted(p, executed, unstarted) ==
    LET mine == IF inv = None \/ p = None THEN {} ELSE {<<p.ws, inv.ord>>}
        left == IF mine = {} THEN p ELSE AfterItem(p, inv.ord)
        rest == IF p = None THEN {} ELSE ItemsOf(p, Remaining(left))
    IN /\ Retain(executed \cup mine,
                 unstarted \cup rest \cup ItemsOf(staged, Missing(staged)))
       /\ MoveToDraining({left, staged} \ {None})
       /\ publications' = {j \in publications : j[1] \notin mine}
       /\ active' = None /\ staged' = None /\ inv' = None /\ worker' = "Tainted"

(* CloseActiveWorksetAdmissionAfterPublication: later items are marked     *)
(* cancelled; their terminals are left to StartNextWorksetItem.            *)
CloseAdmission(p, ord) ==
    IF p.closed THEN p
    ELSE [p EXCEPT !.closed = TRUE,
                   !.cancelled = @ \cup {o \in p.next .. ItemCount :
                                           o # ord /\ o \notin p.terminal}]

(* mailbox->accept_commands *)
Commands == turn = "idle" /\ ~shutdown /\ worker # "Stopped"

-----------------------------------------------------------------------------
(* Submission and staging.                                                 *)

(* HandleSubmitWorkset, up to the hand-over to the host stager.  A repeat  *)
(* of an accepted submission only repeats its receipt.                     *)
HandleSubmitWorkset(ws, sup) ==
    /\ Commands /\ worker \in {"Ready", "Running", "Cancelling"}
    /\ ws \notin accepted /\ staged = None /\ pending = None
    /\ LET live == Cardinality(Ordinals \ sup)
       IN /\ ResidentItemCount + live <= MaxItems
          /\ live <= AvailableItemCredits
    /\ pending' = [ws |-> ws, suppressed |-> sup, cancelled |-> FALSE]
    /\ UNCHANGED <<sessionVars, turn, packageVars, begin, inv, reportVars, drainVars,
                   accepted, outputVars, started, suppressed>>

(* DrainWorksetStager rejects: staging failed, was cancelled, or the       *)
(* worker no longer admits.                                                *)
StagingRejected ==
    /\ pending # None /\ turn \in {"idle", "stop"}
    /\ pending' = None
    /\ UNCHANGED <<sessionVars, turn, packageVars, begin, inv, reportVars, drainVars,
                   accepted, outputVars, started, suppressed>>

(* DrainWorksetStager admits.  Inside a force stop the activation that     *)
(* follows has no lasting effect.                                          *)
StagingAdmitted ==
    /\ pending # None /\ turn \in {"idle", "stop"}
    /\ ~pending.cancelled /\ staged = None
    /\ worker \notin {"Stopping", "Stopped", "Tainted"}
    /\ LET p == [ws |-> pending.ws, next |-> 1, suppressed |-> pending.suppressed,
                 cancelled |-> pending.suppressed, terminal |-> {}, closed |-> FALSE,
                 phase |-> "Admitted"]
       IN IF active = None /\ inv = None
          THEN active' = p /\ staged' = staged
               /\ turn' = IF turn = "stop" THEN turn ELSE "activate"
          ELSE staged' = p /\ UNCHANGED <<active, turn>>
    /\ accepted' = accepted \cup {pending.ws}
    /\ suppressed' = suppressed \cup ItemsOf(pending, pending.suppressed)
    /\ pending' = None
    /\ UNCHANGED <<sessionVars, begin, inv, reportVars, drainVars, outputVars, started>>

(* Defect: the start of the first item is not queued. *)
BaselineReadyUnqueued ==
    /\ turn = "activate"
    /\ active' = [active EXCEPT !.phase = "Ready"]
    /\ worker' = "Ready" /\ begin' = begin /\ turn' = "idle"
    /\ UNCHANGED <<shutdown, forced, pending, staged, inv, reportVars, drainVars, accepted,
                   outputVars, started, suppressed>>

(* ActivateCurrentWorkset *)
BaselineReady ==
    /\ turn = "activate"
    /\ active' = [active EXCEPT !.phase = "Ready"]
    /\ worker' = "Ready" /\ begin' = TRUE /\ turn' = "idle"
    /\ UNCHANGED <<shutdown, forced, pending, staged, inv, reportVars, drainVars, accepted,
                   outputVars, started, suppressed>>

BaselineFails ==
    /\ turn = "activate"
    /\ Retain({}, ItemsOf(active, Remaining(active)))
    /\ FinishCurrentWorkset(active)
    /\ UNCHANGED <<shutdown, forced, pending, begin, inv, accepted, outputVars, started,
                   suppressed>>

BaselineTaints ==
    /\ turn = "activate"
    /\ EnterTainted(active, {}, {})
    /\ turn' = "idle"
    /\ UNCHANGED <<shutdown, forced, pending, begin, accepted, jobs, started, suppressed>>

(* BeginReadyWorksetExecution *)
BeginReadyWorksetExecution ==
    /\ begin /\ turn = "idle" /\ worker # "Stopped"
    /\ begin' = FALSE
    /\ turn' = IF active # None /\ inv = None /\ active.phase = "Ready" THEN "start" ELSE "idle"
    /\ UNCHANGED <<sessionVars, pending, packageVars, inv, reportVars, drainVars, accepted,
                   outputVars, started, suppressed>>

-----------------------------------------------------------------------------
(* StartNextWorksetItem.                                                   *)

StartTurn == turn = "start" /\ active # None /\ inv = None
CanRetain == Cardinality(retained) < MaxTerminals

(* The loop over next_item: the first item neither cancelled nor terminal, *)
(* and the items before it that were cancelled without a terminal.         *)
NextItem == Min({o \in active.next .. ItemCount : o \notin active.cancelled \cup active.terminal}
                \cup {ItemCount + 1})

(* Defect: items cancelled without a terminal are passed over. *)
PassedOverSilently == {}

PassedOver ==
    {o \in active.next .. NextItem - 1 :
       o \in active.cancelled /\ o \notin active.terminal \cup active.suppressed}

Advanced == [active EXCEPT !.next = NextItem, !.terminal = @ \cup PassedOver]
PassedItems == ItemsOf(active, PassedOver)

(* No credit to retain a terminal, or the workset ended in this turn. *)
StartBlocked ==
    /\ turn = "start"
    /\ active = None \/ inv # None \/ ~CanRetain
    /\ turn' = "idle"
    /\ UNCHANGED <<sessionVars, pending, packageVars, begin, inv, reportVars, drainVars,
                   accepted, outputVars, started, suppressed>>

WorksetEnds ==
    /\ StartTurn /\ CanRetain /\ NextItem > ItemCount
    /\ Retain({}, PassedItems)
    /\ FinishCurrentWorkset(Advanced)
    /\ UNCHANGED <<shutdown, forced, pending, begin, inv, accepted, outputVars, started,
                   suppressed>>

(* FinishCurrentWorkset when releasing the baseline taints the session. *)
WorksetEndTaints ==
    /\ StartTurn /\ CanRetain /\ NextItem > ItemCount
    /\ EnterTainted(Advanced, {}, PassedItems)
    /\ turn' = "idle"
    /\ UNCHANGED <<shutdown, forced, pending, begin, accepted, jobs, started, suppressed>>

Startable == StartTurn /\ CanRetain /\ NextItem <= ItemCount

(* The session did not return to the baseline after the previous item. *)
ResetFails ==
    /\ Startable /\ NextItem # 1
    /\ Retain({}, PassedItems \cup ItemsOf(active, Remaining(Advanced)))
    /\ FinishCurrentWorkset(Advanced)
    /\ UNCHANGED <<shutdown, forced, pending, begin, inv, accepted, outputVars, started,
                   suppressed>>

StartTaints ==
    /\ Startable
    /\ \/ EnterTainted(Advanced, {}, PassedItems) /\ started' = started
       \/ \* the derived state, or what follows once the start is announced
          /\ EnterTainted(AfterItem(Advanced, NextItem), {<<active.ws, NextItem>>}, PassedItems)
          /\ started' \in {started, started \cup {<<active.ws, NextItem>>}}
    /\ turn' = "idle"
    /\ UNCHANGED <<shutdown, forced, pending, begin, accepted, jobs, suppressed>>

(* The derived state cannot be activated, or, once the start is announced, *)
(* AttachActiveWorksetCapture fails cleanly: the item ends at once.        *)
StartFailsCleanly(announced) ==
    /\ Startable
    /\ Retain({<<active.ws, NextItem>>}, PassedItems)
    /\ active' = [AfterItem(Advanced, NextItem) EXCEPT !.phase = IF announced THEN "Running" ELSE @]
    /\ started' = IF announced THEN started \cup {<<active.ws, NextItem>>} ELSE started
    /\ worker' = IF announced THEN "Running" ELSE worker
    /\ turn' = IF shutdown THEN "stop" ELSE "start"
    /\ UNCHANGED <<shutdown, forced, pending, staged, begin, inv, drainVars, accepted,
                   outputVars, suppressed>>

(* The start is announced and ProgramRuntime accepts; or a terminal that   *)
(* waits for its retry holds the outbound sequence, NextOutboundSequence   *)
(* gives none and the handler returns with the invocation recorded.        *)
ItemStarts(phase) ==
    /\ Startable
    /\ phase = "limbo" => retained \cup PassedItems # {}
    /\ Retain({}, PassedItems)
    /\ active' = [Advanced EXCEPT !.phase = "Running"]
    /\ inv' = [ord |-> NextItem, token |-> "none", phase |-> phase]
    /\ started' = IF phase = "limbo" THEN started ELSE started \cup {<<active.ws, NextItem>>}
    /\ worker' = "Running" /\ turn' = "idle"
    /\ UNCHANGED <<shutdown, forced, pending, staged, begin, drainVars, accepted, outputVars,
                   suppressed>>

-----------------------------------------------------------------------------
(* The end of an invocation.                                               *)

ActiveItem == <<active.ws, inv.ord>>

(* TryRetainActiveItemTerminal succeeds and the active item is closed. *)
CloseItem(p) ==
    /\ Retain({ActiveItem}, {})
    /\ active' = AfterItem(p, inv.ord)
    /\ inv' = None
    /\ turn' = IF shutdown THEN "stop" ELSE "start"

(* HandleInvocationTerminal for an execution that failed or was cancelled  *)
(* cleanly, or completed without outputs.  A cancellation accepted first   *)
(* turns a completion into a cancellation and abandons the outputs.        *)
ExecutionEnds ==
    /\ turn = "idle" /\ inv # None /\ inv.phase = "executing"
    /\ CloseItem(active)
    /\ UNCHANGED <<sessionVars, pending, staged, begin, drainVars, accepted, outputVars,
                   started, suppressed>>

(* HandleInvocationTerminal whose cleanup did not prove a clean session,   *)
(* and every other caller of EnterTainted while the session is open.       *)
IntegrityLost ==
    /\ turn = "idle" /\ worker \notin {"Tainted", "Stopped"}
    /\ EnterTainted(active, {}, {})
    /\ turn' = IF shutdown THEN "advance" ELSE "idle"
    /\ UNCHANGED <<shutdown, forced, pending, begin, accepted, jobs, started, suppressed>>

(* HandleInvocationTerminal of a completed execution with staged outputs:  *)
(* FinalizeActiveOutputs submits output 1 .. n and the finalizer accepts   *)
(* those of taken.  If it refuses one, the transaction is sealed for       *)
(* abandonment, which already counts the accepted ones as abandoned, so    *)
(* the terminal is retained at once and their publications are dropped.    *)
ExecutionCompletes(n, taken) ==
    /\ turn = "idle" /\ inv # None /\ inv.phase = "executing" /\ inv.token = "none"
    /\ jobs' = jobs \cup (ItemsOf(active, {inv.ord}) \X taken)
    /\ IF taken = 1 .. n
       THEN /\ publications' = publications \cup (ItemsOf(active, {inv.ord}) \X taken)
            /\ inv' = [inv EXCEPT !.phase = "finalizing"]
            /\ turn' = IF shutdown THEN "advance" ELSE "idle"
            /\ UNCHANGED <<active, reportVars>>
       ELSE CloseItem(CloseAdmission(active, inv.ord)) /\ publications' = publications
    /\ UNCHANGED <<sessionVars, pending, staged, begin, drainVars, accepted, started,
                   suppressed>>

(* DrainArtifactFinalizers for a completion whose publication is known.    *)
(* A failed one closes the admission of later items; the last one retains  *)
(* the terminal.                                                           *)
FinalizerCompletes(job, ok) ==
    /\ turn = "idle" /\ worker # "Stopped" /\ job \in jobs \cap publications
    /\ jobs' = jobs \ {job}
    /\ LET p == IF ok THEN active ELSE CloseAdmission(active, inv.ord)
       IN IF \E other \in jobs' : other[1] = job[1]
          THEN active' = p /\ UNCHANGED <<turn, inv, reportVars, publications>>
          ELSE CloseItem(p) /\ publications' = {j \in publications : j[1] # job[1]}
    /\ UNCHANGED <<sessionVars, pending, staged, begin, drainVars, accepted, started,
                   suppressed>>

(* DrainArtifactFinalizers for a completion without a publication. *)
StrayCompletion ==
    /\ turn = "idle" /\ worker # "Stopped"
    /\ \E job \in jobs \ publications : jobs' = jobs \ {job}
    /\ EnterTainted(active, {}, {})
    /\ turn' = IF shutdown THEN "advance" ELSE "idle"
    /\ UNCHANGED <<shutdown, forced, pending, begin, accepted, started, suppressed>>

-----------------------------------------------------------------------------
(* Cancellation.                                                           *)

(* RequestActiveWorksetCancellation can succeed: ProgramRuntime holds the  *)
(* invocation and its token is not set.                                    *)
Cancellable == inv # None /\ inv.phase = "executing" /\ inv.token = "none"

(* HandleCancel.  Once ProgramRuntime has handed the execution over it     *)
(* rejects the cancellation, and the handler taints the session.           *)
HandleCancel ==
    /\ Commands /\ inv # None /\ inv.token = "none"
    /\ IF Cancellable
       THEN /\ inv' = [inv EXCEPT !.token = "external"]
            /\ worker' = "Cancelling"
            /\ UNCHANGED <<packageVars, reportVars, drainVars, publications>>
       ELSE EnterTainted(active, {}, {})
    /\ UNCHANGED <<shutdown, forced, turn, pending, begin, accepted, jobs, started, suppressed>>

Cancels(p, o) == o \notin p.cancelled \cup p.terminal
Cancelled(p, S) == [p EXCEPT !.cancelled = @ \cup S, !.terminal = @ \cup S]

(* HandleCancelWorksetItem for the item that is being executed. *)
CancelActiveItem ==
    /\ Commands /\ Cancellable /\ Cancels(active, inv.ord)
    /\ inv' = [inv EXCEPT !.token = "external"]
    /\ worker' = "Cancelling"
    /\ UNCHANGED <<shutdown, forced, turn, pending, packageVars, begin, reportVars, drainVars,
                   accepted, outputVars, started, suppressed>>

(* Defect: an item that is being executed is cancelled as if it waited. *)
CancelWaitingItemAny(o) ==
    /\ Commands /\ active # None /\ Cancels(active, o) /\ o >= active.next
    /\ Retain({}, ItemsOf(active, {o}))
    /\ active' = Cancelled(active, {o})
    /\ turn' = IF o = active.next /\ inv = None THEN "start" ELSE "idle"
    /\ UNCHANGED <<sessionVars, pending, staged, begin, inv, drainVars, accepted, outputVars,
                   started, suppressed>>

(* HandleCancelWorksetItem for an item of the active workset that waits. *)
CancelWaitingItem(o) ==
    /\ Commands /\ active # None /\ Cancels(active, o) /\ o >= active.next
    /\ inv # None => inv.ord # o
    /\ Retain({}, ItemsOf(active, {o}))
    /\ active' = Cancelled(active, {o})
    /\ turn' = IF o = active.next /\ inv = None THEN "start" ELSE "idle"
    /\ UNCHANGED <<sessionVars, pending, staged, begin, inv, drainVars, accepted, outputVars,
                   started, suppressed>>

(* HandleCancelWorksetItem for an item of the staged workset. *)
CancelStagedItem(o) ==
    /\ Commands /\ staged # None /\ Cancels(staged, o)
    /\ Retain({}, ItemsOf(staged, {o}))
    /\ staged' = Cancelled(staged, {o})
    /\ UNCHANGED <<sessionVars, turn, pending, active, begin, inv, drainVars, accepted,
                   outputVars, started, suppressed>>

(* HandleCancelWorkset, by where the workset is. *)
CancelPendingWorkset ==
    /\ Commands /\ pending # None /\ ~pending.cancelled
    /\ pending' = [pending EXCEPT !.cancelled = TRUE]
    /\ UNCHANGED <<sessionVars, turn, packageVars, begin, inv, reportVars, drainVars, accepted,
                   outputVars, started, suppressed>>

CancelStagedWorkset ==
    /\ Commands /\ staged # None
    /\ Retain({}, ItemsOf(staged, {o \in Ordinals : Cancels(staged, o)}))
    /\ MoveToDraining({staged})
    /\ staged' = None
    /\ UNCHANGED <<sessionVars, turn, pending, active, begin, inv, accepted, outputVars,
                   started, suppressed>>

CancelActiveWorkset ==
    /\ Commands /\ active # None /\ ~active.closed
    /\ LET S == {o \in active.next .. ItemCount :
                   Cancels(active, o) /\ (inv # None => inv.ord # o)}
       IN /\ Retain({}, ItemsOf(active, S))
          /\ active' = [Cancelled(active, S) EXCEPT !.closed = TRUE]
    /\ inv' = IF Cancellable THEN [inv EXCEPT !.token = "external"] ELSE inv
    /\ worker' = IF Cancellable THEN "Cancelling" ELSE worker
    /\ turn' = IF inv = None THEN "start" ELSE "idle"
    /\ UNCHANGED <<shutdown, forced, pending, staged, begin, drainVars, accepted, outputVars,
                   started, suppressed>>

-----------------------------------------------------------------------------
(* HandleAcknowledgeTerminal *)

HandleAcknowledgeTerminal(item) ==
    /\ Commands /\ item \in retained
    /\ retained' = retained \ {item}
    /\ LET ws == item[1]
           last == ws \in DOMAIN draining /\ draining[ws] = 1
       IN /\ draining' = [w \in DOMAIN draining \ (IF last THEN {ws} ELSE {}) |->
                            IF w = ws THEN draining[w] - 1 ELSE draining[w]]
          /\ Forget(IF last THEN {ws} ELSE {})
          /\ abandoned' = abandoned
    /\ turn' = IF active # None /\ inv = None THEN "start" ELSE "idle"
    /\ UNCHANGED <<sessionVars, pending, packageVars, begin, inv, report, accepted, outputVars,
                   started, suppressed>>

-----------------------------------------------------------------------------
(* Shutdown.                                                               *)

HandleShutdown ==
    /\ Commands
    /\ shutdown' = TRUE /\ worker' = "Stopping" /\ turn' = "advance"
    /\ UNCHANGED <<forced, pending, packageVars, begin, inv, reportVars, drainVars, accepted,
                   outputVars, started, suppressed>>

(* AdvanceShutdown while the guest runs: it asks the execution to stop and *)
(* is called again in later turns.                                         *)
ShutdownWaits ==
    /\ turn = "advance" /\ inv # None /\ inv.phase = "executing"
    /\ turn' = "idle"
    /\ UNCHANGED <<sessionVars, pending, packageVars, begin, inv, reportVars, drainVars,
                   accepted, outputVars, started, suppressed>>

(* AdvanceShutdown with the guest paused: the program is cancelled once.   *)
(* If ProgramRuntime no longer holds the invocation, or the token was set  *)
(* by an earlier cancellation, the session is tainted.                     *)
ShutdownCancels ==
    /\ turn = "advance" \/ (turn = "idle" /\ shutdown)
    /\ inv # None /\ inv.token # "shutdown"
    /\ IF Cancellable
       THEN /\ inv' = [inv EXCEPT !.token = "shutdown"]
            /\ turn' = "idle"
            /\ UNCHANGED <<worker, packageVars, reportVars, drainVars, publications>>
       ELSE EnterTainted(active, {}, {}) /\ turn' = "stop"
    /\ UNCHANGED <<shutdown, forced, pending, begin, accepted, jobs, started, suppressed>>

ShutdownFinishes ==
    /\ turn = "advance" /\ inv = None
    /\ turn' = "stop"
    /\ UNCHANGED <<sessionVars, pending, packageVars, begin, inv, reportVars, drainVars,
                   accepted, outputVars, started, suppressed>>

(* ForceStop: an active invocation taints the session first. *)
ForceStop ==
    /\ turn = "idle" /\ worker # "Stopped"
    /\ forced' = TRUE /\ turn' = "stop"
    /\ IF inv # None
       THEN EnterTainted(active, {}, {})
       ELSE UNCHANGED <<worker, packageVars, inv, reportVars, drainVars, publications>>
    /\ UNCHANGED <<shutdown, pending, begin, accepted, jobs, started, suppressed>>

(* FinishShutdown, after the stager was shut down and drained: what is     *)
(* resident is failed, the finalizer is drained, the worker stops.         *)
FinishShutdown ==
    /\ turn = "stop" /\ pending = None
    /\ Retain({}, (IF active = None THEN {} ELSE ItemsOf(active, Remaining(active)))
                  \cup (IF staged = None THEN {}
                        ELSE ItemsOf(staged, {o \in Ordinals : Cancels(staged, o)})))
    /\ MoveToDraining({active, staged} \ {None})
    /\ active' = None /\ staged' = None /\ jobs' = {}
    /\ worker' = "Stopped" /\ shutdown' = FALSE /\ turn' = "idle" /\ begin' = FALSE
    /\ UNCHANGED <<forced, pending, inv, accepted, publications, started, suppressed>>

-----------------------------------------------------------------------------
Submitting ==
    \/ \E ws \in Worksets, sup \in SUBSET Ordinals : HandleSubmitWorkset(ws, sup)
    \/ StagingRejected \/ StagingAdmitted
    \/ BaselineReady \/ BaselineFails \/ BaselineTaints \/ BeginReadyWorksetExecution

Starting ==
    \/ StartBlocked \/ WorksetEnds \/ WorksetEndTaints \/ ResetFails \/ StartTaints
    \/ StartFailsCleanly(TRUE) \/ StartFailsCleanly(FALSE)
    \/ ItemStarts("executing") \/ ItemStarts("limbo")

Ending ==
    \/ ExecutionEnds \/ IntegrityLost \/ StrayCompletion
    \/ \E n \in Outputs : \E taken \in SUBSET (1 .. n) : ExecutionCompletes(n, taken)
    \/ \E job \in jobs, ok \in BOOLEAN : FinalizerCompletes(job, ok)

Cancelling ==
    \/ HandleCancel \/ CancelActiveItem
    \/ \E o \in Ordinals : CancelWaitingItem(o) \/ CancelStagedItem(o)
    \/ CancelPendingWorkset \/ CancelStagedWorkset \/ CancelActiveWorkset

Stopping ==
    \/ HandleShutdown \/ ShutdownWaits \/ ShutdownCancels \/ ShutdownFinishes
    \/ ForceStop \/ FinishShutdown

Acknowledging == \E item \in retained : HandleAcknowledgeTerminal(item)

Next == Submitting \/ Starting \/ Ending \/ Cancelling \/ Stopping \/ Acknowledging

Spec == Init /\ [][Next]_vars

(* What the actor, the finalizer and a fair peer do: handlers that owe a   *)
(* call make it, programs end, finalizers complete, terminals are          *)
(* acknowledged.                                                           *)
Fairness ==
    /\ WF_vars(StagingRejected \/ StagingAdmitted)
    /\ WF_vars(BaselineReady \/ BaselineFails \/ BaselineTaints)
    /\ WF_vars(BeginReadyWorksetExecution)
    /\ WF_vars(Starting)
    /\ WF_vars(ExecutionEnds)
    /\ WF_vars(\E job \in jobs, ok \in BOOLEAN : FinalizerCompletes(job, ok))
    /\ WF_vars(Acknowledging)
    /\ WF_vars(ShutdownWaits \/ ShutdownCancels \/ ShutdownFinishes \/ FinishShutdown)

LiveSpec == Spec /\ Fairness

-----------------------------------------------------------------------------
(* Properties.                                                             *)

WorksetsTypeOK ==
    /\ worker \in WorkerStates /\ shutdown \in BOOLEAN /\ forced \in BOOLEAN
    /\ turn \in Turns /\ begin \in BOOLEAN
    /\ pending \in Staging \cup {None}
    /\ active \in Package \cup {None} /\ staged \in Package \cup {None}
    /\ inv \in Invocation \cup {None}
    /\ retained \subseteq Items /\ accepted \subseteq Worksets
    /\ DOMAIN draining \subseteq Worksets /\ \A ws \in DOMAIN draining : draining[ws] \in Nat
    /\ jobs \subseteq Items \X Outputs /\ publications \subseteq Items \X Outputs
    /\ started \subseteq Items /\ suppressed \subseteq Items
    /\ report \in [Items -> Reports]
    /\ ended \subseteq Worksets /\ summarised \subseteq ended /\ abandoned \subseteq Items

(* Every resident item has a place for its terminal, so retaining one      *)
(* never finds the capacity exhausted, whatever was cancelled, failed or   *)
(* left unacknowledged meanwhile (RetainWorksetTerminal would taint).      *)
TerminalPlaceReserved == Cardinality(retained) + ResidentItemCount <= MaxTerminals

(* An item reported unstarted was never announced as started: the          *)
(* coordinator may hand it out again.                                      *)
UnstartedNeverRan == \A item \in started : report[item] # "unstarted"

(* An accepted workset is active, staged, draining or ended, and only one  *)
(* of these; a draining one waits for exactly its retained terminals, and  *)
(* one that ended has none left, whether or not its summary was published. *)
WorksetInOnePlace ==
    /\ \A ws \in accepted :
         Cardinality({k \in 1 .. 4 : CASE k = 1 -> active # None /\ active.ws = ws
                                      [] k = 2 -> staged # None /\ staged.ws = ws
                                      [] k = 3 -> ws \in DOMAIN draining
                                      [] k = 4 -> ws \in ended}) = 1
    /\ \A ws \in DOMAIN draining :
         draining[ws] = Cardinality({item \in retained : item[1] = ws}) /\ draining[ws] > 0
    /\ \A item \in retained : item[1] \notin ended

(* The worker implements the reporting contract: no item is reported twice *)
(* or without having been admitted, and a summary accounts for each item,  *)
(* also for those cancelled only by a failed publication.                  *)
Sound == worker \in {"Ready", "Running", "Cancelling"}
Reporting == INSTANCE WorksetReporting WITH admitted <- accepted, sound <- Sound
ReportingContract == Reporting!Spec

(* Every item of an accepted workset is reported, or abandoned by a taint  *)
(* or a stop, unless a start was given up half-way for want of a sequence. *)
AcceptedReported ==
    \A ws \in Worksets :
        ws \in accepted ~> Reporting!Accounted(ws) \/ (inv # None /\ inv.phase = "limbo")

=============================================================================
