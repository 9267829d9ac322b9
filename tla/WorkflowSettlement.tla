-------------------------- MODULE WorkflowSettlement --------------------------
(***************************************************************************)
(* One workflow instance: the coordinator thread of                        *)
(* WorkflowCoordinatorService that publishes the work of its ready steps,  *)
(* settles them and routes what they produced along the authored graph,    *)
(* the transactions of SqliteWorkflowOrchestration it calls, the jobs      *)
(* behind the steps, the user's commands, and a crash at any point.        *)
(*                                                                         *)
(* Settlement is a sequence of transactions. What makes it repeatable is   *)
(* the transition activation, FROZEN before the first of them and APPLIED  *)
(* after the last; the periodic scan takes up a frozen one again.          *)
(*                                                                         *)
(* Every node has one unit activation with one step. The jobs of a step    *)
(* are seen as the settlement sees them: open, or the class their counts   *)
(* give. A transaction that finds its precondition false changes nothing.  *)
(***************************************************************************)
EXTENDS Naturals, Sequences, FiniteSets, SequencesExt

CONSTANTS
    Nodes,        \* nodes of the authored graph
    Edges,        \* its DATA edges in order: [from, out, to, input, guarded]
    MaxCommands,  \* bound: commands of the user
    MaxFaults     \* bound: crashes, and program calls that fail and are repeated

ASSUME WorkflowAssumption ==
    /\ \A e \in Range(Edges) :
          e.from \in Nodes /\ e.to \in Nodes /\ e.input \in Nat /\ e.guarded \in BOOLEAN
    /\ MaxCommands \in Nat /\ MaxFaults \in Nat

VARIABLES
    instance,    \* state of the workflow instance
    step,        \* state of each step
    unit,        \* state of each unit activation
    mapped,      \* steps with a job_set_id
    work,        \* the published job set of a step
    produced,    \* the outputs of its jobs and its continuation
    recorded,    \* the outputs among them that are in exec_workflow_step_output
    bound,       \* input bindings recorded: <<node, input>>
    blocked,     \* blocked_reason of each step
    activation,  \* the SETTLEMENT transition activation of each step
    notes,       \* terminal_notifications_, by step
    batch,       \* snapshots the coordinator has read and not yet advanced
    coord,       \* where the coordinator is, and with which step
    route,       \* local state of RouteTerminalStep
    cut,         \* history: skipped steps whose routing ended before they were a source
    commands,    \* commands of the user so far
    faults       \* faults so far

dbVars == <<instance, step, unit, mapped, recorded, bound, blocked, activation>>
jobVars == <<work, produced>>
vars == <<dbVars, jobVars, notes, batch, coord, route, cut, commands, faults>>

Ended == {"COMPLETED", "FAILED", "SKIPPED", "CANCELED", "INTERRUPTED"}
Successful == {"COMPLETED", "SKIPPED"}
Good == {"SUCCEEDED", "EMPTY"}
Settled == Good \cup {"FAILED", "INTERRUPTED", "CANCELED", "SUPERSEDED"}

EdgesFrom(n) == SelectSeq(Edges, LAMBDA e : e.from = n)
Providers(t, i) == {e \in Range(Edges) : e.to = t /\ e.input = i}
Inputs(t) == {e.input : e \in {f \in Range(Edges) : f.to = t}}
Outputs(n) == {e.out : e \in {f \in Range(Edges) : f.from = n}}

\* touched_targets: each target once, in the order of the edges
Targets(n) ==
    LET tos == [k \in 1 .. Len(EdgesFrom(n)) |-> EdgesFrom(n)[k].to]
    IN  FoldLeft(LAMBDA acc, t : IF Contains(acc, t) THEN acc ELSE Append(acc, t), <<>>, tos)

Idle == [at |-> "idle"]
At(place) == coord.at = place
NoRoute == [sources |-> <<>>, evaluated |-> {}, source |-> "none", targets |-> <<>>,
            step |-> <<>>, unit |-> <<>>, advanced |-> FALSE]

Init ==
    /\ instance = "RUNNING"
    /\ step = [n \in Nodes |-> IF Inputs(n) = {} THEN "READY" ELSE "WAITING"]
    /\ unit = step
    /\ mapped = {} /\ bound = {} /\ notes = {} /\ batch = {} /\ cut = {}
    /\ work = [n \in Nodes |-> "NONE"]
    /\ produced = [n \in Nodes |-> {}]
    /\ recorded = [n \in Nodes |-> {}]
    /\ blocked = [n \in Nodes |-> "NULL"]
    /\ activation = [n \in Nodes |-> "NONE"]
    /\ coord = Idle /\ route = NoRoute
    /\ commands = 0 /\ faults = 0

-----------------------------------------------------------------------------
(* Materialization of a ready step                                          *)

\* ListReadySteps; processing starts with the rows that were read
PickReadyStep(n) ==
    /\ At("idle") /\ batch = {}
    /\ instance = "RUNNING" /\ step[n] = "READY"
    /\ blocked[n] = "NULL" /\ n \notin mapped
    /\ coord' = [at |-> "materialize", node |-> n]
    /\ UNCHANGED <<dbVars, jobVars, notes, batch, route, cut, commands, faults>>

\* MarkStepBlocked writes the reason whatever the state of the step
Block(n, reason) == blocked' = [blocked EXCEPT ![n] = reason]

\* No adapters for the kind of the step, or an input contract that does not hold
BlockReadyStep(reason) ==
    /\ At("materialize")
    /\ faults < MaxFaults /\ faults' = faults + 1
    /\ Block(coord.node, reason)
    /\ coord' = Idle
    /\ UNCHANGED <<instance, step, unit, mapped, recorded, bound, activation, jobVars,
                   notes, batch, route, cut, commands>>

\* The registry has the adapters again
ReconcileDescriptorAvailability(n) ==
    /\ At("idle") /\ batch = {}
    /\ instance = "RUNNING" /\ blocked[n] = "DESCRIPTOR_UNAVAILABLE"
    /\ Block(n, "NULL")
    /\ UNCHANGED <<instance, step, unit, mapped, recorded, bound, activation, jobVars,
                   notes, batch, coord, route, cut, commands, faults>>

\* A materialization that is interrupted or fails is repeated and finds the
\* job set by its key
ScheduleReadyStep ==
    /\ At("materialize")
    /\ LET n == coord.node IN
       /\ \E population \in {"OPEN", "EMPTY"} :
             work' = [work EXCEPT ![n] = IF @ = "NONE" THEN population ELSE @]
       /\ coord' = [at |-> "mark", node |-> n]
    /\ UNCHANGED <<dbVars, produced, notes, batch, route, cut, commands, faults>>

\* Defect: only the states that the first check names are refused
CanMaterializeUnlessTerminal(n) == step[n] \notin {"COMPLETED", "FAILED", "SKIPPED"}

CanMaterialize(n) == step[n] \in {"READY", "MATERIALIZED"}

MarkStepMaterialized ==
    /\ At("mark")
    /\ LET n == coord.node IN
       IF CanMaterialize(n)
       THEN /\ step' = [step EXCEPT ![n] = "MATERIALIZED"]
            /\ mapped' = mapped \cup {n}
            /\ unit' = [unit EXCEPT ![n] = IF @ \in {"WAITING", "READY"} THEN "RUNNING" ELSE @]
       ELSE UNCHANGED <<step, mapped, unit>>
    /\ coord' = Idle
    /\ UNCHANGED <<instance, recorded, bound, blocked, activation, jobVars, notes, batch,
                   route, cut, commands, faults>>

-----------------------------------------------------------------------------
(* Reading what has settled                                                 *)

StepSnapshot(n) == [node |-> n, outcome |-> work[n], cancelling |-> instance = "CANCELLING"]

\* ReconcileTargetedTerminalNotifications: no condition on step or instance
TakeNotification(n) ==
    /\ At("idle") /\ batch = {} /\ n \in notes
    /\ notes' = notes \ {n}
    /\ batch' = IF n \in mapped /\ work[n] \in Settled THEN {StepSnapshot(n)} ELSE {}
    /\ UNCHANGED <<dbVars, jobVars, coord, route, cut, commands, faults>>

\* Defect: a step that has left MATERIALIZED is not scanned again
SettlementReadyOnce(n) ==
    /\ n \in mapped /\ work[n] \in Settled
    /\ instance = "RUNNING" /\ step[n] = "MATERIALIZED"
    /\ activation[n] # "APPLIED"

\* ListSettlementReadyStepSnapshots
SettlementReady(n) ==
    /\ n \in mapped /\ work[n] \in Settled
    /\ \/ instance = "RUNNING" /\ step[n] = "MATERIALIZED"
       \/ activation[n] \in {"FROZEN", "REJECTED"}
    /\ activation[n] # "APPLIED"

ReconcileSettledWorkflowSteps ==
    /\ At("idle") /\ batch = {}
    /\ \E n \in Nodes : SettlementReady(n)
    /\ batch' = {StepSnapshot(n) : n \in {m \in Nodes : SettlementReady(m)}}
    /\ UNCHANGED <<dbVars, jobVars, notes, coord, route, cut, commands, faults>>

-----------------------------------------------------------------------------
(* AdvanceSettlementSnapshot                                                *)

\* FailWorkflowInstance with a step
FailStep(n) ==
    IF step[n] \in {"FAILED", "MATERIALIZED", "READY"} /\ instance \in {"RUNNING", "FAILED"}
    THEN /\ step' = [step EXCEPT ![n] = "FAILED"]
         /\ unit' = [unit EXCEPT ![n] = "FAILED"]
         /\ instance' = "FAILED"
    ELSE UNCHANGED <<step, unit, instance>>

\* InterruptWorkflowInstance
InterruptStep(n) ==
    IF step[n] \in {"READY", "MATERIALIZED", "INTERRUPTED"} /\ instance \in {"RUNNING", "INTERRUPTED"}
    THEN /\ step' = [step EXCEPT ![n] = "INTERRUPTED"]
         /\ unit' = [unit EXCEPT ![n] = IF @ \in {"WAITING", "READY", "RUNNING"}
                                        THEN "INTERRUPTED" ELSE @]
         /\ instance' = "INTERRUPTED"
    ELSE UNCHANGED <<step, unit, instance>>

\* Outcomes that park the workflow; the snapshot may be stale by now
ParkWorkflow(s) ==
    /\ At("idle") /\ s \in batch /\ s.outcome \notin Good
    /\ \/ s.outcome \in {"FAILED", "SUPERSEDED"} /\ FailStep(s.node)
       \/ s.outcome = "INTERRUPTED" /\ InterruptStep(s.node)
       \/ s.outcome = "CANCELED" /\ IF s.cancelling THEN UNCHANGED <<step, unit, instance>>
                                    ELSE FailStep(s.node)
    /\ batch' = batch \ {s}
    /\ UNCHANGED <<mapped, recorded, bound, blocked, activation, jobVars, notes, coord, route,
                   cut, commands, faults>>

\* Continue: the program accepts the work, and may record its output at once
ContinueAccepts(s) ==
    /\ At("idle") /\ s \in batch /\ s.outcome \in Good
    /\ batch' = batch \ {s}
    /\ \/ UNCHANGED recorded
       \/ /\ step[s.node] \in {"READY", "MATERIALIZED", "COMPLETED", "FAILED"}
          /\ recorded' = [recorded EXCEPT ![s.node] = produced[s.node]]
    /\ coord' = [at |-> "freeze", node |-> s.node]
    /\ UNCHANGED <<instance, step, unit, mapped, bound, blocked, activation, jobVars, notes,
                   route, cut, commands, faults>>

\* Continue rejects the work, or fails or throws and is repeated by the scan
ContinueFails(s) ==
    /\ At("idle") /\ s \in batch /\ s.outcome \in Good
    /\ faults < MaxFaults /\ faults' = faults + 1
    /\ batch' = batch \ {s}
    /\ \/ FailStep(s.node)
       \/ UNCHANGED <<step, unit, instance>>
    /\ UNCHANGED <<mapped, recorded, bound, blocked, activation, jobVars, notes, coord, route,
                   cut, commands>>

\* ResolveActivation: the decision is evaluated once, and kept
FreezeTransitionActivation ==
    /\ At("freeze")
    /\ LET n == coord.node IN
       \/ /\ activation[n] = "NONE"
          /\ \E decision \in {"FROZEN", "REJECTED"} :
                activation' = [activation EXCEPT ![n] = decision]
       \/ activation[n] # "NONE" /\ UNCHANGED activation
    /\ coord' = CASE activation'[coord.node] = "FROZEN" -> [coord EXCEPT !.at = "complete"]
                  [] activation'[coord.node] = "REJECTED" -> [coord EXCEPT !.at = "reject"]
                  [] OTHER -> Idle
    /\ UNCHANGED <<instance, step, unit, mapped, recorded, bound, blocked, jobVars, notes,
                   batch, route, cut, commands, faults>>

\* The transition rejects: FailWorkflowInstance, then the activation is applied
RejectTransition ==
    /\ At("reject")
    /\ Block(coord.node, "NULL")
    /\ FailStep(coord.node)
    /\ coord' = IF step'[coord.node] = "FAILED" /\ instance' = "FAILED"
                THEN [coord EXCEPT !.at = "apply"] ELSE Idle
    /\ UNCHANGED <<mapped, recorded, bound, activation, jobVars, notes, batch, route, cut,
                   commands, faults>>

CompleteWorkflowStep ==
    /\ At("complete")
    /\ LET n == coord.node IN
       /\ Block(n, "NULL")
       /\ IF step[n] \in {"READY", "MATERIALIZED"}
          THEN /\ step' = [step EXCEPT ![n] = "COMPLETED"]
               /\ unit' = [unit EXCEPT ![n] = "COMPLETED"]
          ELSE UNCHANGED <<step, unit>>
       /\ coord' = IF step'[n] = "COMPLETED" THEN [coord EXCEPT !.at = "record"] ELSE Idle
    /\ UNCHANGED <<instance, mapped, recorded, bound, activation, jobVars, notes, batch, route,
                   cut, commands, faults>>

-----------------------------------------------------------------------------
(* RouteTerminalStep                                                        *)

RecordStepOutputs ==
    /\ At("record")
    /\ recorded' = [recorded EXCEPT ![coord.node] = produced[coord.node]]
    /\ route' = [NoRoute EXCEPT !.sources = <<coord.node>>]
    /\ coord' = [coord EXCEPT !.at = "route"]
    /\ UNCHANGED <<instance, step, unit, mapped, bound, blocked, activation, jobVars, notes,
                   batch, cut, commands, faults>>

\* The next source, with the graph as it is read now
OpenSource ==
    /\ At("route") /\ route.targets = <<>> /\ route.sources # <<>>
    /\ LET s == Head(route.sources) IN
       route' = IF s \in route.evaluated
                THEN [route EXCEPT !.sources = Tail(@)]
                ELSE [route EXCEPT !.sources = Tail(@), !.evaluated = @ \cup {s},
                                   !.source = s, !.targets = Targets(s),
                                   !.step = step, !.unit = unit]
    /\ UNCHANGED <<dbVars, jobVars, notes, batch, coord, cut, commands, faults>>

\* HasActiveWorkForGraphNode, in the graph that was read
HasActiveWork(n) == route.unit[n] \notin Ended \/ route.step[n] \notin Ended

Available(t, i) == \E e \in Providers(t, i) : e.out \in recorded[e.from]
Unbound(t) == {i \in Inputs(t) : <<t, i>> \notin bound}
Waiting(t) == {i \in Unbound(t) : ~Available(t, i) /\ \E e \in Providers(t, i) : HasActiveWork(e.from)}
Missing(t) == {i \in Unbound(t) \ Waiting(t) :
                 ~Available(t, i) /\ \E e \in Providers(t, i) : ~e.guarded}
Absent(t) == {i \in Unbound(t) \ (Waiting(t) \cup Missing(t)) : ~Available(t, i)}
\* Inputs are bound in order, until one blocks the routing
Bindable(t) == {i \in Unbound(t) : Available(t, i) /\ \A k \in Missing(t) : i < k}

\* Defect: the first input that is bound makes the target ready
AnySatisfied(t) == Unbound(t) # Inputs(t)

\* all_required_satisfied
AllSatisfied(t) == Unbound(t) = {}

RecordInputBindings ==
    /\ At("route") /\ route.targets # <<>>
    /\ LET t == Head(route.targets) IN
       /\ Bindable(t) # {}
       /\ bound' = bound \cup {<<t, i>> : i \in Bindable(t)}
    /\ UNCHANGED <<instance, step, unit, mapped, recorded, blocked, activation, jobVars, notes,
                   batch, coord, route, cut, commands, faults>>

\* Skipped steps that were still to be a source, or whose targets were not all seen
Unfinished == (Range(route.sources) \cup (IF route.targets = <<>> THEN {} ELSE {route.source}))
                \ (route.evaluated \ {route.source})

\* A command of the routing fails, or the routing is left: what it knew is lost
LeaveRoute(place) ==
    /\ coord' = IF place = "idle" THEN Idle ELSE [coord EXCEPT !.at = place]
    /\ cut' = cut \cup (Unfinished \ {coord.node})
    /\ route' = NoRoute

NextTarget(sources, advanced) ==
    /\ route' = [route EXCEPT !.targets = Tail(@), !.sources = sources, !.advanced = advanced]
    /\ UNCHANGED <<coord, cut>>

\* The decision about one target, and the command it leads to
DecideTarget ==
    /\ At("route") /\ route.targets # <<>>
    /\ LET t == Head(route.targets)
           absent == Absent(t) # {} /\ Waiting(t) = {}
       IN
       /\ Bindable(t) = {}
       /\ \/ /\ Missing(t) # {}
             /\ LeaveRoute("block")
             /\ UNCHANGED <<step, unit, blocked>>
          \/ /\ Missing(t) = {} /\ absent /\ route.step[t] \notin Ended
             /\ IF step[t] \in {"WAITING", "READY", "FAILED"}
                THEN /\ step' = [step EXCEPT ![t] = "SKIPPED"]
                     /\ unit' = [unit EXCEPT ![t] = "SKIPPED"]
                     /\ Block(t, "GUARD_NOT_SATISFIED")
                     /\ NextTarget(Append(route.sources, t), route.advanced)
                ELSE LeaveRoute("idle") /\ UNCHANGED <<step, unit, blocked>>
          \/ /\ Missing(t) = {} /\ AllSatisfied(t) /\ route.step[t] = "WAITING"
             /\ IF step[t] = "WAITING"
                THEN /\ step' = [step EXCEPT ![t] = "READY"]
                     /\ unit' = [unit EXCEPT ![t] = IF @ = "WAITING" THEN "READY" ELSE @]
                     /\ Block(t, "NULL")
                     /\ NextTarget(route.sources, TRUE)
                ELSE LeaveRoute("idle") /\ UNCHANGED <<step, unit, blocked>>
          \/ /\ Missing(t) = {}
             /\ ~(absent /\ route.step[t] \notin Ended)
             /\ ~(AllSatisfied(t) /\ route.step[t] = "WAITING")
             /\ NextTarget(route.sources, route.advanced)
             /\ UNCHANGED <<step, unit, blocked>>
    /\ UNCHANGED <<instance, mapped, recorded, bound, activation, jobVars, notes, batch,
                   commands, faults>>

\* CompleteWorkflowInstance, on a running instance
CanComplete ==
    /\ \A n \in Nodes : step[n] \in Successful
    /\ \A n \in Nodes : unit[n] \notin {"FAILED", "INTERRUPTED", "CANCELED"}
    /\ \A n \in mapped : work[n] \notin {"FAILED", "INTERRUPTED", "CANCELED"}

\* No source is left: complete the instance if every unit was successful
FinishRouting ==
    /\ At("route") /\ route.targets = <<>> /\ route.sources = <<>>
    /\ LET whole == ~route.advanced /\ \A n \in Nodes : unit[n] \in Successful IN
       \/ /\ whole /\ instance \in {"FAILED", "INTERRUPTED", "CANCELED"}
          /\ LeaveRoute("idle") /\ UNCHANGED instance
       \/ /\ whole /\ instance = "RUNNING" /\ CanComplete
          /\ LeaveRoute("apply") /\ instance' = "COMPLETED"
       \/ /\ ~(whole /\ (instance \in {"FAILED", "INTERRUPTED", "CANCELED"}
                           \/ (instance = "RUNNING" /\ CanComplete)))
          /\ LeaveRoute("apply") /\ UNCHANGED instance
    /\ UNCHANGED <<step, unit, mapped, recorded, bound, blocked, activation, jobVars, notes,
                   batch, commands, faults>>

\* The source takes the reason of the routing, and its activation is applied all the same
MarkSourceBlocked ==
    /\ At("block")
    /\ Block(coord.node, "GRAPH_OUTPUT_MISSING")
    /\ coord' = [coord EXCEPT !.at = "apply"]
    /\ UNCHANGED <<instance, step, unit, mapped, recorded, bound, activation, jobVars, notes,
                   batch, route, cut, commands, faults>>

ApplyTransitionActivation ==
    /\ At("apply")
    /\ activation' = [activation EXCEPT ![coord.node] = "APPLIED"]
    /\ coord' = Idle
    /\ UNCHANGED <<instance, step, unit, mapped, recorded, bound, blocked, jobVars, notes,
                   batch, route, cut, commands, faults>>

-----------------------------------------------------------------------------
(* The jobs of a step                                                       *)

\* A workset is claimed only for a MATERIALIZED step that has its job set;
\* jobs that no worker has are ended by a cancellation. The notification comes
\* after the commit, where a result was processed; one never taken never came.
JobsSettle(n) ==
    /\ work[n] = "OPEN"
    /\ \E outcome \in Settled \ {"EMPTY"} :
          /\ outcome \in {"CANCELED", "SUPERSEDED"} \/ (step[n] = "MATERIALIZED" /\ n \in mapped)
          /\ work' = [work EXCEPT ![n] = outcome]
          /\ \E outs \in SUBSET Outputs(n) :
                /\ outcome # "SUCCEEDED" => outs = {}
                /\ produced' = [produced EXCEPT ![n] = outs]
    /\ notes' = notes \cup {n}
    /\ UNCHANGED <<dbVars, batch, coord, route, cut, commands, faults>>

-----------------------------------------------------------------------------
(* The user, and crashes                                                    *)

Command == commands < MaxCommands /\ commands' = commands + 1

\* The jobs cancelled are those of the set whose id is the id of the instance
CancelWorkflowInstance ==
    /\ Command
    /\ instance \in {"RUNNING", "FAILED", "INTERRUPTED", "CANCELLING"}
    /\ \E hit \in {{}} \cup {{n} : n \in {m \in Nodes : work[m] = "OPEN"}} :
          work' = [n \in Nodes |-> IF n \in hit THEN "CANCELED" ELSE work[n]]
    /\ LET gone(n) == \/ step[n] \in {"WAITING", "READY"}
                      \/ step[n] = "MATERIALIZED" /\ work'[n] # "OPEN"
       IN
       /\ step' = [n \in Nodes |-> IF gone(n) THEN "CANCELED" ELSE step[n]]
       /\ blocked' = [n \in Nodes |-> IF gone(n) THEN "WORKFLOW_CANCELLED_BY_USER" ELSE blocked[n]]
       /\ unit' = [n \in Nodes |-> IF unit[n] \in {"WAITING", "READY"} THEN "CANCELED" ELSE unit[n]]
    /\ instance' = IF \A n \in Nodes : step'[n] \in Ended THEN "CANCELED" ELSE "CANCELLING"
    /\ UNCHANGED <<mapped, recorded, bound, activation, produced, notes, batch, coord, route,
                   cut, faults>>

ResumeWorkflowInstance ==
    /\ Command
    /\ instance \in {"FAILED", "INTERRUPTED"}
    /\ instance' = "RUNNING"
    /\ UNCHANGED <<step, unit, mapped, recorded, bound, blocked, activation, jobVars, notes,
                   batch, coord, route, cut, faults>>

\* The step keeps its job set, the instance its state
RetryFailedStep(n) ==
    /\ Command
    /\ step[n] = "FAILED"
    /\ step' = [step EXCEPT ![n] = "READY"]
    /\ Block(n, "NULL")
    /\ UNCHANGED <<instance, unit, mapped, recorded, bound, activation, jobVars, notes, batch,
                   coord, route, cut, faults>>

\* RetryFailedJobs: what had failed when the candidates were listed is requeued
ApplyWorksetJobReorganization(requeued) ==
    /\ Command
    /\ requeued # {} /\ \A n \in requeued : work[n] \in {"FAILED", "INTERRUPTED"}
    /\ instance \in {"FAILED", "INTERRUPTED", "RUNNING"}
    /\ work' = [n \in Nodes |-> IF n \in requeued THEN "OPEN" ELSE work[n]]
    /\ LET reopened == {n \in requeued : step[n] \in {"FAILED", "INTERRUPTED"}} IN
       /\ step' = [n \in Nodes |-> IF n \in reopened THEN "MATERIALIZED" ELSE step[n]]
       /\ blocked' = [n \in Nodes |-> IF n \in reopened THEN "NULL" ELSE blocked[n]]
    /\ instance' = "RUNNING"
    /\ UNCHANGED <<unit, mapped, recorded, bound, activation, produced, notes, batch, coord,
                   route, cut, faults>>

\* The process ends; the store is what is left
Crash ==
    /\ faults < MaxFaults /\ faults' = faults + 1
    /\ (coord # Idle \/ batch # {} \/ notes # {})
    /\ coord' = Idle /\ route' = NoRoute
    /\ cut' = IF At("route") THEN cut \cup (Unfinished \ {coord.node}) ELSE cut
    /\ notes' = {} /\ batch' = {}
    /\ UNCHANGED <<dbVars, jobVars, commands>>

-----------------------------------------------------------------------------
\* A call of the coordinator goes on
CoordinatorGoesOn ==
    \/ \E s \in batch : ParkWorkflow(s) \/ ContinueAccepts(s) \/ ContinueFails(s)
    \/ \E reason \in {"DESCRIPTOR_UNAVAILABLE", "MATERIALIZATION_INVARIANT"} : BlockReadyStep(reason)
    \/ ScheduleReadyStep \/ MarkStepMaterialized
    \/ FreezeTransitionActivation \/ RejectTransition \/ CompleteWorkflowStep
    \/ RecordStepOutputs \/ OpenSource \/ RecordInputBindings \/ DecideTarget
    \/ FinishRouting \/ MarkSourceBlocked \/ ApplyTransitionActivation

Next ==
    \/ CoordinatorGoesOn
    \/ ReconcileSettledWorkflowSteps
    \/ \E n \in Nodes :
          \/ PickReadyStep(n) \/ TakeNotification(n) \/ ReconcileDescriptorAvailability(n)
          \/ JobsSettle(n) \/ RetryFailedStep(n)
    \/ CancelWorkflowInstance \/ ResumeWorkflowInstance
    \/ \E requeued \in SUBSET Nodes : ApplyWorksetJobReorganization(requeued)
    \/ Crash

Spec == Init /\ [][Next]_vars

\* The loop runs its scans again and again; a ready step is taken up among the
\* other work even if a settlement is repeated for ever; jobs that can be claimed
\* settle. Nothing is assumed of the user, of notifications or of the registry.
Fairness ==
    /\ WF_vars(CoordinatorGoesOn)
    /\ WF_vars(ReconcileSettledWorkflowSteps)
    /\ SF_vars(\E n \in Nodes : PickReadyStep(n))
    /\ WF_vars(\E n \in Nodes : step[n] = "MATERIALIZED" /\ JobsSettle(n))

LiveSpec == Spec /\ Fairness

-----------------------------------------------------------------------------
(* Properties                                                               *)

\* Work is published only for a step that has all its inputs, an input comes from
\* jobs that succeeded, and a workflow that is complete has run or skipped every
\* step, whatever was retried, cancelled, resumed or lost in a crash on the way.
FlowSound ==
    /\ \A n \in Nodes : (work[n] # "NONE" \/ step[n] = "READY") => Unbound(n) = {}
    /\ \A b \in bound : \E e \in Providers(b[1], b[2]) :
          e.out \in recorded[e.from] /\ work[e.from] = "SUCCEEDED"
    /\ instance = "COMPLETED" =>
          \A n \in Nodes : \/ step[n] = "COMPLETED" /\ work[n] \in Good
                           \/ step[n] = "SKIPPED" /\ work[n] = "NONE"

\* What has ended is quiet: a completed or cancelled workflow keeps its state, and
\* none of its steps can offer jobs to a worker again, also when the cancellation
\* comes between the publication of the jobs of a step and its marking.
EndedStaysQuiet ==
    [][(instance \in {"COMPLETED", "CANCELED"}) =>
          (instance' = instance /\ \A n \in Nodes : step'[n] # "MATERIALIZED")]_vars

\* What the user, or a repair of the registry, must see to: a reason shown on a
\* step, a step that ended badly, one that RetryFailedStep left with its old job
\* set, and one below a skipped step whose routing was cut short.
NeedsAttention ==
    \E n \in Nodes :
       \/ blocked[n] # "NULL" /\ step[n] # "SKIPPED"
       \/ step[n] \in {"FAILED", "INTERRUPTED", "CANCELED"}
       \/ step[n] = "READY" /\ n \in mapped
       \/ step[n] = "WAITING" /\ \E e \in Range(Edges) : e.to = n /\ e.from \in cut

\* A running workflow does not stand still silently: it leaves RUNNING, or shows
\* why it cannot go on. The periodic scan has to pick up every settlement that a
\* lost notification, a failed call or a crash left half done.
NeverSilentlyStuck == (instance = "RUNNING") ~> (instance # "RUNNING" \/ NeedsAttention)
=============================================================================
