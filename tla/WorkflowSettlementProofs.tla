----------------------- MODULE WorkflowSettlementProofs -----------------------
(***************************************************************************)
(* Proofs about WorkflowSettlement, for every authored graph: FlowSound    *)
(* holds and what has ended stays quiet, whatever the user, the jobs and   *)
(* crashes do between two transactions of the coordinator.                 *)
(*                                                                         *)
(* Neither property is inductive. Three kinds of facts have to be carried  *)
(* along: what the place of the coordinator says about the step it works   *)
(* on, whose state the user may change meanwhile; that a snapshot with a   *)
(* good outcome is never stale, since good work is not reopened; and that  *)
(* outputs are recorded as they were produced, by work that succeeded.     *)
(***************************************************************************)
EXTENDS WorkflowSettlement, TLAPS

InstanceStates == {"RUNNING", "FAILED", "INTERRUPTED", "CANCELLING", "CANCELED", "COMPLETED"}
StepStates == {"WAITING", "READY", "MATERIALIZED"} \cup Ended
WorkStates == {"NONE", "OPEN"} \cup Settled
Outs == {e.out : e \in Range(Edges)}
Publishing == {"materialize", "mark"}
Settling == {"freeze", "reject", "complete", "record", "route", "block", "apply"}

FlowTypeOK ==
    /\ instance \in InstanceStates
    /\ step \in [Nodes -> StepStates]
    /\ mapped \subseteq Nodes
    /\ work \in [Nodes -> WorkStates]
    /\ produced \in [Nodes -> SUBSET Outs]
    /\ recorded \in [Nodes -> SUBSET Outs]
    /\ batch \subseteq [node : Nodes, outcome : Settled, cancelling : BOOLEAN]
    /\ coord \in {Idle} \cup [at : Publishing \cup Settling, node : Nodes]

\* A step that was ever ready, and one with a job set, has all its inputs.
InputsComplete ==
    \A n \in Nodes :
       (work[n] # "NONE" \/ step[n] \in {"READY", "MATERIALIZED", "FAILED", "INTERRUPTED"})
          => Unbound(n) = {}

\* Between reading a ready step and marking it, the user can only have cancelled it,
\* and has if the workflow is cancelled.
PublishedStep ==
    coord.at \in Publishing =>
       /\ Unbound(coord.node) = {}
       /\ step[coord.node] \in {"READY", "CANCELED"}
       /\ instance = "CANCELED" => step[coord.node] = "CANCELED"

\* The coordinator settles a step only on good work, and good snapshots are fresh.
SettledWork ==
    /\ coord.at \in Settling => work[coord.node] \in Good
    /\ \A s \in batch : s.outcome \in Good => work[s.node] \in Good

\* Outputs are recorded whole or not at all, and only successful work has any.
OutputsWhole ==
    \A n \in Nodes : /\ recorded[n] \in {{}, produced[n]}
                     /\ produced[n] # {} => work[n] = "SUCCEEDED"

BoundProvided ==
    \A b \in bound : \E e \in Providers(b[1], b[2]) : e.out \in recorded[e.from]

\* A completed step has good work, a skipped one has none.
StepsDone ==
    \A n \in Nodes : /\ step[n] = "COMPLETED" => work[n] \in Good
                     /\ step[n] = "SKIPPED" => work[n] = "NONE"

\* What the steps of an ended workflow can be.
EndedSteps ==
    /\ instance = "COMPLETED" => \A n \in Nodes : step[n] \in Successful
    /\ instance = "CANCELED" => \A n \in Nodes : step[n] \notin {"WAITING", "MATERIALIZED"}

\* The inductive invariant
FlowInv ==
    /\ FlowTypeOK
    /\ InputsComplete /\ PublishedStep /\ SettledWork
    /\ OutputsWhole /\ BoundProvided /\ StepsDone /\ EndedSteps

(* What is read of a settled step is a snapshot. *)
LEMMA SnapshotTyped ==
    ASSUME FlowTypeOK, NEW n \in Nodes, work[n] \in Settled
    PROVE  StepSnapshot(n) \in [node : Nodes, outcome : Settled, cancelling : BOOLEAN]
  <1>1. (instance = "CANCELLING") \in BOOLEAN
    OBVIOUS
  <1> QED BY <1>1, Zenon DEF StepSnapshot

(* The step that is read is ready, so it has its inputs, and the workflow  *)
(* runs.                                                                   *)
LEMMA PickReadyStepKeeps ==
    ASSUME FlowInv, NEW n \in Nodes, PickReadyStep(n)
    PROVE  FlowInv'
  <1>1. FlowTypeOK'
    BY WorkflowAssumption DEF FlowInv, FlowTypeOK, PickReadyStep, dbVars, jobVars, At,
       Idle, Publishing, Settling, InstanceStates, StepStates, WorkStates, Settled,
       Good, Ended
  <1>2. PublishedStep'
    BY DEF FlowInv, FlowTypeOK, PublishedStep, InputsComplete, PickReadyStep, dbVars,
       jobVars, At, Idle, Publishing, Settling, Unbound
  <1>3. SettledWork'
    BY DEF FlowInv, FlowTypeOK, SettledWork, PickReadyStep, dbVars, jobVars, At, Idle,
       Publishing, Settling, Good, Settled
  <1> QED BY <1>1, <1>2, <1>3 DEF FlowInv, InputsComplete, OutputsWhole, BoundProvided,
     StepsDone, EndedSteps, PickReadyStep, dbVars, jobVars, Unbound

(* Blocking a ready step writes a reason and lets go of the step. *)
LEMMA BlockReadyStepKeeps ==
    ASSUME FlowInv, NEW reason, BlockReadyStep(reason)
    PROVE  FlowInv'
  <1>1. FlowTypeOK'
    BY WorkflowAssumption DEF FlowInv, FlowTypeOK, BlockReadyStep, Block, dbVars,
       jobVars, At, Idle, Publishing, Settling, InstanceStates, StepStates, WorkStates,
       Settled, Good, Ended
  <1>2. PublishedStep'
    BY DEF FlowInv, FlowTypeOK, PublishedStep, BlockReadyStep, Block, dbVars, jobVars,
       At, Idle, Publishing, Settling, Unbound
  <1>3. SettledWork'
    BY DEF FlowInv, FlowTypeOK, SettledWork, BlockReadyStep, Block, dbVars, jobVars, At,
       Idle, Publishing, Settling, Good, Settled
  <1> QED BY <1>1, <1>2, <1>3 DEF FlowInv, InputsComplete, OutputsWhole, BoundProvided,
     StepsDone, EndedSteps, BlockReadyStep, Block, dbVars, jobVars, Unbound

(* Unblocking a step writes a reason only. *)
LEMMA ReconcileDescriptorAvailabilityKeeps ==
    ASSUME FlowInv, NEW n \in Nodes, ReconcileDescriptorAvailability(n)
    PROVE  FlowInv'
  <1> QED BY DEF FlowInv, FlowTypeOK, InputsComplete, PublishedStep, SettledWork,
     OutputsWhole, BoundProvided, StepsDone, EndedSteps,
     ReconcileDescriptorAvailability, Block, dbVars, jobVars, Unbound

(* Work is published for a step that has its inputs and was not skipped. *)
LEMMA ScheduleReadyStepKeeps ==
    ASSUME FlowInv, ScheduleReadyStep
    PROVE  FlowInv'
  <1>1. FlowTypeOK'
    BY WorkflowAssumption DEF FlowInv, FlowTypeOK, ScheduleReadyStep, dbVars, jobVars,
       At, Idle, Publishing, Settling, InstanceStates, StepStates, WorkStates, Settled,
       Good, Ended
  <1>2. InputsComplete'
    BY DEF FlowInv, FlowTypeOK, InputsComplete, PublishedStep, ScheduleReadyStep,
       dbVars, jobVars, At, Idle, Unbound, Publishing
  <1>3. PublishedStep'
    BY DEF FlowInv, FlowTypeOK, PublishedStep, ScheduleReadyStep, dbVars, jobVars, At,
       Idle, Publishing, Settling, Unbound
  <1>4. SettledWork'
    BY DEF FlowInv, FlowTypeOK, SettledWork, ScheduleReadyStep, dbVars, jobVars, At,
       Idle, Publishing, Settling, Good, Settled
  <1>5. OutputsWhole'
    BY WorkflowAssumption DEF FlowInv, FlowTypeOK, OutputsWhole, ScheduleReadyStep,
       dbVars, jobVars, At, Idle
  <1>6. StepsDone'
    BY DEF FlowInv, FlowTypeOK, StepsDone, PublishedStep, ScheduleReadyStep, dbVars,
       jobVars, At, Idle, Good, Publishing
  <1> QED BY <1>1, <1>2, <1>3, <1>4, <1>5, <1>6 DEF FlowInv, BoundProvided, EndedSteps,
     ScheduleReadyStep, dbVars, jobVars, Unbound

(* A step that the user cancelled since it was read is not marked, and in  *)
(* a cancelled workflow it was.                                            *)
LEMMA MarkStepMaterializedKeeps ==
    ASSUME FlowInv, MarkStepMaterialized
    PROVE  FlowInv'
  <1>1. FlowTypeOK'
    BY WorkflowAssumption DEF FlowInv, FlowTypeOK, MarkStepMaterialized, CanMaterialize,
       dbVars, jobVars, At, Idle, Publishing, Settling, InstanceStates, StepStates,
       WorkStates, Settled, Good, Ended
  <1>2. InputsComplete'
    BY DEF FlowInv, FlowTypeOK, InputsComplete, MarkStepMaterialized, CanMaterialize,
       dbVars, jobVars, At, Idle, Unbound
  <1>3. PublishedStep'
    BY DEF FlowInv, FlowTypeOK, PublishedStep, MarkStepMaterialized, CanMaterialize,
       dbVars, jobVars, At, Idle, Publishing, Settling, Unbound
  <1>4. SettledWork'
    BY DEF FlowInv, FlowTypeOK, SettledWork, MarkStepMaterialized, CanMaterialize,
       dbVars, jobVars, At, Idle, Publishing, Settling, Good, Settled
  <1>5. StepsDone'
    BY DEF FlowInv, FlowTypeOK, StepsDone, MarkStepMaterialized, CanMaterialize, dbVars,
       jobVars, At, Idle, Good
  <1>6. EndedSteps'
    BY DEF FlowInv, FlowTypeOK, EndedSteps, PublishedStep, MarkStepMaterialized,
       CanMaterialize, dbVars, jobVars, At, Idle, Successful, Ended, Publishing
  <1> QED BY <1>1, <1>2, <1>3, <1>4, <1>5, <1>6 DEF FlowInv, OutputsWhole,
     BoundProvided, MarkStepMaterialized, CanMaterialize, dbVars, jobVars, Unbound

(* The snapshot taken is the work of the step as it is now. *)
LEMMA TakeNotificationKeeps ==
    ASSUME FlowInv, NEW n \in Nodes, TakeNotification(n)
    PROVE  FlowInv'
  <1>1. FlowTypeOK'
    BY SnapshotTyped DEF FlowInv, FlowTypeOK, TakeNotification, dbVars, jobVars,
       Publishing, Settling, InstanceStates, StepStates, WorkStates, Settled, Good,
       Ended
  <1>2. SettledWork'
    BY DEF FlowInv, FlowTypeOK, SettledWork, TakeNotification, StepSnapshot, dbVars,
       jobVars, Publishing, Settling, Good, Settled
  <1> QED BY <1>1, <1>2 DEF FlowInv, InputsComplete, PublishedStep, OutputsWhole,
     BoundProvided, StepsDone, EndedSteps, TakeNotification, StepSnapshot, dbVars,
     jobVars, Unbound

(* The snapshots of a scan are the work of the steps as it is now. *)
LEMMA ReconcileSettledWorkflowStepsKeeps ==
    ASSUME FlowInv, ReconcileSettledWorkflowSteps
    PROVE  FlowInv'
  <1>1. FlowTypeOK'
    BY SnapshotTyped DEF FlowInv, FlowTypeOK, ReconcileSettledWorkflowSteps,
       SettlementReady, dbVars, jobVars, Publishing, Settling, InstanceStates,
       StepStates, WorkStates, Settled, Good, Ended
  <1>2. SettledWork'
    BY DEF FlowInv, FlowTypeOK, SettledWork, ReconcileSettledWorkflowSteps,
       StepSnapshot, SettlementReady, dbVars, jobVars, Publishing, Settling, Good,
       Settled
  <1> QED BY <1>1, <1>2 DEF FlowInv, InputsComplete, PublishedStep, OutputsWhole,
     BoundProvided, StepsDone, EndedSteps, ReconcileSettledWorkflowSteps, StepSnapshot,
     SettlementReady, dbVars, jobVars, Unbound

(* Failing or interrupting a step touches neither an ended workflow nor a  *)
(* skipped or completed step.                                              *)
LEMMA ParkWorkflowKeeps ==
    ASSUME FlowInv, NEW s \in batch, ParkWorkflow(s)
    PROVE  FlowInv'
  <1>1. FlowTypeOK'
    BY WorkflowAssumption DEF FlowInv, FlowTypeOK, ParkWorkflow, FailStep,
       InterruptStep, dbVars, jobVars, Publishing, Settling, InstanceStates, StepStates,
       WorkStates, Settled, Good, Ended
  <1>2. InputsComplete'
    BY DEF FlowInv, FlowTypeOK, InputsComplete, ParkWorkflow, FailStep, InterruptStep,
       dbVars, jobVars, Unbound
  <1>3. PublishedStep'
    BY DEF FlowInv, FlowTypeOK, PublishedStep, ParkWorkflow, FailStep, InterruptStep,
       dbVars, jobVars, Publishing, Settling, Unbound, At, Idle
  <1>4. SettledWork'
    BY DEF FlowInv, FlowTypeOK, SettledWork, ParkWorkflow, FailStep, InterruptStep,
       dbVars, jobVars, Publishing, Settling, Good, Settled
  <1>5. StepsDone'
    BY DEF FlowInv, FlowTypeOK, StepsDone, ParkWorkflow, FailStep, InterruptStep,
       dbVars, jobVars, Good
  <1>6. EndedSteps'
    BY DEF FlowInv, FlowTypeOK, EndedSteps, ParkWorkflow, FailStep, InterruptStep,
       dbVars, jobVars, Successful, Ended
  <1> QED BY <1>1, <1>2, <1>3, <1>4, <1>5, <1>6 DEF FlowInv, OutputsWhole,
     BoundProvided, ParkWorkflow, FailStep, InterruptStep, dbVars, jobVars, Unbound

(* Outputs recorded at once are those produced, so no binding loses its    *)
(* provider.                                                               *)
LEMMA ContinueAcceptsKeeps ==
    ASSUME FlowInv, NEW s \in batch, ContinueAccepts(s)
    PROVE  FlowInv'
  <1>1. FlowTypeOK'
    BY WorkflowAssumption DEF FlowInv, FlowTypeOK, ContinueAccepts, dbVars, jobVars, At,
       Idle, Publishing, Settling, InstanceStates, StepStates, WorkStates, Settled,
       Good, Ended
  <1>2. PublishedStep'
    BY DEF FlowInv, FlowTypeOK, PublishedStep, ContinueAccepts, dbVars, jobVars, At,
       Idle, Publishing, Settling, Unbound
  <1>3. SettledWork'
    BY DEF FlowInv, FlowTypeOK, SettledWork, ContinueAccepts, dbVars, jobVars, At, Idle,
       Publishing, Settling, Good, Settled
  <1>4. OutputsWhole'
    BY WorkflowAssumption DEF FlowInv, FlowTypeOK, OutputsWhole, ContinueAccepts,
       dbVars, jobVars, At, Idle
  <1>5. BoundProvided'
    BY WorkflowAssumption DEF FlowInv, FlowTypeOK, BoundProvided, OutputsWhole,
       ContinueAccepts, dbVars, jobVars, At, Idle, Providers, Available
  <1> QED BY <1>1, <1>2, <1>3, <1>4, <1>5 DEF FlowInv, InputsComplete, StepsDone,
     EndedSteps, ContinueAccepts, dbVars, jobVars, Unbound

(* A rejected continuation fails the step like any failure. *)
LEMMA ContinueFailsKeeps ==
    ASSUME FlowInv, NEW s \in batch, ContinueFails(s)
    PROVE  FlowInv'
  <1>1. FlowTypeOK'
    BY WorkflowAssumption DEF FlowInv, FlowTypeOK, ContinueFails, FailStep, dbVars,
       jobVars, Publishing, Settling, InstanceStates, StepStates, WorkStates, Settled,
       Good, Ended
  <1>2. InputsComplete'
    BY DEF FlowInv, FlowTypeOK, InputsComplete, ContinueFails, FailStep, dbVars,
       jobVars, Unbound
  <1>3. PublishedStep'
    BY DEF FlowInv, FlowTypeOK, PublishedStep, ContinueFails, FailStep, dbVars, jobVars,
       Publishing, Settling, Unbound, At, Idle
  <1>4. SettledWork'
    BY DEF FlowInv, FlowTypeOK, SettledWork, ContinueFails, FailStep, dbVars, jobVars,
       Publishing, Settling, Good, Settled
  <1>5. StepsDone'
    BY DEF FlowInv, FlowTypeOK, StepsDone, ContinueFails, FailStep, dbVars, jobVars,
       Good
  <1>6. EndedSteps'
    BY DEF FlowInv, FlowTypeOK, EndedSteps, ContinueFails, FailStep, dbVars, jobVars,
       Successful, Ended
  <1> QED BY <1>1, <1>2, <1>3, <1>4, <1>5, <1>6 DEF FlowInv, OutputsWhole,
     BoundProvided, ContinueFails, FailStep, dbVars, jobVars, Unbound

(* Freezing the decision goes on with the same step. *)
LEMMA FreezeTransitionActivationKeeps ==
    ASSUME FlowInv, FreezeTransitionActivation
    PROVE  FlowInv'
  <1>1. FlowTypeOK'
    BY WorkflowAssumption DEF FlowInv, FlowTypeOK, FreezeTransitionActivation, dbVars,
       jobVars, At, Idle, Publishing, Settling, InstanceStates, StepStates, WorkStates,
       Settled, Good, Ended
  <1>2. PublishedStep'
    BY DEF FlowInv, FlowTypeOK, PublishedStep, FreezeTransitionActivation, dbVars,
       jobVars, At, Idle, Publishing, Settling, Unbound
  <1>3. SettledWork'
    BY DEF FlowInv, FlowTypeOK, SettledWork, FreezeTransitionActivation, dbVars,
       jobVars, At, Idle, Publishing, Settling, Good, Settled
  <1> QED BY <1>1, <1>2, <1>3 DEF FlowInv, InputsComplete, OutputsWhole, BoundProvided,
     StepsDone, EndedSteps, FreezeTransitionActivation, dbVars, jobVars, Unbound

(* A rejecting transition fails the step like any failure. *)
LEMMA RejectTransitionKeeps ==
    ASSUME FlowInv, RejectTransition
    PROVE  FlowInv'
  <1>1. FlowTypeOK'
    BY WorkflowAssumption DEF FlowInv, FlowTypeOK, RejectTransition, FailStep, Block,
       dbVars, jobVars, At, Idle, Publishing, Settling, InstanceStates, StepStates,
       WorkStates, Settled, Good, Ended
  <1>2. InputsComplete'
    BY DEF FlowInv, FlowTypeOK, InputsComplete, RejectTransition, FailStep, Block,
       dbVars, jobVars, At, Idle, Unbound
  <1>3. PublishedStep'
    BY DEF FlowInv, FlowTypeOK, PublishedStep, RejectTransition, FailStep, Block,
       dbVars, jobVars, At, Idle, Publishing, Settling, Unbound
  <1>4. SettledWork'
    BY DEF FlowInv, FlowTypeOK, SettledWork, RejectTransition, FailStep, Block, dbVars,
       jobVars, At, Idle, Publishing, Settling, Good, Settled
  <1>5. StepsDone'
    BY DEF FlowInv, FlowTypeOK, StepsDone, RejectTransition, FailStep, Block, dbVars,
       jobVars, At, Idle, Good
  <1>6. EndedSteps'
    BY DEF FlowInv, FlowTypeOK, EndedSteps, RejectTransition, FailStep, Block, dbVars,
       jobVars, At, Idle, Successful, Ended
  <1> QED BY <1>1, <1>2, <1>3, <1>4, <1>5, <1>6 DEF FlowInv, OutputsWhole,
     BoundProvided, RejectTransition, FailStep, Block, dbVars, jobVars, Unbound

(* The step that is completed has good work. *)
LEMMA CompleteWorkflowStepKeeps ==
    ASSUME FlowInv, CompleteWorkflowStep
    PROVE  FlowInv'
  <1>1. FlowTypeOK'
    BY WorkflowAssumption DEF FlowInv, FlowTypeOK, CompleteWorkflowStep, Block, dbVars,
       jobVars, At, Idle, Publishing, Settling, InstanceStates, StepStates, WorkStates,
       Settled, Good, Ended
  <1>2. InputsComplete'
    BY DEF FlowInv, FlowTypeOK, InputsComplete, CompleteWorkflowStep, Block, dbVars,
       jobVars, At, Idle, Unbound
  <1>3. PublishedStep'
    BY DEF FlowInv, FlowTypeOK, PublishedStep, CompleteWorkflowStep, Block, dbVars,
       jobVars, At, Idle, Publishing, Settling, Unbound
  <1>4. SettledWork'
    BY DEF FlowInv, FlowTypeOK, SettledWork, CompleteWorkflowStep, Block, dbVars,
       jobVars, At, Idle, Publishing, Settling, Good, Settled
  <1>5. StepsDone'
    BY DEF FlowInv, FlowTypeOK, StepsDone, SettledWork, CompleteWorkflowStep, Block,
       dbVars, jobVars, At, Idle, Good, Settling
  <1>6. EndedSteps'
    BY DEF FlowInv, FlowTypeOK, EndedSteps, CompleteWorkflowStep, Block, dbVars,
       jobVars, At, Idle, Successful, Ended
  <1> QED BY <1>1, <1>2, <1>3, <1>4, <1>5, <1>6 DEF FlowInv, OutputsWhole,
     BoundProvided, CompleteWorkflowStep, Block, dbVars, jobVars, Unbound

(* Outputs are recorded as produced, so no binding loses its provider. *)
LEMMA RecordStepOutputsKeeps ==
    ASSUME FlowInv, RecordStepOutputs
    PROVE  FlowInv'
  <1>1. FlowTypeOK'
    BY WorkflowAssumption DEF FlowInv, FlowTypeOK, RecordStepOutputs, dbVars, jobVars,
       At, Idle, Publishing, Settling, InstanceStates, StepStates, WorkStates, Settled,
       Good, Ended
  <1>2. PublishedStep'
    BY DEF FlowInv, FlowTypeOK, PublishedStep, RecordStepOutputs, dbVars, jobVars, At,
       Idle, Publishing, Settling, Unbound
  <1>3. SettledWork'
    BY DEF FlowInv, FlowTypeOK, SettledWork, RecordStepOutputs, dbVars, jobVars, At,
       Idle, Publishing, Settling, Good, Settled
  <1>4. OutputsWhole'
    BY WorkflowAssumption DEF FlowInv, FlowTypeOK, OutputsWhole, RecordStepOutputs,
       dbVars, jobVars, At, Idle
  <1>5. BoundProvided'
    BY WorkflowAssumption DEF FlowInv, FlowTypeOK, BoundProvided, OutputsWhole,
       RecordStepOutputs, dbVars, jobVars, At, Idle, Providers, Available
  <1> QED BY <1>1, <1>2, <1>3, <1>4, <1>5 DEF FlowInv, InputsComplete, StepsDone,
     EndedSteps, RecordStepOutputs, dbVars, jobVars, Unbound

(* Reading the graph for the next source changes nothing durable. *)
LEMMA OpenSourceKeeps ==
    ASSUME FlowInv, OpenSource
    PROVE  FlowInv'
  <1> QED BY DEF FlowInv, FlowTypeOK, InputsComplete, PublishedStep, SettledWork,
     OutputsWhole, BoundProvided, StepsDone, EndedSteps, OpenSource, dbVars, jobVars,
     Unbound

(* An input is bound to an output that is recorded. *)
LEMMA RecordInputBindingsKeeps ==
    ASSUME FlowInv, RecordInputBindings
    PROVE  FlowInv'
  <1>1. FlowTypeOK'
    BY WorkflowAssumption DEF FlowInv, FlowTypeOK, RecordInputBindings, Bindable,
       Available, dbVars, jobVars, Publishing, Settling, InstanceStates, StepStates,
       WorkStates, Settled, Good, Ended
  <1>2. InputsComplete'
    BY DEF FlowInv, FlowTypeOK, InputsComplete, RecordInputBindings, Bindable,
       Available, dbVars, jobVars, Unbound
  <1>3. PublishedStep'
    BY DEF FlowInv, FlowTypeOK, PublishedStep, RecordInputBindings, Bindable, Available,
       dbVars, jobVars, Publishing, Settling, Unbound
  <1>4. BoundProvided'
    BY WorkflowAssumption DEF FlowInv, FlowTypeOK, BoundProvided, RecordInputBindings,
       Bindable, Available, dbVars, jobVars, Providers
  <1> QED BY <1>1, <1>2, <1>3, <1>4 DEF FlowInv, SettledWork, OutputsWhole, StepsDone,
     EndedSteps, RecordInputBindings, Bindable, Available, dbVars, jobVars

(* A target is made ready with all its inputs, and skipped only without    *)
(* some, hence without work.                                               *)
LEMMA DecideTargetKeeps ==
    ASSUME FlowInv, DecideTarget
    PROVE  FlowInv'
  <1>1. FlowTypeOK'
    BY WorkflowAssumption DEF FlowInv, FlowTypeOK, DecideTarget, LeaveRoute, NextTarget,
       Block, Absent, Missing, Waiting, AllSatisfied, dbVars, jobVars, At, Idle,
       Publishing, Settling, InstanceStates, StepStates, WorkStates, Settled, Good,
       Ended
  <1>2. InputsComplete'
    BY DEF FlowInv, FlowTypeOK, InputsComplete, DecideTarget, LeaveRoute, NextTarget,
       Block, Absent, Missing, Waiting, AllSatisfied, dbVars, jobVars, At, Idle, Unbound
  <1>3. PublishedStep'
    BY DEF FlowInv, FlowTypeOK, PublishedStep, DecideTarget, LeaveRoute, NextTarget,
       Block, Absent, Missing, Waiting, AllSatisfied, dbVars, jobVars, At, Idle,
       Publishing, Settling, Unbound
  <1>4. SettledWork'
    BY DEF FlowInv, FlowTypeOK, SettledWork, DecideTarget, LeaveRoute, NextTarget,
       Block, Absent, Missing, Waiting, AllSatisfied, dbVars, jobVars, At, Idle,
       Publishing, Settling, Good, Settled
  <1>5. StepsDone'
    BY DEF FlowInv, FlowTypeOK, StepsDone, InputsComplete, DecideTarget, LeaveRoute,
       NextTarget, Block, Absent, Missing, Waiting, AllSatisfied, dbVars, jobVars, At,
       Idle, Good
  <1>6. EndedSteps'
    BY DEF FlowInv, FlowTypeOK, EndedSteps, DecideTarget, LeaveRoute, NextTarget, Block,
       Absent, Missing, Waiting, AllSatisfied, dbVars, jobVars, At, Idle, Successful,
       Ended
  <1> QED BY <1>1, <1>2, <1>3, <1>4, <1>5, <1>6 DEF FlowInv, OutputsWhole,
     BoundProvided, DecideTarget, LeaveRoute, NextTarget, Block, Absent, Missing,
     Waiting, AllSatisfied, dbVars, jobVars, Unbound

(* The workflow is completed only when every step is completed or          *)
(* skipped.                                                                *)
LEMMA FinishRoutingKeeps ==
    ASSUME FlowInv, FinishRouting
    PROVE  FlowInv'
  <1>1. FlowTypeOK'
    BY WorkflowAssumption DEF FlowInv, FlowTypeOK, FinishRouting, LeaveRoute,
       CanComplete, dbVars, jobVars, At, Idle, Publishing, Settling, InstanceStates,
       StepStates, WorkStates, Settled, Good, Ended
  <1>2. PublishedStep'
    BY DEF FlowInv, FlowTypeOK, PublishedStep, FinishRouting, LeaveRoute, CanComplete,
       dbVars, jobVars, At, Idle, Publishing, Settling, Unbound
  <1>3. SettledWork'
    BY DEF FlowInv, FlowTypeOK, SettledWork, FinishRouting, LeaveRoute, CanComplete,
       dbVars, jobVars, At, Idle, Publishing, Settling, Good, Settled
  <1>4. EndedSteps'
    BY DEF FlowInv, FlowTypeOK, EndedSteps, FinishRouting, LeaveRoute, CanComplete,
       dbVars, jobVars, At, Idle, Successful, Ended
  <1> QED BY <1>1, <1>2, <1>3, <1>4 DEF FlowInv, InputsComplete, OutputsWhole,
     BoundProvided, StepsDone, FinishRouting, LeaveRoute, CanComplete, dbVars, jobVars,
     Unbound

(* Marking the source blocked goes on with the same step. *)
LEMMA MarkSourceBlockedKeeps ==
    ASSUME FlowInv, MarkSourceBlocked
    PROVE  FlowInv'
  <1>1. FlowTypeOK'
    BY WorkflowAssumption DEF FlowInv, FlowTypeOK, MarkSourceBlocked, dbVars, jobVars,
       At, Idle, Publishing, Settling, InstanceStates, StepStates, WorkStates, Settled,
       Good, Ended
  <1>2. PublishedStep'
    BY DEF FlowInv, FlowTypeOK, PublishedStep, MarkSourceBlocked, dbVars, jobVars, At,
       Idle, Publishing, Settling, Unbound
  <1>3. SettledWork'
    BY DEF FlowInv, FlowTypeOK, SettledWork, MarkSourceBlocked, dbVars, jobVars, At,
       Idle, Publishing, Settling, Good, Settled
  <1> QED BY <1>1, <1>2, <1>3 DEF FlowInv, InputsComplete, OutputsWhole, BoundProvided,
     StepsDone, EndedSteps, MarkSourceBlocked, dbVars, jobVars, Unbound

(* Applying the activation ends the settlement. *)
LEMMA ApplyTransitionActivationKeeps ==
    ASSUME FlowInv, ApplyTransitionActivation
    PROVE  FlowInv'
  <1>1. FlowTypeOK'
    BY WorkflowAssumption DEF FlowInv, FlowTypeOK, ApplyTransitionActivation, dbVars,
       jobVars, At, Idle, Publishing, Settling, InstanceStates, StepStates, WorkStates,
       Settled, Good, Ended
  <1>2. PublishedStep'
    BY DEF FlowInv, FlowTypeOK, PublishedStep, ApplyTransitionActivation, dbVars,
       jobVars, At, Idle, Publishing, Settling, Unbound
  <1>3. SettledWork'
    BY DEF FlowInv, FlowTypeOK, SettledWork, ApplyTransitionActivation, dbVars, jobVars,
       At, Idle, Publishing, Settling, Good, Settled
  <1> QED BY <1>1, <1>2, <1>3 DEF FlowInv, InputsComplete, OutputsWhole, BoundProvided,
     StepsDone, EndedSteps, ApplyTransitionActivation, dbVars, jobVars, Unbound

(* Only open work settles, and only success produces outputs. *)
LEMMA JobsSettleKeeps ==
    ASSUME FlowInv, NEW n \in Nodes, JobsSettle(n)
    PROVE  FlowInv'
  <1>1. FlowTypeOK'
    BY WorkflowAssumption DEF FlowInv, FlowTypeOK, JobsSettle, Outputs, Outs, dbVars,
       jobVars, Publishing, Settling, InstanceStates, StepStates, WorkStates, Settled,
       Good, Ended
  <1>2. InputsComplete'
    BY DEF FlowInv, FlowTypeOK, InputsComplete, JobsSettle, Outputs, Outs, dbVars,
       jobVars, Unbound
  <1>3. SettledWork'
    BY DEF FlowInv, FlowTypeOK, SettledWork, JobsSettle, Outputs, Outs, dbVars, jobVars,
       Publishing, Settling, Good, Settled
  <1>4. OutputsWhole'
    BY WorkflowAssumption DEF FlowInv, FlowTypeOK, OutputsWhole, JobsSettle, Outputs,
       Outs, dbVars, jobVars
  <1>5. StepsDone'
    BY DEF FlowInv, FlowTypeOK, StepsDone, JobsSettle, Outputs, Outs, dbVars, jobVars,
       Good
  <1> QED BY <1>1, <1>2, <1>3, <1>4, <1>5 DEF FlowInv, PublishedStep, BoundProvided,
     EndedSteps, JobsSettle, Outputs, Outs, dbVars, jobVars, Unbound

(* Cancelling reaches every step that waits or is ready, the one being     *)
(* published too.                                                          *)
LEMMA CancelWorkflowInstanceKeeps ==
    ASSUME FlowInv, CancelWorkflowInstance
    PROVE  FlowInv'
  <1>1. FlowTypeOK'
    BY WorkflowAssumption DEF FlowInv, FlowTypeOK, CancelWorkflowInstance, Command,
       dbVars, jobVars, Publishing, Settling, InstanceStates, StepStates, WorkStates,
       Settled, Good, Ended
  <1>2. InputsComplete'
    BY DEF FlowInv, FlowTypeOK, InputsComplete, CancelWorkflowInstance, Command, dbVars,
       jobVars, Unbound
  <1>3. PublishedStep'
    BY DEF FlowInv, FlowTypeOK, PublishedStep, CancelWorkflowInstance, Command, dbVars,
       jobVars, Publishing, Settling, Unbound, Idle
  <1>4. SettledWork'
    BY DEF FlowInv, FlowTypeOK, SettledWork, CancelWorkflowInstance, Command, dbVars,
       jobVars, Publishing, Settling, Good, Settled, Idle
  <1>5. OutputsWhole'
    BY WorkflowAssumption DEF FlowInv, FlowTypeOK, OutputsWhole, CancelWorkflowInstance,
       Command, dbVars, jobVars
  <1>6. StepsDone'
    BY DEF FlowInv, FlowTypeOK, StepsDone, CancelWorkflowInstance, Command, dbVars,
       jobVars, Good
  <1>7. EndedSteps'
    BY DEF FlowInv, FlowTypeOK, EndedSteps, CancelWorkflowInstance, Command, dbVars,
       jobVars, Successful, Ended
  <1> QED BY <1>1, <1>2, <1>3, <1>4, <1>5, <1>6, <1>7 DEF FlowInv, BoundProvided,
     CancelWorkflowInstance, Command, dbVars, jobVars, Unbound

(* Resuming does not reach an ended workflow. *)
LEMMA ResumeWorkflowInstanceKeeps ==
    ASSUME FlowInv, ResumeWorkflowInstance
    PROVE  FlowInv'
  <1>1. FlowTypeOK'
    BY WorkflowAssumption DEF FlowInv, FlowTypeOK, ResumeWorkflowInstance, Command,
       dbVars, jobVars, Publishing, Settling, InstanceStates, StepStates, WorkStates,
       Settled, Good, Ended
  <1>2. PublishedStep'
    BY DEF FlowInv, FlowTypeOK, PublishedStep, ResumeWorkflowInstance, Command, dbVars,
       jobVars, Publishing, Settling, Unbound
  <1>3. EndedSteps'
    BY DEF FlowInv, FlowTypeOK, EndedSteps, ResumeWorkflowInstance, Command, dbVars,
       jobVars, Successful, Ended
  <1> QED BY <1>1, <1>2, <1>3 DEF FlowInv, InputsComplete, SettledWork, OutputsWhole,
     BoundProvided, StepsDone, ResumeWorkflowInstance, Command, dbVars, jobVars, Unbound

(* A failed step has its inputs, so it may be ready again. *)
LEMMA RetryFailedStepKeeps ==
    ASSUME FlowInv, NEW n \in Nodes, RetryFailedStep(n)
    PROVE  FlowInv'
  <1>1. FlowTypeOK'
    BY WorkflowAssumption DEF FlowInv, FlowTypeOK, RetryFailedStep, Command, Block,
       dbVars, jobVars, Publishing, Settling, InstanceStates, StepStates, WorkStates,
       Settled, Good, Ended
  <1>2. InputsComplete'
    BY DEF FlowInv, FlowTypeOK, InputsComplete, RetryFailedStep, Command, Block, dbVars,
       jobVars, Unbound
  <1>3. PublishedStep'
    BY DEF FlowInv, FlowTypeOK, PublishedStep, RetryFailedStep, Command, Block, dbVars,
       jobVars, Publishing, Settling, Unbound
  <1>4. StepsDone'
    BY DEF FlowInv, FlowTypeOK, StepsDone, RetryFailedStep, Command, Block, dbVars,
       jobVars, Good
  <1>5. EndedSteps'
    BY DEF FlowInv, FlowTypeOK, EndedSteps, RetryFailedStep, Command, Block, dbVars,
       jobVars, Successful, Ended
  <1> QED BY <1>1, <1>2, <1>3, <1>4, <1>5 DEF FlowInv, SettledWork, OutputsWhole,
     BoundProvided, RetryFailedStep, Command, Block, dbVars, jobVars, Unbound

(* Requeued work had failed or was interrupted; good work is never         *)
(* reopened.                                                               *)
LEMMA ApplyWorksetJobReorganizationKeeps ==
    ASSUME FlowInv, NEW requeued \in SUBSET Nodes, ApplyWorksetJobReorganization(requeued)
    PROVE  FlowInv'
  <1>1. FlowTypeOK'
    BY WorkflowAssumption DEF FlowInv, FlowTypeOK, ApplyWorksetJobReorganization,
       Command, dbVars, jobVars, Publishing, Settling, InstanceStates, StepStates,
       WorkStates, Settled, Good, Ended
  <1>2. InputsComplete'
    BY DEF FlowInv, FlowTypeOK, InputsComplete, ApplyWorksetJobReorganization, Command,
       dbVars, jobVars, Unbound
  <1>3. PublishedStep'
    BY DEF FlowInv, FlowTypeOK, PublishedStep, ApplyWorksetJobReorganization, Command,
       dbVars, jobVars, Publishing, Settling, Unbound, Idle
  <1>4. SettledWork'
    BY DEF FlowInv, FlowTypeOK, SettledWork, ApplyWorksetJobReorganization, Command,
       dbVars, jobVars, Publishing, Settling, Good, Settled, Idle
  <1>5. OutputsWhole'
    BY WorkflowAssumption DEF FlowInv, FlowTypeOK, OutputsWhole,
       ApplyWorksetJobReorganization, Command, dbVars, jobVars
  <1>6. StepsDone'
    BY DEF FlowInv, FlowTypeOK, StepsDone, ApplyWorksetJobReorganization, Command,
       dbVars, jobVars, Good
  <1>7. EndedSteps'
    BY DEF FlowInv, FlowTypeOK, EndedSteps, ApplyWorksetJobReorganization, Command,
       dbVars, jobVars, Successful, Ended
  <1> QED BY <1>1, <1>2, <1>3, <1>4, <1>5, <1>6, <1>7 DEF FlowInv, BoundProvided,
     ApplyWorksetJobReorganization, Command, dbVars, jobVars, Unbound

(* A crash forgets the place of the coordinator and its snapshots. *)
LEMMA CrashKeeps ==
    ASSUME FlowInv, Crash
    PROVE  FlowInv'
  <1>1. FlowTypeOK'
    BY WorkflowAssumption DEF FlowInv, FlowTypeOK, Crash, dbVars, jobVars, At, Idle,
       Publishing, Settling, InstanceStates, StepStates, WorkStates, Settled, Good,
       Ended
  <1>2. PublishedStep'
    BY DEF FlowInv, FlowTypeOK, PublishedStep, Crash, dbVars, jobVars, At, Idle,
       Publishing, Settling, Unbound
  <1>3. SettledWork'
    BY DEF FlowInv, FlowTypeOK, SettledWork, Crash, dbVars, jobVars, At, Idle,
       Publishing, Settling, Good, Settled
  <1> QED BY <1>1, <1>2, <1>3 DEF FlowInv, InputsComplete, OutputsWhole, BoundProvided,
     StepsDone, EndedSteps, Crash, dbVars, jobVars, Unbound

(* Initially nothing is published, and only steps without inputs are ready. *)
LEMMA InitFlow ==
    ASSUME Init
    PROVE  FlowInv
  <1>1. FlowTypeOK
    BY DEF Init, FlowTypeOK, InstanceStates, StepStates, WorkStates, Idle
  <1>2. InputsComplete
    BY DEF Init, InputsComplete, Unbound
  <1> QED
    BY <1>1, <1>2 DEF Init, FlowInv, PublishedStep, SettledWork, OutputsWhole, BoundProvided,
       StepsDone, EndedSteps, Idle, Publishing, Settling

(* Every step preserves the invariant. *)
LEMMA FlowStep ==
    ASSUME FlowInv, [Next]_vars
    PROVE  FlowInv'
  <1>1. CASE CoordinatorGoesOn
    BY <1>1, ParkWorkflowKeeps, ContinueAcceptsKeeps, ContinueFailsKeeps, BlockReadyStepKeeps,
       ScheduleReadyStepKeeps, MarkStepMaterializedKeeps, FreezeTransitionActivationKeeps,
       RejectTransitionKeeps, CompleteWorkflowStepKeeps, RecordStepOutputsKeeps,
       OpenSourceKeeps, RecordInputBindingsKeeps, DecideTargetKeeps, FinishRoutingKeeps,
       MarkSourceBlockedKeeps, ApplyTransitionActivationKeeps
    DEF CoordinatorGoesOn
  <1>2. CASE UNCHANGED vars
    BY <1>2 DEF vars, dbVars, jobVars, FlowInv, FlowTypeOK, InputsComplete, PublishedStep,
       SettledWork, OutputsWhole, BoundProvided, StepsDone, EndedSteps, Unbound
  <1> QED
    BY <1>1, <1>2, ReconcileSettledWorkflowStepsKeeps, PickReadyStepKeeps,
       TakeNotificationKeeps, ReconcileDescriptorAvailabilityKeeps, JobsSettleKeeps,
       RetryFailedStepKeeps, CancelWorkflowInstanceKeeps, ResumeWorkflowInstanceKeeps,
       ApplyWorksetJobReorganizationKeeps, CrashKeeps
    DEF Next

(* No step gives a completed or cancelled workflow another state. *)
LEMMA EndedKept ==
    ASSUME FlowInv, [Next]_vars, instance \in {"COMPLETED", "CANCELED"}
    PROVE  instance' = instance
  <1>1. CASE CoordinatorGoesOn
    BY <1>1 DEF CoordinatorGoesOn, ParkWorkflow, ContinueAccepts, ContinueFails, BlockReadyStep,
       ScheduleReadyStep, MarkStepMaterialized, FreezeTransitionActivation, RejectTransition,
       CompleteWorkflowStep, RecordStepOutputs, OpenSource, RecordInputBindings, DecideTarget,
       FinishRouting, MarkSourceBlocked, ApplyTransitionActivation, FailStep, InterruptStep,
       dbVars
  <1>2. CASE UNCHANGED vars
    BY <1>2 DEF vars, dbVars
  <1> QED
    BY <1>1, <1>2 DEF Next, ReconcileSettledWorkflowSteps, PickReadyStep, TakeNotification,
       ReconcileDescriptorAvailability, JobsSettle, RetryFailedStep, CancelWorkflowInstance,
       ResumeWorkflowInstance, ApplyWorksetJobReorganization, Crash, dbVars

(* The invariant is the whole of FlowSound. *)
LEMMA FlowInvSound ==
    ASSUME FlowInv
    PROVE  FlowSound
  <1>1. ASSUME NEW b \in bound
        PROVE  \E e \in Providers(b[1], b[2]) :
                  e.out \in recorded[e.from] /\ work[e.from] = "SUCCEEDED"
    <2>1. PICK e \in Providers(b[1], b[2]) : e.out \in recorded[e.from]
      BY DEF FlowInv, BoundProvided
    <2>2. e.from \in Nodes
      BY WorkflowAssumption DEF Providers
    <2> QED BY <2>1, <2>2 DEF FlowInv, OutputsWhole
  <1>2. instance = "COMPLETED" =>
           \A n \in Nodes : \/ step[n] = "COMPLETED" /\ work[n] \in Good
                            \/ step[n] = "SKIPPED" /\ work[n] = "NONE"
    BY DEF FlowInv, StepsDone, EndedSteps, Successful
  <1> QED BY <1>1, <1>2 DEF FlowSound, FlowInv, InputsComplete

(* The inductive invariant holds of every reachable state, for every graph *)
(* and any number of commands and faults.                                  *)
THEOREM SpecFlowInv == Spec => []FlowInv
  BY InitFlow, FlowStep, PTL DEF Spec

(* Work is published only for steps that have their inputs, inputs come    *)
(* from work that succeeded, and a completed workflow ran or skipped every *)
(* step: AdvanceSettlementSnapshot and RouteTerminalStep may be cut short, *)
(* repeated or overtaken by the user anywhere.                             *)
THEOREM SpecFlowSound == Spec => []FlowSound
  BY SpecFlowInv, FlowInvSound, PTL

(* A completed or cancelled workflow keeps its state and none of its steps *)
(* is materialized again, also by the marking of a step that was read      *)
(* before the cancellation.                                                *)
THEOREM SpecEndedStaysQuiet == Spec => EndedStaysQuiet
  <1>1. FlowInv /\ [Next]_vars =>
           [(instance \in {"COMPLETED", "CANCELED"}) =>
              (instance' = instance /\ \A n \in Nodes : step'[n] # "MATERIALIZED")]_vars
    <2> SUFFICES ASSUME FlowInv, [Next]_vars, instance \in {"COMPLETED", "CANCELED"}
                 PROVE  instance' = instance /\ \A n \in Nodes : step'[n] # "MATERIALIZED"
      OBVIOUS
    <2>1. instance' = instance
      BY EndedKept
    <2>2. EndedSteps'
      BY FlowStep DEF FlowInv
    <2> QED BY <2>1, <2>2 DEF EndedSteps, Successful
  <1> QED BY <1>1, SpecFlowInv, PTL DEF Spec, EndedStaysQuiet

=============================================================================
