--------------------------- MODULE MCExecutionDb ---------------------------
(* ExecutionDb on a small instance: jobs, of one step, are interchangeable. *)
EXTENDS ExecutionDb, TLC

MCStepOf == [j \in Jobs |-> CHOOSE s \in Steps : TRUE]

JobSymmetry == Permutations(Jobs)

=============================================================================
