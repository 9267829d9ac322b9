------------------------------ MODULE MCLedger ------------------------------
(* WorkerCompletionLedger on a small instance: items are interchangeable.  *)
EXTENDS WorkerCompletionLedger, TLC

ItemSymmetry == Permutations(Items)

=============================================================================
