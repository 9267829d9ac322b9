--------------------------- MODULE MCResultProcessor ---------------------------
(* Instance of ResultProcessor for TLC. *)
EXTENDS ResultProcessor, TLC

JobSymmetry == Permutations(Jobs)

=============================================================================
