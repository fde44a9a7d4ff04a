-------------------------- MODULE MCOperationStore --------------------------
(* Model values for OperationStore: the operations are interchangeable.      *)
EXTENDS OperationStore, TLC

OperationSymmetry == Permutations(Ids)
=============================================================================
