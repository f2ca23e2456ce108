-------------------------- MODULE MCWorkflowEpochs --------------------------
(***************************************************************************)
(* The epoch store for TLC: one Plan whose whole chain fits, another that  *)
(* has room to open and to try a transition.                               *)
(***************************************************************************)
EXTENDS WorkflowEpochSafety, TLC

CONSTANTS P, Q

WholeAndStart == [p \in Plans |-> IF p = P THEN 10 ELSE 2]
Symmetric == Permutations(Names) \cup Permutations(Slots)
=============================================================================
