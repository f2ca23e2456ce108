----------------------------- MODULE MCScheduler ------------------------------
(***************************************************************************)
(* One instance of the scheduler; each .cfg takes the case its question    *)
(* needs.                                                                  *)
(***************************************************************************)
EXTENDS SchedulerSafety, SchedulerCases

NoTrees == [t \in AB |-> NoWorktree]
TreeOfA == [t \in AB |-> IF t = A THEN Tree ELSE NoWorktree]
=============================================================================
