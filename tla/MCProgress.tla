------------------------------ MODULE MCProgress ------------------------------
(***************************************************************************)
(* Three tasks and two slots.  A and C come first and take both; A is      *)
(* retried when it is lost, and holds the worktree that B needs as well.   *)
(***************************************************************************)
EXTENDS SchedulerSafety, SchedulerCases

CONSTANT C

ABC == {A, B, C}
Independent == [t \in ABC |-> {}]
TwoTries    == [t \in ABC |-> 2]
SharedTree  == [t \in ABC |-> IF t = C THEN NoWorktree ELSE Tree]
NoCosts     == [t \in ABC |-> FreeTasks[A]]
ById        == <<A, B, C>>
BLast       == <<A, C, B>>
=============================================================================
