----------------------- MODULE MCWorkflowPublication -----------------------
(* One Plan and one checkout.  Output slots are numbered; a process names the *)
(* operations it is asked to run with the slot each writes to.                *)
EXTENDS WorkflowPublicationSafety, TLC
CONSTANTS P, c1, c2, Events
RoomForAll == [p \in Plans |-> Events]

\* A planner that goes on to the Outcome, and a second operator who recovers the
\* epoch or supersedes it, at the outputs the first chose or at others.
TwoFinishers ==
  c1 :> {<<"workflow-plan", 1>>, <<"workflow-advance", 1>>, <<"workflow-outcome", 2>>} @@
  c2 :> {<<"workflow-recover", 2>>, <<"workflow-supersede", 1>>, <<"workflow-supersede", 2>>}

\* One operator on their own, so that no refusal is another's doing.
OneOperator ==
  c1 :> {<<"workflow-plan", 1>>} \cup
        ({"workflow-advance", "workflow-recover", "workflow-outcome"} \X Slots)
=============================================================================
