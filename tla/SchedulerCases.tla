---------------------------- MODULE SchedulerCases ----------------------------
(***************************************************************************)
(* Small task graphs, budgets and vocabularies, from which the instances   *)
(* of the scheduler for TLC are put together.                              *)
(***************************************************************************)
EXTENDS Naturals

CONSTANTS A, B, Tree, Cap

AB == {A, B}
NoTasks       == [t \in AB |-> {}]
AOnly         == {A}
AThenB        == [t \in AB |-> IF t = B THEN {A} ELSE {}]
AReviewsB     == [t \in AB |-> IF t = A THEN {B} ELSE {}]
TwoAttempts   == [t \in AB |-> 2]
ThreeAttempts == [t \in AB |-> 3]
OwnerStopsA   == [t \in AB |-> IF t = A THEN {"owner"} ELSE {}]
CapForA       == [t \in AB |-> IF t = A THEN {Cap} ELSE {}]
CapForB       == [t \in AB |-> IF t = B THEN {Cap} ELSE {}]
FreeTasks     == [t \in AB |-> [context_bytes |-> 0, tool_calls |-> 0]]
CheapTasks    == [t \in AB |-> [context_bytes |-> 1, tool_calls |-> 1]]
CostlyTasks   == [t \in AB |-> [context_bytes |-> 2, tool_calls |-> 1]]
InOrder       == <<A, B>>

Limits(slots, dispatches, retries, context, tools, cost) ==
  [concurrency |-> slots, dispatches |-> dispatches, retries |-> retries,
   context_bytes |-> context, tool_calls |-> tools, microunits |-> cost,
   wall_time_seconds |-> 9]
OneSlot  == Limits(1, 9, 9, 0, 0, 0)
TwoSlots == Limits(2, 9, 9, 0, 0, 0)
Ample    == Limits(2, 9, 9, 9, 9, 3)
Tight    == Limits(2, 3, 1, 5, 1, 2)

\* Two retries, context for three attempts, one tool call at a time, and no
\* dispatch once the clock has moved twice.
Hurried  == [Limits(2, 9, 2, 3, 1, 2) EXCEPT !["wall_time_seconds"] = 1]

NoUse    == [context_bytes |-> 0, tool_calls |-> 0, microunits |-> 0]
Ack(accepted, effect) == [type |-> "dispatch_acknowledgement",
                          accepted |-> accepted, effect |-> effect]
Beat     == [type |-> "heartbeat"]
Result(outcome, effect, evidence, use) ==
  [type |-> "task_result", outcome |-> outcome, effect |-> effect,
   evidence |-> evidence, usage |-> use]
CancelAck(cancelled, effect) == [type |-> "cancel_acknowledgement",
                                 cancelled |-> cancelled, effect |-> effect]
Seen(worktree) == [type |-> "worktree_observation", worktree |-> worktree]
Decision(approved, life) == [type |-> "approval_decision", stop |-> "owner",
                             approved |-> approved, life |-> life]
Has(caps) == [type |-> "capability_observation", caps |-> caps]

Succeeds == Result("succeeded", "confirmed", TRUE, NoUse)
Unproved == Result("succeeded", "confirmed", FALSE, NoUse)
Fails    == Result("failed", "none", FALSE, NoUse)
Unknown  == Result("unknown", "ambiguous", FALSE, NoUse)

Silence      == {}
AttemptTalk  == {Decision(TRUE, 1), Ack(FALSE, "none"), Seen("created"), Succeeds, Unproved, Fails,
                 CancelAck(TRUE, "none")}
CancelTalk   == {Beat, Succeeds, Unknown, CancelAck(TRUE, "none"),
                 CancelAck(FALSE, "ambiguous")}
ApprovalTalk == {Decision(TRUE, 1), Decision(TRUE, 2), Seen("created")}
BudgetTalk   == {Ack(TRUE, "none"), Seen("created"),
                 Result("failed", "none", FALSE, [NoUse EXCEPT !["tool_calls"] = 1]),
                 Result("succeeded", "confirmed", TRUE,
                        [NoUse EXCEPT !["microunits"] = 1])}
ReviewTalk   == {Succeeds, Unproved, Fails}
HostTalk     == {Has({Cap}), Succeeds}

\* With FreeTasks nothing is reserved, so that the last of these overspends.
ProgressTalk == {Fails, Seen("created"),
                 Result("failed", "none", FALSE, [NoUse EXCEPT !["tool_calls"] = 1])}
=============================================================================
