----------------------------- MODULE MCScheduling -----------------------------
(***************************************************************************)
(* Instances of the scheduler in one run, four of it alone and two of it   *)
(* with its evidence and its recovery: a behaviour draws one of them at    *)
(* the start and stays with it.  What an instance does not name it takes   *)
(* from the defaults below.                                                *)
(***************************************************************************)
EXTENDS SchedulerCases

CONSTANTS Parts,  \* the instances of this run
          h1, h2, Scheduler, Owner, NoWorktree, NoLease

VARIABLES disk, db, tx, fault, now, log, kept, rec, output, part

NoTrees == [t \in AB |-> NoWorktree]
TreeOfA == [t \in AB |-> IF t = A THEN Tree ELSE NoWorktree]
JustA   == {A}
BOnly   == {B}
First   == <<A>>

Tasks           == AB
Hosts           == {h1}
Capabilities    == {Cap}
Dependencies    == NoTasks
ReviewTargets   == NoTasks
ReadOnly        == AOnly
MaxAttempts     == TwoAttempts
ApprovalStops   == NoTasks
Worktree        == NoTrees
Required        == NoTasks
Cost            == FreeTasks
Limit           == TwoSlots
MaxContextBytes == 2
Ttl             == 1
IdOrder         == InOrder
DispatchOrder   == InOrder
Horizon         == 3
MaxInbox        == 1
MaxRejected     == 0
MaxEvents       == 8

\* One costly task, and an approval that may come late, outlive its Lease, or lapse
\* while the task waits for its worktree.
Approvals == INSTANCE SchedulerSafety WITH
  Tasks <- JustA, IdOrder <- First, DispatchOrder <- First,
  ApprovalStops <- OwnerStopsA, Worktree <- TreeOfA, Cost <- CostlyTasks,
  Limit <- Ample, Ttl <- 2, Horizon <- 2, Vocabulary <- ApprovalTalk

\* Limits tight enough to block a dispatch before and after its worktree.
Budgets == INSTANCE SchedulerSafety WITH
  MaxAttempts <- ThreeAttempts, Worktree <- TreeOfA, Cost <- CostlyTasks,
  Limit <- Tight, Horizon <- 2, Vocabulary <- BudgetTalk

\* A reviews B, with and without evidence.
Reviews == INSTANCE SchedulerSafety WITH
  ReviewTargets <- AReviewsB, Horizon <- 2, Vocabulary <- ReviewTalk

\* Two hosts, two messages to a tick, one rejection on record.
TwoHosts == INSTANCE SchedulerSafety WITH
  Tasks <- JustA, Hosts <- {h1, h2}, Required <- CapForA, IdOrder <- First,
  DispatchOrder <- First, Horizon <- 1, MaxInbox <- 2, MaxRejected <- 1,
  Vocabulary <- HostTalk

\* A stops for an approval and then for a worktree, while B fails and is retried.
Stops == INSTANCE SchedulerRecovery WITH
  ReadOnly <- BOnly, ApprovalStops <- OwnerStopsA, Worktree <- TreeOfA,
  Cost <- CheapTasks, Limit <- Limits(2, 3, 1, 3, 2, 0), Ttl <- 2, Horizon <- 2,
  Vocabulary <- {Decision(TRUE, 2), Seen("created"), Ack(TRUE, "none"), Succeeds, Fails}

\* Two dispatches in all; rejections, heartbeats, cancellations, results
\* without evidence, and messages that come when they are not wanted.
Replies == INSTANCE SchedulerRecovery WITH
  Required <- CapForB, Cost <- CheapTasks, Limit <- Limits(2, 2, 1, 3, 2, 0),
  Ttl <- 2, Horizon <- 1, MaxRejected <- 1, MaxEvents <- 6,
  Vocabulary <- {Ack(FALSE, "none"), Beat, CancelAck(TRUE, "none"), Has({Cap}), Unproved}

\* An instance without evidence leaves these as they are.
evidence == <<log, kept, rec, output>>
Unkept   == log = <<>> /\ kept = <<>> /\ rec = <<>> /\ output = <<>>

SchedulingInit ==
  /\ part \in Parts
  /\ CASE part = "approvals" -> Approvals!Init /\ Unkept
       [] part = "budgets"   -> Budgets!Init /\ Unkept
       [] part = "reviews"   -> Reviews!Init /\ Unkept
       [] part = "hosts"     -> TwoHosts!Init /\ Unkept
       [] part = "stops"     -> Stops!RecoveryInit
       [] part = "replies"   -> Replies!RecoveryInit

SchedulingNext ==
  /\ UNCHANGED part
  /\ CASE part = "approvals" -> Approvals!Next /\ UNCHANGED evidence
       [] part = "budgets"   -> Budgets!Next /\ UNCHANGED evidence
       [] part = "reviews"   -> Reviews!Next /\ UNCHANGED evidence
       [] part = "hosts"     -> TwoHosts!Next /\ UNCHANGED evidence
       [] part = "stops"     -> Stops!RecoveryNext
       [] part = "replies"   -> Replies!RecoveryNext

all == <<disk, db, tx, fault, now, evidence, part>>

SchedulingSpec == SchedulingInit /\ [][SchedulingNext]_all

-----------------------------------------------------------------------------
\* The properties of SchedulerSafety and SchedulerRecovery, each where its case
\* arises.

In(name, P) == part = name => P

\* What SchedulerSafety promises, in the graphs that try it hardest: approvals
\* that lapse while a worktree is awaited, limits that block a dispatch twice,
\* a review whose target is not done, a rejected message delivered again.
PromisesKept ==
  /\ In("approvals", Approvals!ApprovalsBound /\ Approvals!ReservationsExact)
  /\ In("budgets", Budgets!ReservationsExact /\ Budgets!WithinLimits)
  /\ In("reviews", Reviews!CompletedProved)
  /\ In("hosts", TwoHosts!RejectedStaysOut)

\* What the scheduler wrote, the validator derives again, row by row.
CommitsReplay == In("stops", Stops!CommitsReplay) /\ In("replies", Replies!CommitsReplay)

\* No row of the evidence can be lost without the validator noticing.
EveryRowCounts == In("stops", Stops!EveryRowCounts) /\ In("replies", Replies!EveryRowCounts)

\* A recovery publishes once, whole, what the scheduler itself had written.
RecoveredIsLive ==
  [][In("stops", Stops!PublishesLive) /\ In("replies", Replies!PublishesLive)]_all

\* status() and historical_status() of the head are one Scheduler State.
HeadIsStatus == In("stops", Stops!HeadIsStatus) /\ In("replies", Replies!HeadIsStatus)
=============================================================================
