------------------------ MODULE WorkflowEpochSafety -------------------------
(***************************************************************************)
(* What the epoch store guarantees to its callers, whatever they send.     *)
(***************************************************************************)
EXTENDS WorkflowEpochs

\* The log holds complete events and every head is a row of a known phase
\* (the table's CHECK constraints).
TypeOK ==
  /\ sched \in 0 .. MaxTicks
  /\ \A k \in DOMAIN epochs : epochs[k].plan \in Plans /\ epochs[k].at \in Times
  /\ \A p \in Plans : Opened(p) =>
        /\ heads[p].plan = p /\ heads[p].phase \in Phases
        /\ heads[p].terminal_at # None <=> heads[p].phase \in Terminal
        /\ heads[p].outcome # NoArtifact <=> heads[p].phase \in Terminal

\* The projected heads are at every moment the replay of the log, so a reopened
\* or recovered store resumes with the authority it had
\* (_validate_workflow_epoch_projection).
Replayed == heads = Replay

\* Where the log reserves the States of one Plan.
Builds(p) ==
  {k \in DOMAIN epochs : epochs[k].plan = p
                         /\ epochs[k].cause \in {"TRANSITION_RESERVED", "TERMINAL_RESERVED"}}

\* A Plan's history never forks: each reservation builds on the State the one
\* before it reserved, no State comes back, and the Outcome ends it - however
\* many callers raced with stale heads (_reserve_workflow_change).
LinearHistory ==
  \A p \in Plans : \A k \in Builds(p) :
    LET earlier == {j \in Builds(p) : j < k}
    IN  /\ earlier = {} => epochs[k].source = None
        /\ \A j \in earlier :
              /\ (\A i \in earlier : i <= j) => epochs[k].source = epochs[j].state.id
              /\ epochs[j].cause # "TERMINAL_RESERVED"
              /\ epochs[j].state.id # epochs[k].state.id

\* From a terminal's reservation to its confirmation the store belongs to that
\* Plan: no other epoch moves, the scheduler stays, and the Outcome is settled on
\* the very scheduler it judged ("the terminal linearization point").
Isolated ==
  \A k \in DOMAIN epochs :
    LET p == epochs[k].plan
        Open(m) == \A j \in k .. m : ~(epochs[j].plan = p
                                       /\ epochs[j].cause = "TERMINAL_CONFIRMED")
    IN  epochs[k].cause = "TERMINAL_RESERVED" =>
          /\ \A m \in k + 1 .. Len(epochs) :
                Open(m - 1) => epochs[m].plan = p /\ epochs[m].sched = epochs[k].sched
          /\ Open(Len(epochs)) => sched = epochs[k].sched

\* Within an epoch a path stands for one artifact and an artifact for one path,
\* over every reservation ever made (_merge_workflow_receipts): a retry with
\* another output path, or other content for the same path, is never accepted.
BoundOnce ==
  \A p \in Plans :
    \A a, b \in DOMAIN heads[p].receipts : a.path = b.path <=> a.id = b.id

\* The store implements the ledger: receipts, phases, keys and retries never let
\* the scheduler move, a State be added or a second Outcome appear where the
\* ledger would not.
Ledger == INSTANCE WorkflowLedger WITH
  States <- {<<"state", i>> : i \in Names},
  Outcomes <- {<<"outcome", i>> : i \in Names},
  authority <- sched,
  current <- [p \in Plans |-> heads[p].state.id],
  verdict <- [p \in Plans |-> heads[p].outcome.id],
  settled <- {p \in Plans : heads[p].phase = "TERMINAL_CONFIRMED"}
LedgerKept == Ledger!Spec
=============================================================================
