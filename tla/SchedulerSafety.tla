--------------------------- MODULE SchedulerSafety ---------------------------
(***************************************************************************)
(* What the scheduler promises.  Most promises are about a store, whatever *)
(* the step in progress: they are stated of a store d and hold of both the *)
(* committed one and the working copy, so that no crash, abort or commit   *)
(* can expose a store that breaks them.                                    *)
(***************************************************************************)
EXTENDS Scheduler, FiniteSetsExt

\* The Leases of task t under which a host was ever asked to do something.
ActivatedIds(d, t) == {id \in {m.lid : m \in d.mail} \ {NoLease} :
                         id.task = t /\ Activated(d, id)}

Everywhere(P(_)) == P(disk) /\ (db # disk => P(db))

TaskRows == [state : States, phase : Phases, outcome : Outcomes,
             attempt : Nat, fence : Nat, blockers : SUBSET Reasons]

StoreType(d) ==
  /\ DOMAIN d = {"task", "lease", "tree", "reserved", "used", "mail",
                 "rejected", "history", "consumed", "caps", "registered", "spoke"}
  /\ d.task \in [Tasks -> TaskRows]
  /\ d.lease \in [Tasks -> LeaseRows \cup {NoLease}]
  /\ d.tree \in [Tasks -> {"none", "requested", "observed"}]
  /\ d.reserved \in [Resources -> Int]
  /\ d.used \in [Resources -> Int]
  /\ d.mail \subseteq Messages
  /\ d.rejected \subseteq Messages
  /\ d.history \subseteq LeaseRows
  /\ d.consumed \subseteq d.mail
  /\ d.caps \in [Hosts -> SUBSET Capabilities]
  /\ d.registered \subseteq Hosts
  /\ d.spoke \in Hosts \cup {Scheduler}

\* Every table holds rows of its own kind, and an open transaction knows
\* where it is (the schema and the row checks of _validate_connection).
TypeOK ==
  /\ Everywhere(StoreType)
  /\ tx \in [pc : {"idle", "expire", "ingest", "refresh", "retry", "dispatch",
                   "cancel", "commit"},
             after : {"idle", "ingest", "cancel", "commit"},
             host : Hosts \cup {Scheduler}, target : SUBSET Tasks, i : Nat]
  /\ fault \in {"none", "transition", "readiness", "lease-authority",
                "rejection", "raised"}
  /\ now \in Nat

-----------------------------------------------------------------------------
\* Authority: who may be running what.

\* A task is running exactly when its current Lease was activated, the lease
\* row agrees with the task row, and the worktree row exists only under that.
\* Expiry, replies and cancellation each release the three of them in their
\* own code (_expire_leases, _apply_*): none may leave one behind.
AuthorityOf(d) ==
  \A t \in Tasks :
    /\ d.task[t].state = "running" <=>
         Held(d, t) /\ Activated(d, d.lease[t].id)
    /\ Held(d, t) => /\ d.lease[t].id.task = t
                     /\ d.lease[t].id.attempt = d.task[t].attempt
                     /\ d.lease[t].id.fence = d.task[t].fence
    /\ d.tree[t] # "none" =>
         /\ d.task[t].state = "running"
         /\ Adopted(d, "worktree_request", d.lease[t].id) # {}
Authority == Everywhere(AuthorityOf)

\* No two attempts of a task ever carry the same attempt number or fence, a
\* later attempt has the larger fence, and the running one is the last: a host
\* that lost its Lease can always tell (_dispatch_ready hands out the numbers,
\* _expire_leases takes those of a proposal back).
FencedOf(d) ==
  \A t \in Tasks :
    /\ \A i, j \in ActivatedIds(d, t) :
         i # j => /\ i.attempt # j.attempt
                  /\ i.attempt < j.attempt => /\ i.fence < j.fence
                                              /\ i.acquired <= j.acquired
    /\ d.task[t].state = "running" =>
         \A i \in ActivatedIds(d, t) : i.fence <= d.lease[t].id.fence
Fenced == Everywhere(FencedOf)

\* Two tasks never hold the same worktree (the occupancy test in
\* _dispatch_ready against release on every path that ends an attempt).
WorktreeExclusiveIn(d) ==
  \A t, u \in Tasks :
    /\ d.tree[t] # "none" => Worktree[t] # NoWorktree
    /\ t # u /\ d.tree[t] # "none" /\ d.tree[u] # "none" =>
         Worktree[t] # Worktree[u]
WorktreeExclusive == Everywhere(WorktreeExclusiveIn)

-----------------------------------------------------------------------------
\* Budgets.

\* concurrency counts the running tasks: five places take the slot back and
\* two hand it out, all by adding or subtracting one.
ConcurrencyExactIn(d) == d.reserved["concurrency"] = Cardinality(Running(d))
ConcurrencyExact == Everywhere(ConcurrencyExactIn)

\* What is reserved is what the current Leases have outstanding, no more and
\* no less, and is never negative (_settle_*, _close_attempt_budget).
ReservationsExactIn(d) ==
  \A r \in AttemptResources :
    /\ d.reserved[r] = MapThenSumSet(LAMBDA t : Outstanding(d, d.lease[t].id)[r],
                                     {t \in Tasks : Held(d, t)})
    /\ d.reserved[r] >= 0
ReservationsExact == Everywhere(ReservationsExactIn)

\* Reserved and used together never exceed a limit of the graph, whichever
\* way reservations turn into usage (_budget_allows_dispatch admits once, the
\* settling code must not add to it).
WithinLimitsIn(d) ==
  \A r \in Resources \ {"wall_time_seconds"} :
    d.reserved[r] + d.used[r] <= Limit[r]
WithinLimits == Everywhere(WithinLimitsIn)

\* Every activation after a task's first one was paid for with a retry, in
\* the transaction that made the task ready again (_reserve_retry).
RetriesPaidIn(d) ==
  MapThenSumSet(LAMBDA t : LET n == Cardinality(ActivatedIds(d, t))
                           IN  IF n = 0 THEN 0 ELSE n - 1, Tasks)
    <= d.used["retries"]
RetriesPaid == Everywhere(RetriesPaidIn)

-----------------------------------------------------------------------------
\* Attempts.

\* The attempt number is the number of activations, plus the proposal if one
\* is pending: "An unactivated proposal may expire and rotate without ...
\* consuming an execution attempt", and no task is activated more often than
\* max_attempts allows.
AttemptsCountedIn(d) ==
  \A t \in Tasks :
    LET n == Cardinality(ActivatedIds(d, t))
    IN  /\ d.task[t].attempt =
             IF Held(d, t) /\ ~Activated(d, d.lease[t].id) THEN n + 1 ELSE n
        /\ d.task[t].attempt <= MaxAttempts[t]
AttemptsCounted == Everywhere(AttemptsCountedIn)

\* A task with effects is activated at most once, whatever is lost, expires,
\* is rejected or fails.
EffectsOnceIn(d) ==
  \A t \in Tasks \ ReadOnly : Cardinality(ActivatedIds(d, t)) <= 1
EffectsOnce == Everywhere(EffectsOnceIn)

\* A task is activated only after everything it depends on has completed, and
\* stays so: a dependency never leaves completed again.
DependenciesDoneIn(d) ==
  \A t \in Tasks : ActivatedIds(d, t) # {} =>
    \A u \in Dependencies[t] : d.task[u].state = "completed"
DependenciesDone == Everywhere(DependenciesDoneIn)

-----------------------------------------------------------------------------
\* Replies.

EndsAttempt(m) ==
  \/ m.say.type \in {"task_result", "cancel_acknowledgement"}
  \/ m.say.type = "dispatch_acknowledgement" /\ ~m.say.accepted
  \/ m.say.type = "worktree_observation" /\ m.say.worktree \in {"ambiguous", "integrated"}

\* At most one reply ends a Lease, nothing is adopted under it once it is
\* ended, it is acknowledged once, and a result that races a cancellation
\* request loses: results and requests exclude each other.
OneEndingIn(d) ==
  \A m, n \in d.mail :
    m.lid = n.lid /\ m # n /\ m.lid # NoLease =>
      /\ ~(EndsAttempt(m) /\ EndsAttempt(n))
      /\ EndsAttempt(m) => ~(Held(d, m.lid.task) /\ d.lease[m.lid.task].id = m.lid)
      /\ ~(/\ m.say.type = "dispatch_acknowledgement"
           /\ n.say.type = "dispatch_acknowledgement")
      /\ ~(m.say.type = "cancel_request" /\ n.say.type = "task_result")
OneEnding == Everywhere(OneEndingIn)

\* Each dispatch consumed one approval per stop, given for that very Lease and
\* in force at the moment of dispatch, even when the worktree took longer.
ApprovalsBoundIn(d) ==
  \A m \in d.mail : m.say.type = "dispatch_intent" =>
    \A stop \in ApprovalStops[m.lid.task] :
      \E c \in d.consumed :
        /\ c.lid = m.lid /\ c.say.stop = stop /\ c.say.approved
        /\ c.at <= m.at /\ m.at < c.at + c.say.life
        /\ \A e \in d.consumed : e.lid = m.lid /\ e.say.stop = stop => e = c
ApprovalsBound == Everywhere(ApprovalsBoundIn)

\* A completed task has a succeeded result with evidence, under its last
\* Lease, and all its review targets are completed.
CompletedProvedIn(d) ==
  \A t \in Tasks : d.task[t].state = "completed" =>
    /\ \A u \in ReviewTargets[t] : d.task[u].state = "completed"
    /\ \E m \in d.mail :
         /\ m.say.type = "task_result" /\ m.say.outcome = "succeeded"
         /\ m.say.evidence
         /\ m.lid.task = t /\ m.lid.fence = d.task[t].fence
CompletedProved == Everywhere(CompletedProvedIn)

\* No message is on record as both rejected and adopted.
RejectedStaysOut == disk.rejected \cap disk.mail = {}

-----------------------------------------------------------------------------
\* Steps.

Settled(d, t) ==
  \/ d.task[t].state \in {"completed", "rejected", "superseded"}
  \/ d.task[t].state = "blocked" /\ d.task[t].outcome = "unknown"

\* A task whose outcome is final or unknown is never touched again: no refresh
\* after a restart, late reply or expiry revives it.
SettlesOnce ==
  \A t \in Tasks : Settled(disk, t) =>
    /\ disk'.task[t] = disk.task[t]
    /\ disk'.lease[t] = NoLease
    /\ ActivatedIds(disk', t) = ActivatedIds(disk, t)
SettledStays == [][SettlesOnce]_disk

-----------------------------------------------------------------------------
\* The ledger of attempts.

StandingOf(d, t) ==
  LET state == d.task[t].state
  IN  CASE state \in {"running", "completed"} -> state
        [] state \in {"rejected", "superseded"} -> "closed"
        [] state = "blocked" /\ d.task[t].outcome = "unknown" -> "doubtful"
        [] OTHER -> IF Held(d, t) THEN "offered" ELSE "waiting"

EntriesOf(d) ==
  [t \in Tasks |-> [standing |-> StandingOf(d, t), attempt |-> d.task[t].attempt]]

Attempts == INSTANCE AttemptLedger WITH
  Slots <- Limit["concurrency"], entry <- EntriesOf(db), saved <- EntriesOf(disk)

\* Whatever hosts send, however calls interleave, fail and are rolled back, the
\* tables implement the ledger of attempts: each step inside a call moves one
\* task as the ledger allows, and only whole calls are committed (tick and
\* request_cancel against the transition tables of the scheduler contracts).
AttemptsKept == Attempts!Spec

-----------------------------------------------------------------------------
\* Progress, under FairSpec.

Overdue(t) == Expired(disk, t, now)

\* A Lease whose time is over is released, however late the calls come that
\* notice it, and whichever of them crash or raise (_expire_leases, which every
\* tick runs before it reads the mailbox).
ExpiryIsNoticed == \A t \in Tasks : Overdue(t) ~> ~Overdue(t)

\* The model's clock ends; an attempt that may last beyond it is never overdue.
Outlived == \E t \in Tasks : /\ Held(disk, t) /\ disk.lease[t].expires > Horizon
                             /\ Activated(disk, disk.lease[t].id)

\* With fewer slots than tasks, and a worktree for two of them, every task
\* still gets its turn, unless what it depends on can no longer complete: a
\* lost or failed attempt gives slot and worktree back on whichever path it
\* ends, and the tasks before it use up their attempts instead of holding them
\* for ever.
NoStarvation ==
  \A t \in Tasks :
    <>(ActivatedIds(disk, t) # {} \/ Terminal(disk, t) \/ Outlived)

-----------------------------------------------------------------------------
\* What the documentation says live code and replay agree on.

\* "An unactivated proposal may expire and rotate": the transaction that
\* withdraws it is not refused (_expire_leases against _EVENT_TRANSITIONS).
ProposalsMayExpire == fault # "transition"

\* Readiness is decided by "the current Lease owner's latest observation, or
\* the invoking host when no Lease exists", and "replay derives the exact
\* live-policy projection" (_refresh_ready against _validate_exact_readiness).
ReadinessReplay == fault # "readiness"

\* "Duplicate message identity is idempotent": hearing a message again never
\* makes the call fail (_ingest_message against _validate_event_semantics).
DuplicatesHarmless == fault # "lease-authority"
=============================================================================
