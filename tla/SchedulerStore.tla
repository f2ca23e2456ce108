--------------------------- MODULE SchedulerStore ---------------------------
(***************************************************************************)
(* The durable store of the M6 scheduler (src/sdaqf/adapters/scheduler.py) *)
(* as a record of tables, and the operators that read it or compute the    *)
(* next one.  Nothing here is a step: Scheduler.tla says when the tables   *)
(* change, SchedulerReplay.tla which changes the replay validator accepts. *)
(***************************************************************************)
EXTENDS Integers, FiniteSets, Sequences

CONSTANTS
  Tasks,           \* the task graph's tasks
  Hosts,           \* the hosts that may invoke the scheduler
  Scheduler,       \* the sender of every outgoing message, HST-SCHEDULER
  Owner,           \* the authority that sends approval decisions
  Dependencies,    \* [Tasks -> SUBSET Tasks], a DAG
  ReviewTargets,   \* [Tasks -> SUBSET Tasks]
  ReadOnly,        \* the tasks whose effect_kind is read_only
  MaxAttempts,     \* [Tasks -> Nat \ {0}]
  ApprovalStops,   \* [Tasks -> SUBSET {"owner", "technical_sandbox"}]
  Worktree,        \* [Tasks -> worktree or NoWorktree]
  NoWorktree,
  Required,        \* [Tasks -> SUBSET Capabilities], required_capabilities
  Capabilities,
  Cost,            \* [Tasks -> [{"context_bytes", "tool_calls"} -> Nat]]
  Limit,           \* [Resources -> Nat], _budget_limits of the graph
  MaxContextBytes, \* max_context_bytes_per_dispatch
  Ttl,             \* lease_ttl_seconds
  IdOrder,         \* Tasks in task_id order, the order of graph.tasks
  DispatchOrder,   \* Tasks by wave, topological rank, task_id
  Vocabulary,      \* the payloads hosts and owners put into messages
  NoLease          \* no row in current_leases

\* What a dispatch reserves for one attempt.  solver_calls and solver_steps
\* are charged exactly as tool_calls is and are folded into it.
AttemptResources == {"context_bytes", "tool_calls", "microunits"}
Resources ==
  AttemptResources \cup
  {"concurrency", "dispatches", "retries", "wall_time_seconds"}

States == {"planned", "ready", "running", "completed", "blocked", "rejected",
           "superseded"}
Phases == {"not_dispatched", "intent_pending", "accepted",
           "cancellation_requested", "cancellation_acknowledged"}
Outcomes == {"none", "succeeded", "failed", "unknown", "cancelled"}

\* The codes of blockers.  What a blocker refers to is left out.
Reasons ==
  {"dependency-terminal-blocker", "missing-capability", "budget-exhausted",
   "approval-required", "worktree-unavailable",
   "lease-expired-safe-retry", "lease-expired-ambiguous",
   "unambiguous-dispatch-rejection", "dispatch-rejection-ambiguous",
   "safe-read-only-retry", "unambiguous-failure", "ambiguous-external-effect",
   "evidence-predicate-unsatisfied", "review-targets-unsatisfied",
   "cancellation-acknowledged", "cancellation-ambiguous",
   "ambiguous-worktree", "worktree-already-integrated"}

\* A Lease identity: the Lease artifact's digest covers all of these.
LeaseIds == [task : Tasks, owner : Hosts, attempt : Nat \ {0},
             fence : Nat \ {0}, acquired : Nat]
LeaseRows == [id : LeaseIds, expires : Nat]

\* derive_idempotency_key, of which only these parts vary.
IdempotencyKey(id) == <<id.task, id.attempt, id.fence>>

HostTypes == {"dispatch_acknowledgement", "heartbeat", "task_result",
              "cancel_acknowledgement", "worktree_observation",
              "approval_decision", "capability_observation"}

\* Scheduler-authored payloads; a dispatch carries its reservation.
Egress ==
  {[type |-> "worktree_request"], [type |-> "cancel_request"]} \cup
  [type : {"dispatch_intent"}, reservation : [AttemptResources -> Int]]

Messages == [say : Vocabulary \cup Egress, sender : Hosts \cup {Scheduler, Owner},
             lid : LeaseIds \cup {NoLease}, at : Nat]

-----------------------------------------------------------------------------
\* Reading the store d.

Held(d, t) == d.lease[t] # NoLease
Running(d) == {t \in Tasks : d.task[t].state = "running"}
Expired(d, t, now) == Held(d, t) /\ d.lease[t].expires <= now

\* _adopted_message_entries restricted to one type and one Lease.
Adopted(d, type, id) == {m \in d.mail : m.say.type = type /\ m.lid = id}

Dispatched(d, id) == Adopted(d, "dispatch_intent", id) # {}

\* _lease_was_activated: an unactivated Lease is only a proposal.
Activated(d, id) ==
  Dispatched(d, id) \/ Adopted(d, "worktree_request", id) # {}

Nothing == [r \in AttemptResources |-> 0]

\* _dispatch_reservation_for_lease, or nothing before the dispatch.
Reserved(d, id) ==
  IF Dispatched(d, id)
    THEN (CHOOSE m \in Adopted(d, "dispatch_intent", id) : TRUE).say.reservation
    ELSE Nothing

ContextSettled(d, id) ==
  \E m \in Adopted(d, "dispatch_acknowledgement", id) : m.say.accepted

\* _outstanding_reservation_for_lease.  The causes that settle everything
\* also release the Lease, so for a current one only acceptance counts.
Outstanding(d, id) ==
  [r \in AttemptResources |->
     IF r = "context_bytes" /\ ContextSettled(d, id) THEN 0
                                                     ELSE Reserved(d, id)[r]]

\* _dispatch_reservation: a dispatch reserves all of the remaining cost.
Reservation(d, t) ==
  LET left == Limit["microunits"] - d.reserved["microunits"]
                                  - d.used["microunits"]
  IN  [r \in AttemptResources |->
         IF r = "microunits" THEN IF left > 0 THEN left ELSE 0
                             ELSE Cost[t][r]]

\* _budget_allows_dispatch; slots is 1 when a concurrency slot is acquired.
BudgetAllows(d, t, slots) ==
  /\ Cost[t]["context_bytes"] <= MaxContextBytes
  /\ d.used["dispatches"] < Limit["dispatches"]
  /\ d.reserved["concurrency"] + slots <= Limit["concurrency"]
  /\ d.used["wall_time_seconds"] <= Limit["wall_time_seconds"]
  /\ \A r \in AttemptResources :
       d.reserved[r] + d.used[r] + Reservation(d, t)[r] <= Limit[r]

\* Mutation: the effect of a retried attempt need not be read only.
M_SafeRetry(d, t) ==
  /\ d.lease[t].id.attempt < MaxAttempts[t]
  /\ d.used["retries"] < Limit["retries"]

\* Mutation: one retry too many.
M_SafeRetryOffByOne(d, t) ==
  /\ t \in ReadOnly
  /\ d.lease[t].id.attempt <= MaxAttempts[t]
  /\ d.used["retries"] < Limit["retries"]

\* The condition under which a failed or lost attempt may run again: its
\* effect is read only, attempts remain and _reserve_retry succeeds.
SafeRetry(d, t) ==
  /\ t \in ReadOnly
  /\ d.lease[t].id.attempt < MaxAttempts[t]
  /\ d.used["retries"] < Limit["retries"]

\* Mutation: an approval given for an earlier proposal still counts.
M_Grants(d, t, id, stop, now) ==
  {m \in d.mail :
     /\ m.say.type = "approval_decision"
     /\ m.lid.task = t
     /\ m.say.stop = stop
     /\ m.say.approved
     /\ m.at <= now
     /\ now < m.at + m.say.life}

\* The adopted decisions _consume_approvals may select for one stop.
Grants(d, t, id, stop, now) ==
  {m \in Adopted(d, "approval_decision", id) :
     /\ m.say.stop = stop
     /\ m.say.approved
     /\ m \notin d.consumed
     /\ m.at <= now
     /\ now < m.at + m.say.life}

Approved(d, t, id, now) ==
  \A stop \in ApprovalStops[t] : Grants(d, t, id, stop, now) # {}

\* Mutation: the occupancy test looks only at the task's own row.
M_Occupied(d, t) == d.tree[t] # "none"

\* Another task's current Worktree Lease names this task's worktree.
Occupied(d, t) ==
  \E u \in Tasks \ {t} : d.tree[u] # "none" /\ Worktree[u] = Worktree[t]

-----------------------------------------------------------------------------
\* Computing the next store.

Moved(d, t, state, phase, outcome, blockers) ==
  [d EXCEPT !.task[t] = [@ EXCEPT !.state = state, !.phase = phase,
                                  !.outcome = outcome, !.blockers = blockers]]

Raised(f, g) == [r \in Resources |-> IF r \in AttemptResources
                                       THEN f[r] + g[r] ELSE f[r]]
Lowered(f, g) == [r \in Resources |-> IF r \in AttemptResources
                                        THEN f[r] - g[r] ELSE f[r]]

SlotTaken(d) == [d.reserved EXCEPT !["concurrency"] = @ + 1]
SlotFreed(d) == [d.reserved EXCEPT !["concurrency"] = @ - 1]

\* Mutation: the concurrency slot of the attempt is not given back.
M_Closed(d, t, charge) ==
  [d EXCEPT !.lease[t] = NoLease,
            !.tree[t] = "none",
            !.reserved = Lowered(@, Outstanding(d, d.lease[t].id)),
            !.used = Raised(@, charge)]

\* Mutation: the worktree outlives the attempt that held it.
M_ClosedKeepsTree(d, t, charge) ==
  [d EXCEPT !.lease[t] = NoLease,
            !.reserved = Lowered(SlotFreed(d), Outstanding(d, d.lease[t].id)),
            !.used = Raised(@, charge)]

\* Mutation: what was reserved is charged and stays reserved.
M_ClosedKeepsReserved(d, t, charge) ==
  [d EXCEPT !.lease[t] = NoLease,
            !.tree[t] = "none",
            !.reserved = SlotFreed(d),
            !.used = Raised(@, charge)]

\* An activated attempt ends: _release_current_lease, the concurrency slot,
\* and the outstanding reservation, of which charge becomes usage.
Closed(d, t, charge) ==
  [d EXCEPT !.lease[t] = NoLease,
            !.tree[t] = "none",
            !.reserved = Lowered(SlotFreed(d), Outstanding(d, d.lease[t].id)),
            !.used = Raised(@, charge)]

\* Mutation: the retry is granted without being counted.
M_Retried(d, t, reason) ==
  Moved(d, t, "ready", "not_dispatched", "failed", {reason})

\* A safe retry, and the quarantine every other loss of authority ends in.
Retried(d, t, reason) ==
  [Moved(d, t, "ready", "not_dispatched", "failed", {reason})
     EXCEPT !.used["retries"] = @ + 1]
Quarantined(d, t, reason) ==
  Moved(d, t, "blocked", "not_dispatched", "unknown", {reason})

\* A Lease current for task t from now on: current_leases and lease_history.
Leased(d, t, id, expires) ==
  [d EXCEPT !.lease[t] = [id |-> id, expires |-> expires],
            !.history = @ \cup {[id |-> id, expires |-> expires]},
            !.task[t] = [@ EXCEPT !.attempt = id.attempt, !.fence = id.fence]]

Outgoing(say, id, now) ==
  [say |-> say, sender |-> Scheduler, lid |-> id, at |-> now]

\* Approvals are consumed in the transaction that emits the dispatch.  Of
\* several that qualify the code takes the first adopted; which one it is
\* cannot be told apart afterwards, since the Lease is dispatched only once.
Consumed(d, t, id, now) ==
  [d EXCEPT !.consumed =
     @ \cup {CHOOSE m \in Grants(d, t, id, stop, now) : TRUE :
               stop \in ApprovalStops[t]}]

\* Mutation: the reservation is announced to the host but not booked.
M_Intent(d, t, id, now) ==
  [d EXCEPT !.mail = @ \cup {Outgoing([type |-> "dispatch_intent",
                                       reservation |-> Reservation(d, t)],
                                      id, now)},
            !.used["dispatches"] = @ + 1]

\* The dispatch intent with its reservation.
Intent(d, t, id, now) ==
  [d EXCEPT !.mail = @ \cup {Outgoing([type |-> "dispatch_intent",
                                       reservation |-> Reservation(d, t)],
                                      id, now)},
            !.reserved = Raised(@, Reservation(d, t)),
            !.used["dispatches"] = @ + 1]

\* _activate_dispatch_after_worktree: budget first, then approvals, then
\* the dispatch, all under the Lease the worktree was requested with.
Resumed(d, t, now) ==
  LET id == d.lease[t].id
  IN  IF ~BudgetAllows(d, t, 0)
        THEN Moved(d, t, "running", "not_dispatched", "none",
                   {"budget-exhausted"})
      ELSE IF ~Approved(d, t, id, now)
        THEN [d EXCEPT !.task[t].blockers = {"approval-required"}]
      ELSE Intent(Consumed([d EXCEPT !.task[t].phase = "intent_pending",
                                     !.task[t].blockers = {}],
                           t, id, now),
                  t, id, now)

-----------------------------------------------------------------------------
\* What the parsed task graph guarantees of the constants.
ASSUME TasksAssumption == IsFiniteSet(Tasks) /\ Tasks # {}
ASSUME HostsAssumption ==
  Hosts # {} /\ Scheduler \notin Hosts /\ Owner \notin Hosts \cup {Scheduler}
ASSUME GraphAssumption ==
  /\ Dependencies \in [Tasks -> SUBSET Tasks]
  /\ ReviewTargets \in [Tasks -> SUBSET Tasks]
  /\ ReadOnly \subseteq Tasks
  /\ MaxAttempts \in [Tasks -> Nat \ {0}]
  /\ ApprovalStops \in [Tasks -> SUBSET {"owner", "technical_sandbox"}]
  /\ Required \in [Tasks -> SUBSET Capabilities]
  /\ DOMAIN Worktree = Tasks
ASSUME BudgetAssumption ==
  /\ Cost \in [Tasks -> [{"context_bytes", "tool_calls"} -> Nat]]
  /\ Limit \in [Resources -> Nat]
  /\ MaxContextBytes \in Nat
  /\ Ttl \in Nat \ {0}
ASSUME OrderAssumption ==
  /\ IdOrder \in Seq(Tasks) /\ DispatchOrder \in Seq(Tasks)
  /\ {IdOrder[i] : i \in DOMAIN IdOrder} = Tasks
  /\ {DispatchOrder[i] : i \in DOMAIN DispatchOrder} = Tasks
  /\ Len(IdOrder) = Cardinality(Tasks)
  /\ Len(DispatchOrder) = Cardinality(Tasks)
ASSUME VocabularyAssumption ==
  \A say \in Vocabulary :
    /\ say.type \in HostTypes
    /\ say.type = "task_result" => say.usage \in [AttemptResources -> Nat]
    /\ say.type = "capability_observation" => say.caps \subseteq Capabilities
ASSUME NoLeaseAssumption == NoLease \notin LeaseRows /\ NoLease \notin LeaseIds
\* It is what a column without a value holds, and no value of any column.
ASSUME NullAssumption ==
  /\ NoLease \notin Tasks
  /\ NoLease \notin [state : States \cup {"verification"}, phase : Phases, outcome : Outcomes,
                     attempt : Nat, fence : Nat, blockers : SUBSET Reasons]
  /\ NoLease \notin [n : Nat, task : Tasks, id : LeaseIds, expires : Nat,
                     status : {"current"}, outcome : {"none"}]
  /\ NoLease \notin [n : Nat, task : Tasks, fence : Nat, status : {"requested", "observed"}]
=============================================================================
