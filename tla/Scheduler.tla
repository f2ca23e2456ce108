----------------------------- MODULE Scheduler ------------------------------
(***************************************************************************)
(* The M6 scheduler: tick and request_cancel of SQLiteSchedulerStore       *)
(* (src/sdaqf/adapters/scheduler.py), called by several                    *)
(* host processes on one SQLite file.  A call is one transaction (a        *)
(* cancellation is two), written here one step per lease, message or task  *)
(* it visits, on the working copy db; disk is what the file holds.  BEGIN  *)
(* IMMEDIATE excludes other writers, so db belongs to one call at a time,  *)
(* and a call that raises, or dies, leaves disk as it was.  Hosts, owners  *)
(* and the mailbox are the environment: they send what they like, again    *)
(* and again, through any host, in any order.                              *)
(***************************************************************************)
EXTENDS SchedulerReplay

CONSTANTS
  Horizon,     \* bound: the clock stops here
  MaxInbox,    \* bound: messages given to one tick
  MaxRejected  \* bound: distinct messages the event log has rejected

VARIABLES
  disk,   \* the committed store
  db,     \* the store as the open transaction sees it
  tx,     \* the open transaction, or Idle
  fault,  \* why the open transaction must not commit, or "none"
  now     \* the clock, in the unit of the lease ttl

vars == <<disk, db, tx, fault, now>>

Idle == [pc |-> "idle", after |-> "idle", host |-> Scheduler, target |-> {},
         i |-> 1]

EmptyStore ==
  [task       |-> [t \in Tasks |->
                     [state   |-> IF Dependencies[t] = {} THEN "ready"
                                                          ELSE "planned",
                      phase   |-> "not_dispatched",
                      outcome |-> "none",
                      attempt |-> 0, fence |-> 0, blockers |-> {}]],
   lease      |-> [t \in Tasks |-> NoLease],
   tree       |-> [t \in Tasks |-> "none"],
   reserved   |-> [r \in Resources |-> 0],
   used       |-> [r \in Resources |-> 0],
   mail       |-> {},
   rejected   |-> {},
   history    |-> {},
   consumed   |-> {},
   caps       |-> [h \in Hosts |-> {}],
   registered |-> {},
   spoke      |-> Scheduler]

Init ==
  /\ disk = EmptyStore
  /\ db = disk
  /\ tx = Idle
  /\ fault = "none"
  /\ now = 0

-----------------------------------------------------------------------------
\* Opening a transaction, and moving within it.

\* A new timestamp: no message has been adopted at it yet.
AdvanceClock ==
  /\ tx = Idle
  /\ now < Horizon
  /\ now' = now + 1
  /\ disk' = [disk EXCEPT !.spoke = Scheduler]
  /\ db' = disk'
  /\ UNCHANGED <<tx, fault>>

\* _observe_wall_time, the first thing every call does.
Observed(d) ==
  [d EXCEPT !.used["wall_time_seconds"] = IF @ < now THEN now ELSE @]

Begin(h, target, pc, after) ==
  /\ tx = Idle
  /\ db' = Observed(disk)
  /\ tx' = [pc |-> pc, after |-> after, host |-> h, target |-> target, i |-> 1]
  /\ UNCHANGED <<disk, fault, now>>

BeginTick(h) == Begin(h, {}, "expire", "ingest")

\* request_cancel, first transaction: it expires leases, but only when the
\* caller's own lease on the target is due.
BeginCancelCheck(h, t) ==
  IF Expired(disk, t, now) /\ disk.lease[t].id.owner = h
    THEN Begin(h, {t}, "expire", "commit")
    ELSE Begin(h, {t}, "commit", "commit")

\* request_cancel, second transaction.  Its timestamp was taken before the
\* first one; when other calls got in between with a later one, the event log
\* refuses the older timestamp, so only the case "not later" is a step.
BeginCancel(h, t) == Begin(h, {t}, "expire", "cancel")

InTx(pc) == tx.pc = pc /\ fault = "none"

Goto(pc) == tx' = [tx EXCEPT !.pc = pc, !.i = 1]
Advance == tx' = [tx EXCEPT !.i = @ + 1]

\* A pass over the tasks in some order, from i on: the next one it visits is
\* the first that is due; the tasks before it are left alone.
Visit(order, t, due) ==
  \E i \in tx.i..Len(order) :
    /\ order[i] = t /\ t \in due
    /\ \A j \in tx.i..(i - 1) : order[j] \notin due
    /\ tx' = [tx EXCEPT !.i = i + 1]
PassOver(order, due) == \A i \in tx.i..Len(order) : order[i] \notin due

\* _append_event for a task: the transition must be one replay accepts.
Record(t, d, cause) ==
  /\ db' = d
  /\ fault' = IF TransitionReplays(db.task[t].state, d.task[t].state, cause)
                THEN "none" ELSE "transition"

-----------------------------------------------------------------------------
\* _expire_leases: the due leases, in task_id order.

FirstExpired(t) ==
  \E i \in DOMAIN IdOrder :
    /\ IdOrder[i] = t
    /\ Expired(db, t, now)
    /\ \A j \in 1..(i - 1) : ~Expired(db, IdOrder[j], now)

\* The proposal's attempt and fence numbers go back with it.
Withdrawn(d, t) ==
  [Moved(d, t, "ready", "not_dispatched", d.task[t].outcome, {})
     EXCEPT !.lease[t] = NoLease,
            !.tree[t] = "none",
            !.task[t] = [@ EXCEPT !.attempt = d.lease[t].id.attempt - 1,
                                  !.fence = d.lease[t].id.fence - 1]]

ProposalExpires(t) ==
  /\ InTx("expire") /\ FirstExpired(t)
  /\ ~Activated(db, db.lease[t].id)
  /\ Record(t, Withdrawn(db, t), "approval-proposal-expired")
  /\ UNCHANGED <<disk, tx, now>>

LeaseExpires(t) ==
  LET closed == Closed(db, t, Outstanding(db, db.lease[t].id))
  IN  /\ InTx("expire") /\ FirstExpired(t)
      /\ Activated(db, db.lease[t].id)
      /\ Record(t,
                IF SafeRetry(db, t)
                  THEN Retried(closed, t, "lease-expired-safe-retry")
                  ELSE Quarantined(closed, t, "lease-expired-ambiguous"),
                "lease-expired")
      /\ UNCHANGED <<disk, tx, now>>

\* Mutation: the expiry pass is skipped altogether.
M_ExpiryDone ==
  /\ InTx("expire")
  /\ Goto(tx.after)
  /\ UNCHANGED <<disk, db, fault, now>>

ExpiryDone ==
  /\ InTx("expire")
  /\ \A t \in Tasks : ~Expired(db, t, now)
  /\ Goto(tx.after)
  /\ UNCHANGED <<disk, db, fault, now>>

-----------------------------------------------------------------------------
\* The mailbox.

Approval(m)   == m.say.type = "approval_decision"
Capability(m) == m.say.type = "capability_observation"

\* The scheduler message a reply must cite, and that its sender has read.
CauseOf(type) ==
  CASE type \in {"dispatch_acknowledgement", "heartbeat", "task_result"} ->
         "dispatch_intent"
    [] type = "cancel_acknowledgement" -> "cancel_request"
    [] type = "worktree_observation"   -> "worktree_request"

\* Messages that can have been written by now.  recorded_at matters only where
\* a message may be repeated or dated; elsewhere one value stands for all.
Fresh ==
  {m \in [say : Vocabulary, sender : Hosts \cup {Owner},
          lid : {row.id : row \in disk.history} \cup {NoLease}, at : 0..now] :
     IF Capability(m)
       THEN m.lid = NoLease /\ m.sender # Owner /\ m.at = now
     ELSE /\ m.lid # NoLease
          /\ IF Approval(m)
               THEN m.sender = Owner /\ m.at >= m.lid.acquired
             ELSE /\ m.sender # Owner
                  /\ Adopted(disk, CauseOf(m.say.type), m.lid) # {}
                  /\ m.at = IF m.say.type \in {"heartbeat", "worktree_observation"}
                              THEN now ELSE m.lid.acquired}

\* Anything sent before may be delivered again.
Deliverable ==
  {m \in disk.mail : m.sender # Scheduler} \cup disk.rejected \cup Fresh

Current(d, m) ==
  /\ m.lid # NoLease
  /\ d.lease[m.lid.task] # NoLease
  /\ d.lease[m.lid.task].id = m.lid

\* The authority a reply needs: the live Lease, held by the host that calls.
FromHolder(d, m, h) ==
  /\ Current(d, m)
  /\ m.sender = m.lid.owner
  /\ m.sender = h
  /\ now < d.lease[m.lid.task].expires

\* One reply of each type per idempotency key; three types may repeat.
Conflicting(d, m) ==
  /\ m.say.type \in {"dispatch_acknowledgement", "task_result",
                     "cancel_acknowledgement"}
  /\ \E n \in d.mail :
       /\ n.say.type = m.say.type
       /\ IdempotencyKey(n.lid) = IdempotencyKey(m.lid)

\* The phases in which a reply to a dispatch still means something.
OpenPhases(type) ==
  CASE type = "dispatch_acknowledgement"   -> {"intent_pending"}
    [] type \in {"heartbeat", "task_result"} -> {"intent_pending", "accepted"}
    [] type = "cancel_acknowledgement"     -> {"cancellation_requested"}
    [] type = "worktree_observation"       -> {"not_dispatched"}

\* Mutation: any host may answer for a phase that is over.
M_ReplyAdoptable(d, m, h) ==
  /\ FromHolder(d, m, h)
  /\ Adopted(d, CauseOf(m.say.type), m.lid) # {}
  /\ m.say.type = "worktree_observation" =>
       /\ d.tree[m.lid.task] # "none"
       /\ d.task[m.lid.task].state = "running"

ReplyAdoptable(d, m, h) ==
  /\ FromHolder(d, m, h)
  /\ ~Conflicting(d, m)
  /\ d.task[m.lid.task].phase \in OpenPhases(m.say.type)
  /\ Adopted(d, CauseOf(m.say.type), m.lid) # {}
  /\ m.say.type = "worktree_observation" =>
       /\ d.tree[m.lid.task] # "none"
       /\ d.task[m.lid.task].state = "running"
       /\ d.task[m.lid.task].outcome = "none"

Adoptable(d, m, h) ==
  IF Capability(m) THEN m.sender = h
  ELSE IF Approval(m)
    THEN /\ m.sender = Owner
         /\ Current(d, m)
         /\ m.say.stop \in ApprovalStops[m.lid.task]
  ELSE ReplyAdoptable(d, m, h)

\* _insert_message.
Received(m) ==
  [db EXCEPT !.mail = @ \cup {m},
             !.spoke = IF m.sender \in Hosts THEN m.sender ELSE @]

\* The steps of one delivery share this frame; t is the task concerned.
Delivering == InTx("ingest") /\ tx.i <= MaxInbox

Adopting(m) ==
  /\ Delivering
  /\ m \in Deliverable \ db.mail
  /\ Adoptable(db, m, tx.host)

Adopt(m, t, d, cause) ==
  /\ db' = d
  /\ fault' = IF ~AdoptionReplays(db, m) THEN "rejection"
              ELSE IF ~TransitionReplays(db.task[t].state, d.task[t].state, cause)
                THEN "transition"
              ELSE "none"
  /\ Advance
  /\ UNCHANGED <<disk, now>>

\* A message already adopted: only a duplicate-message event is appended.
Redelivered(m) ==
  /\ Delivering
  /\ m \in Deliverable \cap db.mail
  /\ fault' = IF DuplicateReplays(db, m, now) THEN "none" ELSE "lease-authority"
  /\ Advance
  /\ UNCHANGED <<disk, db, now>>

Reject(m) ==
  /\ Delivering
  /\ m \in Deliverable \ db.mail
  /\ ~Adoptable(db, m, tx.host)
  /\ Cardinality(db.rejected \cup {m}) <= MaxRejected
  /\ db' = [db EXCEPT !.rejected = @ \cup {m}]
  /\ Advance
  /\ UNCHANGED <<disk, fault, now>>

CapabilityObserved(m) ==
  /\ Adopting(m) /\ Capability(m)
  /\ db' = [Received(m) EXCEPT !.caps[m.sender] = m.say.caps,
                               !.registered = @ \cup {m.sender}]
  /\ fault' = IF AdoptionReplays(db, m) THEN "none" ELSE "rejection"
  /\ Advance
  /\ UNCHANGED <<disk, now>>

\* An approval under a requested and observed worktree resumes the dispatch.
ApprovalReceived(m) ==
  LET t == m.lid.task
      d == Received(m)
  IN  /\ Adopting(m) /\ Approval(m)
      /\ db' = IF d.tree[t] = "observed" /\ d.task[t].phase = "not_dispatched"
                 THEN Resumed(d, t, now) ELSE d
      /\ fault' = IF AdoptionReplays(db, m) THEN "none" ELSE "rejection"
      /\ Advance
      /\ UNCHANGED <<disk, now>>

\* _apply_dispatch_ack.
DispatchAccepted(m) ==
  LET t       == m.lid.task
      settled == Outstanding(db, m.lid)["context_bytes"]
  IN  /\ Adopting(m) /\ m.say.type = "dispatch_acknowledgement" /\ m.say.accepted
      /\ Adopt(m, t, [Received(m) EXCEPT
                        !.task[t].phase = "accepted",
                        !.reserved["context_bytes"] = @ - settled,
                        !.used["context_bytes"] = @ + settled],
               "dispatch-accepted")

DispatchRejected(m) ==
  LET t      == m.lid.task
      closed == Closed(Received(m), t, Nothing)
  IN  /\ Adopting(m) /\ m.say.type = "dispatch_acknowledgement" /\ ~m.say.accepted
      /\ Adopt(m, t,
               IF m.say.effect = "none" /\ SafeRetry(db, t)
                 THEN Retried(closed, t, "unambiguous-dispatch-rejection")
                 ELSE Quarantined(closed, t, "dispatch-rejection-ambiguous"),
               "dispatch-rejected")

\* _apply_heartbeat.
Heartbeat(m) ==
  LET t   == m.lid.task
      row == [id |-> m.lid, expires |-> now + Ttl]
  IN  /\ Adopting(m) /\ m.say.type = "heartbeat"
      /\ Adopt(m, t, [Received(m) EXCEPT !.lease[t] = row,
                                         !.history = @ \cup {row}],
               "heartbeat")

\* A result that reports more than its reservation raises and takes the
\* whole tick with it, before anything else of the result is looked at.
Overspent(m) ==
  \E r \in AttemptResources \ {"context_bytes"} :
    m.say.usage[r] > Reserved(db, m.lid)[r]

ResultRaises(m) ==
  /\ Adopting(m) /\ m.say.type = "task_result"
  /\ Overspent(m)
  /\ fault' = "raised"
  /\ Advance
  /\ UNCHANGED <<disk, db, now>>

\* _settle_result_budget: what was used, and the context bytes in any case.
Charge(m) ==
  [m.say.usage EXCEPT !["context_bytes"] =
     Outstanding(db, m.lid)["context_bytes"]]

\* Mutation: completion does not look at the evidence.
M_Verified(d, t, m) ==
  IF \E u \in ReviewTargets[t] : d.task[u].state # "completed"
    THEN Moved(d, t, "blocked", "accepted", "unknown",
               {"review-targets-unsatisfied"})
  ELSE Moved(d, t, "completed", "accepted", "succeeded", {})

\* A succeeded result is verified in the same step.
Verified(d, t, m) ==
  IF ~m.say.evidence
    THEN Moved(d, t, "blocked", "accepted", "unknown",
               {"evidence-predicate-unsatisfied"})
  ELSE IF \E u \in ReviewTargets[t] : d.task[u].state # "completed"
    THEN Moved(d, t, "blocked", "accepted", "unknown",
               {"review-targets-unsatisfied"})
  ELSE Moved(d, t, "completed", "accepted", "succeeded", {})

\* _apply_result.
ResultSucceeded(m) ==
  LET t == m.lid.task
  IN  /\ Adopting(m) /\ m.say.type = "task_result" /\ ~Overspent(m)
      /\ m.say.outcome = "succeeded" /\ m.say.effect # "ambiguous"
      /\ Adopt(m, t, Verified(Closed(Received(m), t, Charge(m)), t, m),
               "result-received")

ResultUnsuccessful(m) ==
  LET t      == m.lid.task
      closed == Closed(Received(m), t, Charge(m))
      clean  == m.say.outcome = "failed" /\ m.say.effect = "none"
  IN  /\ Adopting(m) /\ m.say.type = "task_result" /\ ~Overspent(m)
      /\ ~(m.say.outcome = "succeeded" /\ m.say.effect # "ambiguous")
      /\ Adopt(m, t,
               IF clean /\ SafeRetry(db, t)
                 THEN Retried(closed, t, "safe-read-only-retry")
               ELSE IF clean
                 THEN Moved(closed, t, "rejected", "not_dispatched", "failed",
                            {"unambiguous-failure"})
               ELSE Quarantined(closed, t, "ambiguous-external-effect"),
               "result-terminal")

\* _apply_cancel_ack.
CancelAcknowledged(m) ==
  LET t      == m.lid.task
      closed == Closed(Received(m), t, Outstanding(db, m.lid))
  IN  /\ Adopting(m) /\ m.say.type = "cancel_acknowledgement"
      /\ Adopt(m, t,
               IF m.say.cancelled /\ m.say.effect = "none"
                 THEN Moved(closed, t, "superseded",
                            "cancellation_acknowledged", "cancelled",
                            {"cancellation-acknowledged"})
                 ELSE Moved(closed, t, "blocked", "cancellation_requested",
                            "unknown", {"cancellation-ambiguous"}),
               "cancel-acknowledgement")

\* Mutation: the worktree row keeps the word the host used.
M_WorktreeObserved(m) ==
  LET t == m.lid.task
      d == Received(m)
  IN  /\ Adopting(m) /\ m.say.type = "worktree_observation"
      /\ Adopt(m, t, Resumed([d EXCEPT !.tree[t] = m.say.worktree], t, now),
               "worktree-observed")

\* _apply_worktree_observation.
WorktreeObserved(m) ==
  LET t == m.lid.task
      d == Received(m)
  IN  /\ Adopting(m) /\ m.say.type = "worktree_observation"
      /\ Adopt(m, t,
               CASE m.say.worktree = "ambiguous" ->
                      Quarantined(Closed(d, t, Nothing), t, "ambiguous-worktree")
                 [] m.say.worktree = "integrated" ->
                      Quarantined(Closed(d, t, Nothing), t,
                                  "worktree-already-integrated")
                 [] OTHER -> Resumed([d EXCEPT !.tree[t] = "observed"], t, now),
               "worktree-observed")

IngestDone ==
  /\ InTx("ingest")
  /\ Goto("refresh")
  /\ UNCHANGED <<disk, db, fault, now>>

Ingest(m) ==
  \/ Redelivered(m) \/ Reject(m) \/ CapabilityObserved(m) \/ ApprovalReceived(m)
  \/ DispatchAccepted(m) \/ DispatchRejected(m) \/ Heartbeat(m)
  \/ ResultRaises(m) \/ ResultSucceeded(m) \/ ResultUnsuccessful(m)
  \/ CancelAcknowledged(m) \/ WorktreeObserved(m)

-----------------------------------------------------------------------------
\* _refresh_ready, task by task in the order of the graph.

LiveBlockers(d, t) ==
  LET authority == IF Held(d, t) THEN d.lease[t].id.owner ELSE tx.host
  IN  (IF Terminal(d, t) THEN {"dependency-terminal-blocker"} ELSE {}) \cup
      (IF Missing(d, t, authority) # {} THEN {"missing-capability"} ELSE {})

Readied(d, t, state, blockers) ==
  [d EXCEPT !.task[t] = [@ EXCEPT !.state = state, !.blockers = blockers]]

Refreshed(d, t) ==
  IF ~Terminal(d, t) /\ ~DependenciesMet(d, t)
    THEN Readied(d, t, "planned", {})
  ELSE Readied(d, t, IF LiveBlockers(d, t) = {} THEN "ready" ELSE "blocked",
               LiveBlockers(d, t))

RefreshChanges ==
  {t \in Tasks : Refreshable(db, t) /\ Refreshed(db, t) # db}

\* A readiness-refreshed event is appended only for a change.
RefreshTask(t) ==
  /\ InTx("refresh")
  /\ Visit(IdOrder, t, RefreshChanges)
  /\ db' = Refreshed(db, t)
  /\ fault' = IF ReadinessReplays(db, t, db'.task[t].state, db'.task[t].blockers)
                THEN "none" ELSE "readiness"
  /\ UNCHANGED <<disk, now>>

RefreshDone ==
  /\ InTx("refresh")
  /\ PassOver(IdOrder, RefreshChanges)
  /\ Goto("retry")
  /\ UNCHANGED <<disk, db, fault, now>>

-----------------------------------------------------------------------------
\* _retry_budget_blocked_worktrees, in dispatch order.

BudgetBlockedWorktrees ==
  {t \in Tasks : /\ db.task[t].state = "running"
                 /\ db.task[t].phase = "not_dispatched"
                 /\ db.task[t].blockers = {"budget-exhausted"}
                 /\ Held(db, t)
                 /\ db.tree[t] # "none"}

RetryWorktree(t) ==
  /\ InTx("retry")
  /\ Visit(DispatchOrder, t, BudgetBlockedWorktrees)
  /\ IF db.tree[t] = "observed"
       THEN db' = Resumed(db, t, now) /\ UNCHANGED fault
       ELSE fault' = "raised" /\ UNCHANGED db
  /\ UNCHANGED <<disk, now>>

RetryDone ==
  /\ InTx("retry")
  /\ PassOver(DispatchOrder, BudgetBlockedWorktrees)
  /\ Goto("dispatch")
  /\ UNCHANGED <<disk, db, fault, now>>

-----------------------------------------------------------------------------
\* _dispatch_ready, by wave, topological rank and task_id.

Capacity(d) ==
  Limit["concurrency"] - Cardinality({t \in Running(d) : Held(d, t)})

Dispatchable ==
  {t \in Tasks : Capacity(db) > 0 /\ db.task[t].state = "ready"}

\* Mutation: the proposal takes a new attempt but keeps the old fence.
M_Proposed(d, t) ==
  IF Held(d, t) THEN d.lease[t]
  ELSE [id |-> [task |-> t, owner |-> tx.host,
                attempt |-> d.task[t].attempt + 1,
                fence |-> d.task[t].fence, acquired |-> now],
        expires |-> now + Ttl]

\* The current Lease, or the one to be created for the calling host.
Proposed(d, t) ==
  IF Held(d, t) THEN d.lease[t]
  ELSE [id |-> [task |-> t, owner |-> tx.host,
                attempt |-> d.task[t].attempt + 1,
                fence |-> d.task[t].fence + 1, acquired |-> now],
        expires |-> now + Ttl]

WithLease(d, t) ==
  IF Held(d, t) THEN d
  ELSE Leased(d, t, Proposed(d, t).id, Proposed(d, t).expires)

Dispatching(t) ==
  /\ InTx("dispatch")
  /\ Visit(DispatchOrder, t, Dispatchable)
  /\ UNCHANGED <<disk, now>>

BudgetBlocks(t) ==
  /\ Dispatching(t)
  /\ ~BudgetAllows(db, t, 1)
  /\ Record(t, Readied(db, t, "blocked", {"budget-exhausted"}),
            "dispatch-budget-blocked")

\* The Lease is a proposal, so that approvals have something to name.
ApprovalBlocks(t) ==
  /\ Dispatching(t)
  /\ BudgetAllows(db, t, 1)
  /\ ~Approved(db, t, Proposed(db, t).id, now)
  /\ Record(t, Readied(WithLease(db, t), t, "blocked", {"approval-required"}),
            "dispatch-approval-blocked")

Cleared(t) ==
  BudgetAllows(db, t, 1) /\ Approved(db, t, Proposed(db, t).id, now)

WorktreeBlocks(t) ==
  /\ Dispatching(t)
  /\ Cleared(t)
  /\ Worktree[t] # NoWorktree /\ Occupied(db, t)
  /\ Record(t, Readied(db, t, "blocked", {"worktree-unavailable"}),
            "readiness-refreshed")

\* The task runs from here on, but its dispatch waits for the worktree; the
\* approvals are found here and consumed only when the dispatch goes out.
RequestWorktree(t) ==
  LET id == Proposed(db, t).id
      d  == Moved(WithLease(db, t), t, "running", "not_dispatched", "none", {})
  IN  /\ Dispatching(t)
      /\ Cleared(t)
      /\ Worktree[t] # NoWorktree /\ ~Occupied(db, t)
      /\ Record(t, [d EXCEPT !.tree[t] = "requested",
                             !.reserved = SlotTaken(d),
                             !.mail = @ \cup {Outgoing([type |-> "worktree_request"],
                                                       id, now)}],
                "worktree-request")

Dispatch(t) ==
  LET id == Proposed(db, t).id
      d  == Moved(WithLease(db, t), t, "running", "intent_pending", "none", {})
  IN  /\ Dispatching(t)
      /\ Cleared(t)
      /\ Worktree[t] = NoWorktree
      /\ Record(t, Intent(Consumed([d EXCEPT !.reserved = SlotTaken(d)],
                                   t, id, now), t, id, now),
                "dispatch-intent")

DispatchDone ==
  /\ InTx("dispatch")
  /\ PassOver(DispatchOrder, Dispatchable)
  /\ Goto("commit")
  /\ UNCHANGED <<disk, db, fault, now>>

-----------------------------------------------------------------------------
\* request_cancel, after its expiry pass.

HoldsLease(t) == Held(db, t) /\ db.lease[t].id.owner = tx.host

CancelRefused(t) ==
  /\ InTx("cancel") /\ t \in tx.target
  /\ HoldsLease(t) =>
       /\ Adopted(db, "cancel_request", db.lease[t].id) = {}
       /\ db.task[t].state # "running"
  /\ fault' = "raised"
  /\ UNCHANGED <<disk, db, tx, now>>

\* An earlier request for the same Lease is returned as it is.
CancelRepeated(t) ==
  /\ InTx("cancel") /\ t \in tx.target
  /\ HoldsLease(t)
  /\ Adopted(db, "cancel_request", db.lease[t].id) # {}
  /\ Goto("commit")
  /\ UNCHANGED <<disk, db, fault, now>>

CancelRequested(t) ==
  /\ InTx("cancel") /\ t \in tx.target
  /\ HoldsLease(t)
  /\ Adopted(db, "cancel_request", db.lease[t].id) = {}
  /\ db.task[t].state = "running"
  /\ Record(t, [db EXCEPT !.mail = @ \cup {Outgoing([type |-> "cancel_request"],
                                                    db.lease[t].id, now)},
                          !.task[t].phase = "cancellation_requested"],
            "cancel-request")
  /\ Goto("commit")
  /\ UNCHANGED <<disk, now>>

-----------------------------------------------------------------------------
\* Closing the transaction.

Commit ==
  /\ InTx("commit")
  /\ disk' = db
  /\ tx' = Idle
  /\ UNCHANGED <<db, fault, now>>

\* The call raises: at once, or when _validate_connection replays its events.
Abort ==
  /\ fault # "none"
  /\ db' = disk
  /\ tx' = Idle
  /\ fault' = "none"
  /\ UNCHANGED <<disk, now>>

\* The process dies; SQLite rolls back when the file is next opened.
Crash ==
  /\ tx # Idle
  /\ db' = disk
  /\ tx' = Idle
  /\ fault' = "none"
  /\ UNCHANGED <<disk, now>>

Expire(t)   == ProposalExpires(t) \/ LeaseExpires(t)
DispatchReady(t) ==
  \/ BudgetBlocks(t) \/ ApprovalBlocks(t)
  \/ WorktreeBlocks(t) \/ RequestWorktree(t) \/ Dispatch(t)
Cancel(t)   == CancelRefused(t) \/ CancelRepeated(t) \/ CancelRequested(t)

\* What the open transaction does by itself.
Work ==
  \/ \E t \in Tasks : Expire(t) \/ RefreshTask(t) \/ RetryWorktree(t) \/ DispatchReady(t)
                      \/ Cancel(t)
  \/ ExpiryDone \/ IngestDone \/ RefreshDone \/ RetryDone \/ DispatchDone
  \/ Commit \/ Abort

\* What its callers and their machine do.
Call ==
  \/ AdvanceClock
  \/ \E h \in Hosts : BeginTick(h)
  \/ \E h \in Hosts, t \in Tasks : BeginCancelCheck(h, t) \/ BeginCancel(h, t)
  \/ \E m \in Deliverable : Ingest(m)
  \/ Crash

Next == Work \/ Call

Spec == Init /\ [][Next]_vars

\* The clock runs, some host keeps calling tick, a call that was begun is
\* carried through once crashes have stopped (a crash of a call that changed
\* nothing cannot be told from its commit), and again and again a call brings
\* no message.  Nothing is assumed of the messages that do come, nor of
\* the other hosts.
FairSpec ==
  /\ Spec
  /\ <>[][Crash => Work]_vars
  /\ WF_vars(Work)
  /\ SF_vars(AdvanceClock)
  /\ \E h \in Hosts : SF_vars(BeginTick(h))
  /\ SF_vars(IngestDone /\ tx.i = 1)
=============================================================================
