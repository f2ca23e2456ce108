---------------------------- MODULE SchedulerAudit ----------------------------
(***************************************************************************)
(* _validate_connection over the evidence tables e and the mutable rows d. *)
(* The validator knows nothing of the handlers that wrote the rows: from   *)
(* the events before each event it derives what the scheduler must have    *)
(* done, and compares.  SchedulerReplay has the parts of the policy whose  *)
(* verdict depends on the schedule; here is the whole of it, row by row.   *)
(***************************************************************************)
EXTENDS SchedulerReplay, SequencesExt

Absent == NoLease

\* _EVENT_SCOPES, _SCHEDULER_ACTOR_CAUSES, _EVENT_BUDGET_CAUSES,
\* _EVENT_REASON_CAUSES.
GraphCauses == {"initialize", "capability-observed", "wall-time-observed"}
SchedulerCauses ==
  {"approval-consumed", "approval-proposal-expired", "cancel-request",
   "dispatch-budget-blocked", "dispatch-intent", "duplicate-message",
   "initialize", "lease-expired", "message-rejected", "readiness-refreshed",
   "verification-blocked", "verification-completed", "wall-time-observed",
   "worktree-request"}
ReasonCauses ==
  {"approval-proposal-expired", "cancel-acknowledgement",
   "dispatch-approval-blocked", "dispatch-budget-blocked", "dispatch-rejected",
   "duplicate-message", "initialize", "lease-expired", "message-rejected",
   "readiness-refreshed", "result-terminal", "verification-blocked",
   "worktree-observed"}

\* _EVENT_MESSAGE_TYPES: the message each cause must name.
MessageTypes(cause) ==
  CASE cause \in {"approval-consumed", "approval-received"} -> {"approval_decision"}
    [] cause = "cancel-acknowledgement" -> {"cancel_acknowledgement"}
    [] cause = "cancel-request"         -> {"cancel_request"}
    [] cause = "capability-observed"    -> {"capability_observation"}
    [] cause \in {"dispatch-accepted", "dispatch-rejected"} ->
         {"dispatch_acknowledgement"}
    [] cause = "dispatch-intent"        -> {"dispatch_intent"}
    [] cause = "heartbeat"              -> {"heartbeat"}
    [] cause \in {"result-received", "result-terminal"} -> {"task_result"}
    [] cause = "worktree-observed"      -> {"worktree_observation"}
    [] cause = "worktree-request"       -> {"worktree_request"}
    [] OTHER                            -> {}

\* _EVENT_TRANSITIONS, where verification is a state of its own.
EventTransitions(cause) ==
  CASE cause = "approval-consumed" -> {<<"ready", "ready">>, <<"running", "running">>}
    [] cause = "result-received" -> {<<"running", "verification">>}
    [] cause = "verification-blocked"   -> {<<"verification", "blocked">>}
    [] cause = "verification-completed" -> {<<"verification", "completed">>}
    [] OTHER -> Transitions(cause)

AuditOnly == {"approval-received", "duplicate-message", "message-rejected"}
ParentOf(type) ==
  CASE type \in {"dispatch_acknowledgement", "heartbeat", "task_result"} ->
         "dispatch-intent"
    [] type = "cancel_acknowledgement" -> "cancel-request"
    [] type = "worktree_observation"   -> "worktree-request"

-----------------------------------------------------------------------------
\* Reading the evidence e as it was before event n.

Latest(rows) ==
  IF rows = {} THEN Absent
  ELSE CHOOSE row \in rows : \A other \in rows : other.n <= row.n

\* _prior_lease_row_for_event and _lease_at_or_before_event.
PriorLease(e, n, t) ==
  Latest({row \in ToSet(e.leases) : row.task = t /\ row.n < n})
LeaseUpTo(e, n, id) ==
  Latest({row \in ToSet(e.leases) : row.id = id /\ row.n <= n})
PriorTree(e, n, t) ==
  Latest({row \in ToSet(e.trees) : row.task = t /\ row.n < n})
RowsAt(rows, n) == {row \in ToSet(rows) : row.n = n}
IsCurrent(row) == row # Absent /\ row.status = "current"
ActiveTree(row) == row # Absent /\ row.status \in {"requested", "observed"}

InitialProjection(t) ==
  [state |-> IF Dependencies[t] = {} THEN "ready" ELSE "planned",
   phase |-> "not_dispatched", outcome |-> "none", attempt |-> 0, fence |-> 0,
   blockers |-> {}]

\* _projection_before_event.
Prior(e, n, t) ==
  LET before == {k \in 1..(n - 1) : e.events[k].task = t}
  IN  IF before = {} THEN InitialProjection(t)
      ELSE e.events[CHOOSE k \in before : \A j \in before : j <= k].after

\* _retry_usage_before.
RetriesBefore(e, n) ==
  Cardinality({k \in 1..(n - 1) : e.events[k].deltas["retries"] = 1})

\* _primary_event_for_message: the one event that adopted m, if before n.
AdoptedBefore(e, n, m, cause) ==
  /\ m \in ToSet(e.mail)
  /\ \E k \in 1..(n - 1) : e.events[k].msg = m /\ e.events[k].cause = cause

\* _worktree_owners_before_event.
OccupiedBefore(e, n, t) ==
  \E u \in Tasks \ {t} : Worktree[u] = Worktree[t] /\ ActiveTree(PriorTree(e, n, u))

\* _capabilities_before_event and _readiness_authority_host.
CapsBefore(e, n, h) ==
  LET seen == {k \in 1..(n - 1) : /\ e.events[k].cause = "capability-observed"
                                  /\ e.events[k].actor = h}
  IN  IF seen = {} THEN {}
      ELSE e.events[CHOOSE k \in seen : \A j \in seen : j <= k].msg.say.caps
RegisteredBefore(e, n) ==
  {e.events[k].actor : k \in {k \in 1..(n - 1) : e.events[k].cause = "capability-observed"}}
AuthorityBefore(e, n) ==
  LET event  == e.events[n]
      spoken == {k \in 1..(n - 1) :
                   /\ e.events[k].at = event.at
                   /\ e.events[k].cause \notin AuditOnly
                   /\ e.events[k].actor \in Hosts
                   /\ e.events[k].msg # Absent}
  IN  IF IsCurrent(PriorLease(e, n, event.task)) THEN {PriorLease(e, n, event.task).id.owner}
      ELSE IF spoken # {}
        THEN {e.events[CHOOSE k \in spoken : \A j \in spoken : j <= k].actor}
      ELSE IF Cardinality(RegisteredBefore(e, n)) = 1 THEN RegisteredBefore(e, n)
      ELSE {}

\* _approval_types_before_event: the decisions in force for this Lease.
StopsBefore(e, n, cause) ==
  LET event == e.events[n]
  IN  {e.events[k].msg.say.stop :
         k \in {k \in 1..(n - 1) :
                  /\ e.events[k].cause = cause
                  /\ e.events[k].lease = event.lease
                  /\ e.events[k].msg.say.stop \in ApprovalStops[event.task]
                  /\ e.events[k].msg.say.approved
                  /\ e.events[k].msg.at <= event.at
                  /\ event.at < e.events[k].msg.at + e.events[k].msg.say.life}}

-----------------------------------------------------------------------------
\* The rows an event must come with.

\* Mutation: lease_history may be short of the row.
M_LeaseRowIs(e, n, row) == RowsAt(e.leases, n) \subseteq {row}

\* _validate_exact_lease_history and _require_no_lease_history.
LeaseRowIs(e, n, row) == RowsAt(e.leases, n) = {row}
NoLeaseRow(e, n) == RowsAt(e.leases, n) = {}

\* _validate_exact_lease_release.
Releases(e, n, outcome) ==
  LET event == e.events[n]
      lease == PriorLease(e, n, event.task)
      tree  == PriorTree(e, n, event.task)
  IN  /\ IsCurrent(lease) /\ lease.id = event.lease
      /\ LeaseRowIs(e, n, [lease EXCEPT !.n = n, !.status = "released",
                                        !.outcome = outcome])
      /\ event.cause # "worktree-observed" =>
           RowsAt(e.trees, n) =
             IF ActiveTree(tree) THEN {[tree EXCEPT !.n = n, !.status = "released"]}
                                 ELSE {}

\* _validate_exact_lease_acquisition, and the provisional one.
Acquires(e, n, owner) ==
  LET event == e.events[n]
  IN  /\ event.lease = [task |-> event.task, owner |-> owner,
                        attempt |-> event.after.attempt,
                        fence |-> event.after.fence, acquired |-> event.at]
      /\ LeaseRowIs(e, n, [n |-> n, task |-> event.task, id |-> event.lease,
                           expires |-> event.at + Ttl, status |-> "current",
                           outcome |-> "none"])

\* _event_reuses_prior_current_lease, and the identity that follows.
Reuses(e, n) ==
  LET row == PriorLease(e, n, e.events[n].task)
  IN  IsCurrent(row) /\ row.id = e.events[n].lease
Increment(e, n) == IF Reuses(e, n) THEN 0 ELSE 1
LeaseTaken(e, n, owner) == IF Reuses(e, n) THEN NoLeaseRow(e, n) ELSE Acquires(e, n, owner)

\* The state a task is moved to, with all else as it was.
To(prior, state, phase, outcome, blockers) ==
  [prior EXCEPT !.state = state, !.phase = phase, !.outcome = outcome,
                !.blockers = blockers]

-----------------------------------------------------------------------------
\* _validate_event_semantics: what every event must satisfy.

\* _validate_events: time, and the wall-time observation that goes first.
TimeReplays(e, n) ==
  LET event    == e.events[n]
      observed == {e.events[k].at : k \in {k \in 1..(n - 1) :
                                             e.events[k].cause = "wall-time-observed"}}
  IN  IF n = 1 THEN event.at = 0
      ELSE /\ event.at >= e.events[n - 1].at
           /\ (event.cause = "wall-time-observed") <=>
                (\A at \in observed \cup {0} : event.at > at)

ScopeReplays(e, n) ==
  LET event == e.events[n]
  IN  /\ event.cause \in SchedulerCauses => event.actor = Scheduler
      /\ event.cause \notin ReasonCauses => event.reason = Absent
      /\ event.cause \in GraphCauses =>
           <<event.task, event.lease, event.before, event.after>>
             = <<Absent, Absent, Absent, Absent>>
      /\ event.task = Absent => event.cause \in GraphCauses \cup AuditOnly
      /\ (event.cause = "initialize") <=> (n = 1)

\* _projection_changes and _EVENT_PROJECTION_MUTATIONS: attempt and fence
\* move only with a Lease, and an audit event moves nothing.
TransitionReplaysAt(e, n) ==
  LET event == e.events[n]
      prior == Prior(e, n, event.task)
      moved == event.after.attempt - prior.attempt
  IN  event.task # Absent =>
        /\ IF event.before = Absent THEN event.cause \in AuditOnly /\ event.after = prior
           ELSE /\ event.before = prior.state
                /\ <<event.before, event.after.state>> \in EventTransitions(event.cause)
        /\ event.after.fence - prior.fence = moved
        /\ CASE event.cause \in {"dispatch-approval-blocked", "dispatch-intent",
                                 "worktree-request"} -> moved \in {0, 1}
             [] event.cause = "approval-proposal-expired" -> moved = -1
             [] OTHER -> moved = 0

\* The causal message, the event that adopted its parent, and the Lease its
\* sender must have held when the event was recorded.
MessageReplays(e, n) ==
  LET event == e.events[n]
      m     == event.msg
      lease == Latest({row \in ToSet(e.leases) : row.id = m.lid /\ row.n < n})
  IN  IF event.cause = "message-rejected" THEN m \notin ToSet(e.mail)
      ELSE IF MessageTypes(event.cause) = {} /\ event.cause # "duplicate-message"
        THEN m = Absent
      ELSE /\ m \in ToSet(e.mail)
           /\ event.cause # "duplicate-message" => m.say.type \in MessageTypes(event.cause)
           /\ event.lease = m.lid
           /\ m.lid # NoLease => event.task = m.lid.task
           /\ event.cause \notin SchedulerCauses \cup {"approval-received"} =>
                event.actor = m.sender
           /\ m.at <= event.at
           /\ (m.sender # Scheduler /\ m.lid # NoLease) =>
                /\ lease # Absent
                /\ m.say.type # "approval_decision" => m.sender = m.lid.owner
                /\ event.at < lease.expires
           /\ m.say.type \in HostTypes \ {"approval_decision", "capability_observation"} =>
                \E parent \in ToSet(e.mail) :
                  /\ parent.lid = m.lid
                  /\ AdoptedBefore(e, n, parent, ParentOf(m.say.type))

\* _validate_exact_approval_message.
ApprovalReplays(e, n) ==
  LET event == e.events[n]
  IN  event.cause \in {"approval-received", "approval-consumed"} =>
        /\ IsCurrent(LeaseUpTo(e, n, event.lease))
        /\ event.msg.sender = Owner
        /\ event.msg.say.stop \in ApprovalStops[event.task]

-----------------------------------------------------------------------------
\* _validate_scheduler_egress_event: cancellations, requests and dispatches.

EgressReplays(e, n) ==
  LET event == e.events[n]
      t     == event.task
      lease == LeaseUpTo(e, n, event.lease)
  IN  event.cause \in {"cancel-request", "dispatch-intent", "worktree-request"} =>
        /\ IsCurrent(lease) /\ event.at < lease.expires
        /\ event.msg.sender = Scheduler /\ event.msg.at = event.at
        /\ CASE event.cause = "cancel-request" ->
                  \E k \in 1..(n - 1) :
                    /\ e.events[k].cause \in {"dispatch-intent", "worktree-request"}
                    /\ e.events[k].lease = event.lease
                    /\ \A j \in (k + 1)..(n - 1) :
                         e.events[j].task = t =>
                           e.events[j].cause \notin {"dispatch-intent", "worktree-request"}
             [] event.cause = "worktree-request" ->
                  /\ StopsBefore(e, n, "approval-received") = ApprovalStops[t]
                  /\ RowsAt(e.trees, n) = {[n |-> n, task |-> t, fence |-> event.lease.fence,
                                            status |-> "requested"]}
             [] event.cause = "dispatch-intent" ->
                  /\ StopsBefore(e, n, "approval-consumed") = ApprovalStops[t]
                  /\ Worktree[t] # NoWorktree =>
                       /\ PriorTree(e, n, t) # Absent
                       /\ PriorTree(e, n, t).status = "observed"
                       /\ PriorTree(e, n, t).fence = event.lease.fence
                       /\ \E k \in 1..(n - 1) : /\ e.events[k].cause = "worktree-observed"
                                                /\ e.events[k].lease = event.lease

\* _derive_exact_worktree_observation.
ObservationReplays(e, n, prior) ==
  LET event  == e.events[n]
      seen   == event.msg.say.worktree
      status == CASE seen = "ambiguous" -> "blocked" [] seen = "integrated" -> "integrated"
                  [] OTHER -> "observed"
      reason == CASE seen = "ambiguous" -> "ambiguous-worktree"
                  [] seen = "integrated" -> "worktree-already-integrated"
                  [] OTHER -> Absent
  IN  /\ <<prior.state, prior.phase, prior.outcome>> = <<"running", "not_dispatched", "none">>
      /\ Reuses(e, n)
      /\ ActiveTree(PriorTree(e, n, event.task))
      /\ PriorTree(e, n, event.task).fence = event.lease.fence
      /\ RowsAt(e.trees, n) = {[n |-> n, task |-> event.task, fence |-> event.lease.fence,
                                status |-> status]}
      /\ event.reason = reason
      /\ IF reason = Absent THEN event.after = prior /\ NoLeaseRow(e, n)
         ELSE /\ event.after = To(prior, "blocked", "not_dispatched", "unknown", {reason})
              /\ Releases(e, n, "unknown")

\* _validate_exact_readiness.
ReadinessReplaysAt(e, n, prior) ==
  LET event   == e.events[n]
      t       == event.task
      states  == {Prior(e, n, u).state : u \in Dependencies[t]}
      asked   == IF AuthorityBefore(e, n) # {} THEN AuthorityBefore(e, n)
                                              ELSE RegisteredBefore(e, n)
      missing == IF asked = {} THEN {Required[t]}
                 ELSE {Required[t] \ CapsBefore(e, n, h) : h \in asked}
      to(state, blockers) ==
        event.after = [prior EXCEPT !.state = state, !.blockers = blockers]
  IN  /\ prior.state \in Readiness
      /\ <<prior.state, prior.outcome>> # <<"blocked", "unknown">>
      /\ IF states \cap {"blocked", "rejected", "superseded"} # {}
           THEN to("blocked", {"dependency-terminal-blocker"})
         ELSE IF states \ {"completed"} # {} THEN to("planned", {})
         ELSE IF event.reason = "worktree-unavailable"
           THEN OccupiedBefore(e, n, t) /\ to("blocked", {"worktree-unavailable"})
         ELSE /\ event.reason = Absent
              /\ Cardinality(missing) = 1
              /\ IF missing = {{}} THEN to("ready", {})
                                   ELSE to("blocked", {"missing-capability"})

-----------------------------------------------------------------------------
\* _validate_non_result_event_semantics, cause by cause.

\* The condition under which replay accepts another attempt.
RetryReplays(e, n, prior) ==
  /\ e.events[n].task \in ReadOnly
  /\ prior.attempt < MaxAttempts[e.events[n].task]
  /\ RetriesBefore(e, n) < Limit["retries"]

RejectionReplays(e, n, prior) ==
  LET event == e.events[n]
      retry == event.msg.say.effect = "none" /\ RetryReplays(e, n, prior)
      reason == IF retry THEN "unambiguous-dispatch-rejection"
                         ELSE "dispatch-rejection-ambiguous"
      outcome == IF retry THEN "failed" ELSE "unknown"
  IN  /\ ~event.msg.say.accepted
      /\ prior.phase = "intent_pending"
      /\ event.reason = reason
      /\ event.after = To(prior, IF retry THEN "ready" ELSE "blocked", "not_dispatched",
                          outcome, {reason})
      /\ Releases(e, n, outcome)

HeartbeatReplays(e, n, prior) ==
  LET lease == PriorLease(e, n, e.events[n].task)
  IN  /\ prior.phase \in {"intent_pending", "accepted"}
      /\ e.events[n].after = prior
      /\ IsCurrent(lease) /\ lease.id = e.events[n].lease
      /\ LeaseRowIs(e, n, [lease EXCEPT !.n = n, !.expires = e.events[n].at + Ttl])

CancellationReplays(e, n, prior) ==
  LET event  == e.events[n]
      exact  == event.msg.say.cancelled /\ event.msg.say.effect = "none"
      reason == IF exact THEN "cancellation-acknowledged" ELSE "cancellation-ambiguous"
  IN  /\ prior.phase = "cancellation_requested"
      /\ event.reason = reason
      /\ event.after =
           IF exact THEN To(prior, "superseded", "cancellation_acknowledged", "cancelled",
                            {reason})
                    ELSE To(prior, "blocked", "cancellation_requested", "unknown", {reason})
      /\ Releases(e, n, event.after.outcome)

\* A Lease that an adopted dispatch or worktree request has activated.
ActivatedBefore(e, n, id) ==
  \E k \in 1..(n - 1) : /\ e.events[k].lease = id
                        /\ e.events[k].cause \in {"dispatch-intent", "worktree-request"}

ExpiryReplays(e, n, prior) ==
  LET event == e.events[n]
      lease == PriorLease(e, n, event.task)
      retry == RetryReplays(e, n, prior)
      reason == IF retry THEN "lease-expired-safe-retry" ELSE "lease-expired-ambiguous"
      outcome == IF retry THEN "failed" ELSE "unknown"
  IN  /\ IsCurrent(lease) /\ lease.id = event.lease /\ event.at >= lease.expires
      /\ IF event.cause = "approval-proposal-expired"
           THEN /\ ~ActivatedBefore(e, n, event.lease)
                /\ event.reason = "approval-proposal-expired"
                /\ event.after = [To(prior, "ready", "not_dispatched", prior.outcome, {})
                                    EXCEPT !.attempt = @ - 1, !.fence = @ - 1]
                /\ Releases(e, n, "none")
           ELSE /\ ActivatedBefore(e, n, event.lease)
                /\ event.reason = reason
                /\ event.after = To(prior, IF retry THEN "ready" ELSE "blocked",
                                    "not_dispatched", outcome, {reason})
                /\ Releases(e, n, outcome)

\* dispatch-intent and worktree-request.
ActivationReplays(e, n, prior) ==
  LET event == e.events[n]
      phase == IF event.cause = "dispatch-intent" THEN "intent_pending"
                                                  ELSE "not_dispatched"
      moved == To(prior, "running", phase, "none", {})
  IN  IF prior.state = "ready"
        THEN /\ event.after = [moved EXCEPT !.attempt = @ + Increment(e, n),
                                            !.fence = @ + Increment(e, n)]
             /\ LeaseTaken(e, n, event.lease.owner)
        ELSE /\ event.cause = "dispatch-intent" /\ prior.state = "running"
             /\ event.after = moved
             /\ NoLeaseRow(e, n)

ApprovalBlockReplays(e, n, prior) ==
  LET event   == e.events[n]
      blocked == [prior EXCEPT !.blockers = {"approval-required"}]
  IN  /\ event.reason = "approval-required"
      /\ StopsBefore(e, n, "approval-received") # ApprovalStops[event.task]
      /\ IF prior.state = "ready"
           THEN /\ event.actor \in Hosts /\ event.actor = event.lease.owner
                /\ event.after = [blocked EXCEPT !.state = "blocked",
                                                 !.attempt = @ + Increment(e, n),
                                                 !.fence = @ + Increment(e, n)]
                /\ LeaseTaken(e, n, event.actor)
           ELSE /\ event.actor = Scheduler
                /\ event.after = blocked
                /\ NoLeaseRow(e, n)

BudgetBlockReplays(e, n, prior) ==
  /\ e.events[n].reason = "budget-exhausted"
  /\ e.events[n].after =
       IF prior.state = "ready"
         THEN [prior EXCEPT !.state = "blocked", !.blockers = {"budget-exhausted"}]
         ELSE To(prior, "running", "not_dispatched", "none", {"budget-exhausted"})
  /\ NoLeaseRow(e, n)

\* The causes that leave lease_history alone and move one field or none.
PlainReplays(e, n, prior) ==
  LET event == e.events[n]
  IN  /\ NoLeaseRow(e, n)
      /\ CASE event.cause = "cancel-request" ->
                /\ prior.state = "running"
                /\ event.after = [prior EXCEPT !.phase = "cancellation_requested"]
           [] event.cause = "dispatch-accepted" ->
                /\ event.msg.say.accepted /\ prior.phase = "intent_pending"
                /\ event.after = [prior EXCEPT !.phase = "accepted"]
           [] event.cause = "approval-consumed" ->
                /\ event.msg.say.approved
                /\ event.msg.at <= event.at /\ event.at < event.msg.at + event.msg.say.life
                /\ event.after = prior
           [] OTHER -> event.after = prior

\* _validate_result events and the verification that follows in the log.
ResultReplays(e, n, prior) ==
  LET event == e.events[n]
      clean == event.msg.say.outcome = "failed" /\ event.msg.say.effect = "none"
      won   == event.msg.say.outcome = "succeeded" /\ event.msg.say.effect # "ambiguous"
      retry == clean /\ RetryReplays(e, n, prior)
      reason == IF retry THEN "safe-read-only-retry"
                ELSE IF clean THEN "unambiguous-failure" ELSE "ambiguous-external-effect"
      outcome == IF clean THEN "failed" ELSE "unknown"
      state == IF retry THEN "ready" ELSE IF clean THEN "rejected" ELSE "blocked"
  IN  /\ prior.phase \in {"intent_pending", "accepted"}
      /\ won <=> (event.cause = "result-received")
      /\ IF won
           THEN /\ event.after = To(prior, "verification", "accepted", "succeeded", {})
                /\ Releases(e, n, "succeeded")
           ELSE /\ event.reason = reason
                /\ event.after = To(prior, state, "not_dispatched", outcome, {reason})
                /\ Releases(e, n, outcome)

VerificationReplays(e, n, prior) ==
  LET event  == e.events[n]
      result == e.events[CHOOSE k \in 1..(n - 1) :
                  /\ e.events[k].task = event.task /\ e.events[k].cause = "result-received"
                  /\ \A j \in (k + 1)..(n - 1) :
                       ~(e.events[j].task = event.task /\ e.events[j].cause = "result-received")]
      reason == IF ~result.msg.say.evidence THEN "evidence-predicate-unsatisfied"
                ELSE IF \E u \in ReviewTargets[event.task] : Prior(e, n, u).state # "completed"
                  THEN "review-targets-unsatisfied"
                ELSE Absent
  IN  /\ prior.state = "verification"
      /\ NoLeaseRow(e, n)
      /\ event.reason = reason
      /\ IF event.cause = "verification-completed"
           THEN reason = Absent /\ event.after = To(prior, "completed", "accepted",
                                                    "succeeded", {})
           ELSE reason # Absent /\ event.after = To(prior, "blocked", "accepted",
                                                    "unknown", {reason})

CauseReplays(e, n) ==
  LET cause == e.events[n].cause
      prior == Prior(e, n, e.events[n].task)
  IN  CASE e.events[n].task = Absent        -> TRUE
        [] cause = "dispatch-rejected"      -> RejectionReplays(e, n, prior)
        [] cause = "heartbeat"              -> HeartbeatReplays(e, n, prior)
        [] cause = "cancel-acknowledgement" -> CancellationReplays(e, n, prior)
        [] cause = "worktree-observed"      -> ObservationReplays(e, n, prior)
        [] cause \in {"lease-expired", "approval-proposal-expired"} ->
             ExpiryReplays(e, n, prior)
        [] cause \in {"dispatch-intent", "worktree-request"} ->
             ActivationReplays(e, n, prior)
        [] cause = "dispatch-approval-blocked" -> ApprovalBlockReplays(e, n, prior)
        [] cause = "dispatch-budget-blocked"   -> BudgetBlockReplays(e, n, prior)
        [] cause = "readiness-refreshed" ->
             ReadinessReplaysAt(e, n, prior) /\ NoLeaseRow(e, n)
        [] cause \in {"result-received", "result-terminal"} -> ResultReplays(e, n, prior)
        [] cause \in {"verification-blocked", "verification-completed"} ->
             VerificationReplays(e, n, prior)
        [] OTHER -> PlainReplays(e, n, prior)

EventReplays(e, n) ==
  /\ TimeReplays(e, n)
  /\ ScopeReplays(e, n)
  /\ TransitionReplaysAt(e, n)
  /\ MessageReplays(e, n)
  /\ ApprovalReplays(e, n)
  /\ EgressReplays(e, n)
  /\ CauseReplays(e, n)

-----------------------------------------------------------------------------
\* _validate_immutable_rows: no row without its event.

WorktreeCauses ==
  {"approval-proposal-expired", "cancel-acknowledgement", "dispatch-rejected",
   "lease-expired", "result-received", "result-terminal", "worktree-observed",
   "worktree-request"}

RowsReplay(e) ==
  /\ \A row \in ToSet(e.leases) :
       /\ row.n \in DOMAIN e.events
       /\ e.events[row.n].task = row.task
       /\ e.events[row.n].lease = row.id
       /\ row.id.acquired < row.expires
  /\ \A row \in ToSet(e.trees) :
       /\ row.n \in DOMAIN e.events
       /\ e.events[row.n].task = row.task
       /\ e.events[row.n].cause \in WorktreeCauses
  /\ \A row \in ToSet(e.ledgers) : row.n \in DOMAIN e.events
  /\ \A m \in ToSet(e.mail) :
       \E n \in DOMAIN e.events : /\ e.events[n].msg = m
                                  /\ m.say.type \in MessageTypes(e.events[n].cause)

-----------------------------------------------------------------------------
\* _validate_budget_evidence: the totals are summed up once more, event by
\* event, from the graph and the messages alone.

NoAmount == [r \in Resources |-> 0]
Books == [reserved |-> NoAmount, used |-> NoAmount, open |-> {}, ledgers |-> <<>>,
          sound |-> TRUE]

\* dispatch_admission.
Admissible(books, event) ==
  BudgetAllows([reserved |-> books.reserved, used |-> books.used], event.task,
               IF event.before = "ready" THEN 1 ELSE 0)

\* What is still reserved for a Lease, and its original reservation.
OpenFor(books, id) == {item \in books.open : item.id = id}
Left(books, id) ==
  IF OpenFor(books, id) = {} THEN [r \in AttemptResources |-> 0]
  ELSE (CHOOSE item \in OpenFor(books, id) : TRUE).left

Charged(books, event) ==
  LET left == Left(books, event.lease)
  IN  CASE event.cause \in {"result-received", "result-terminal"} ->
             [event.msg.say.usage EXCEPT !["context_bytes"] = left["context_bytes"]]
        [] event.cause = "dispatch-rejected" -> [r \in AttemptResources |-> 0]
        [] OTHER -> left

RetryReasons ==
  {"lease-expired-safe-retry", "safe-read-only-retry", "unambiguous-dispatch-rejection"}

\* The entries of one event: what it adds to the reserved and used totals,
\* what it announces, and the reservations that stay open.
Booked(books, event) ==
  LET id       == event.lease
      left     == Left(books, id)
      charged  == Charged(books, event)
      reserves == Reservation([reserved |-> books.reserved, used |-> books.used], event.task)
      slot     == IF event.before = "ready" THEN 1 ELSE 0
      retry    == IF event.reason \in RetryReasons THEN 1 ELSE 0
      amounts(f, more) ==
        [r \in Resources |-> IF r \in AttemptResources THEN f[r]
                             ELSE IF r \in DOMAIN more THEN more[r] ELSE 0]
      none     == [r \in AttemptResources |-> 0]
      bytes    == [none EXCEPT !["context_bytes"] = left["context_bytes"]]
  IN  CASE event.cause = "worktree-request" ->
             [reserve |-> amounts(none, [concurrency |-> 1]), use |-> NoAmount,
              says |-> amounts(none, [concurrency |-> 1]), open |-> books.open]
        [] event.cause = "dispatch-intent" ->
             [reserve |-> amounts(reserves, [concurrency |-> slot]),
              use |-> amounts(none, [dispatches |-> 1]),
              says |-> amounts(reserves, [concurrency |-> slot, dispatches |-> 1]),
              open |-> books.open \cup {[id |-> id, left |-> reserves, all |-> reserves]}]
        [] event.cause = "dispatch-accepted" ->
             [reserve |-> amounts([none EXCEPT !["context_bytes"] = -left["context_bytes"]],
                                  [concurrency |-> 0]),
              use |-> amounts(bytes, [concurrency |-> 0]),
              says |-> amounts(bytes, [concurrency |-> 0]),
              open |-> {IF item.id = id THEN [item EXCEPT !.left["context_bytes"] = 0]
                                        ELSE item : item \in books.open}]
        [] event.cause \in {"cancel-acknowledgement", "dispatch-rejected", "lease-expired",
                            "result-received", "result-terminal"} ->
             [reserve |-> amounts([r \in AttemptResources |-> -left[r]],
                                  [concurrency |-> -1]),
              use |-> amounts(charged, [retries |-> retry]),
              says |-> amounts(charged, [concurrency |-> -1, retries |-> retry]),
              open |-> books.open \ OpenFor(books, id)]
        [] event.cause = "worktree-observed" /\ event.after.state = "blocked" ->
             [reserve |-> amounts(none, [concurrency |-> -1]), use |-> NoAmount,
              says |-> amounts(none, [concurrency |-> -1]), open |-> books.open]
        [] event.cause = "wall-time-observed" ->
             LET passed == event.at - books.used["wall_time_seconds"]
             IN  [reserve |-> NoAmount, use |-> amounts(none, [wall_time_seconds |-> passed]),
                  says |-> amounts(none, [wall_time_seconds |-> passed]), open |-> books.open]
        [] OTHER -> [reserve |-> NoAmount, use |-> NoAmount, says |-> NoAmount,
                     open |-> books.open]

\* The checks of one event against the books before it.
SoundEntry(books, event) ==
  /\ event.cause = "dispatch-intent" =>
       /\ Admissible(books, event)
       /\ event.msg.say.reservation =
            Reservation([reserved |-> books.reserved, used |-> books.used], event.task)
       /\ OpenFor(books, event.lease) = {}
  /\ event.cause = "dispatch-budget-blocked" => ~Admissible(books, event)
  /\ event.cause = "dispatch-accepted" => OpenFor(books, event.lease) # {}
  /\ event.cause = "wall-time-observed" => event.at > books.used["wall_time_seconds"]
  /\ event.cause \in {"result-received", "result-terminal"} =>
       \E item \in OpenFor(books, event.lease) :
         \A r \in AttemptResources \ {"context_bytes"} :
           event.msg.say.usage[r] <= item.all[r]

Posted(books, event, n) ==
  LET entry == Booked(books, event)
      after == [reserved |-> [r \in Resources |-> books.reserved[r] + entry.reserve[r]],
                used     |-> [r \in Resources |-> books.used[r] + entry.use[r]]]
  IN  [reserved |-> after.reserved, used |-> after.used, open |-> entry.open,
       ledgers  |-> IF event.cause = "initialize"
                         \/ <<after.reserved, after.used>> # <<books.reserved, books.used>>
                      THEN Append(books.ledgers, [n |-> n, reserved |-> after.reserved,
                                                  used |-> after.used])
                      ELSE books.ledgers,
       sound    |-> /\ books.sound
                    /\ SoundEntry(books, event)
                    /\ event.deltas = entry.says
                    /\ \A r \in Resources :
                         /\ after.reserved[r] >= 0 /\ after.used[r] >= 0
                         /\ r # "wall_time_seconds" =>
                              after.reserved[r] + after.used[r] <= Limit[r]]

BooksOf(e) ==
  FoldLeft(LAMBDA books, n : Posted(books, e.events[n], n), Books,
           [n \in 1..Len(e.events) |-> n])

BudgetReplays(e) ==
  LET books == BooksOf(e) IN books.sound /\ books.ledgers = e.ledgers

\* _validate_evidence_connection.
EvidenceReplays(e) ==
  /\ \A n \in DOMAIN e.events : EventReplays(e, n)
  /\ RowsReplay(e)
  /\ BudgetReplays(e)

-----------------------------------------------------------------------------
\* _validate_projections: every mutable row is what the evidence implies.

HeadOf(e) == Len(e.events) + 1

ProjectionsReplay(e, d) ==
  /\ \A t \in Tasks :
       /\ d.task[t] = Prior(e, HeadOf(e), t)
       /\ d.task[t].attempt = d.task[t].fence /\ d.task[t].attempt <= MaxAttempts[t]
       /\ LET lease == PriorLease(e, HeadOf(e), t)
              tree  == PriorTree(e, HeadOf(e), t)
          IN  /\ d.lease[t] = IF IsCurrent(lease)
                                THEN [id |-> lease.id, expires |-> lease.expires] ELSE NoLease
              /\ d.tree[t] = IF ActiveTree(tree) THEN tree.status ELSE "none"
  /\ <<d.reserved, d.used>> = <<Last(e.ledgers).reserved, Last(e.ledgers).used>>
  /\ d.consumed = {e.events[n].msg : n \in {n \in DOMAIN e.events :
                                              e.events[n].cause = "approval-consumed"}}
  /\ \A h \in Hosts : d.caps[h] = CapsBefore(e, HeadOf(e), h)

\* _validate_connection.
StoreReplays(e, d) == EvidenceReplays(e) /\ ProjectionsReplay(e, d)
=============================================================================
