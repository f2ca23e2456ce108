--------------------------- MODULE SchedulerReplay ---------------------------
(***************************************************************************)
(* The replay policy.  Before a transaction commits, _validate_connection  *)
(* replays the whole event log and refuses it unless every event is one    *)
(* the policy would have produced.  The policy is written a second time    *)
(* there, so live and replayed decisions can differ; a difference aborts   *)
(* the transaction.  Modelled are the parts whose verdict depends on how a *)
(* legal schedule interleaves: transitions, readiness, the Lease authority *)
(* of duplicates, and the exclusivity of rejection and adoption.           *)
(***************************************************************************)
EXTENDS SchedulerStore

Readiness == {"planned", "ready", "blocked"}

\* _EVENT_TRANSITIONS.  Verification is passed through within one step, so
\* result-received stands for it and the verification event after it.
Transitions(cause) ==
  CASE cause = "approval-proposal-expired" -> {"blocked", "running"} \X {"ready"}
    [] cause = "lease-expired"        -> {"running"} \X {"ready", "blocked"}
    [] cause = "dispatch-accepted"    -> {<<"running", "running">>}
    [] cause = "dispatch-rejected"    -> {"running"} \X {"ready", "blocked"}
    [] cause = "heartbeat"            -> {<<"running", "running">>}
    [] cause = "result-received"      -> {"running"} \X {"completed", "blocked"}
    [] cause = "result-terminal"      ->
         {"running"} \X {"ready", "rejected", "blocked"}
    [] cause = "cancel-request"       -> {<<"running", "running">>}
    [] cause = "cancel-acknowledgement" ->
         {"running"} \X {"superseded", "blocked"}
    [] cause = "worktree-observed"    -> {"running"} \X {"running", "blocked"}
    [] cause = "worktree-request"     -> {<<"ready", "running">>}
    [] cause = "dispatch-intent"      -> {"ready", "running"} \X {"running"}
    [] cause = "dispatch-approval-blocked" ->
         {<<"ready", "blocked">>, <<"running", "running">>}
    [] cause = "dispatch-budget-blocked" ->
         {<<"ready", "blocked">>, <<"running", "running">>,
          <<"running", "blocked">>}
    [] cause = "readiness-refreshed"  -> Readiness \X Readiness

TransitionReplays(before, after, cause) == <<before, after>> \in Transitions(cause)

\* What a task lacks when host h answers for it.
Missing(d, t, h) == Required[t] \ d.caps[h]

\* _readiness_authority_host: the current Lease owner, else the author of
\* the last host message adopted at this timestamp, else the only host that
\* ever registered.  The invoking host itself is not in the event log.
AuthorityHosts(d, t) ==
  IF Held(d, t) THEN {d.lease[t].id.owner}
  ELSE IF d.spoke # Scheduler THEN {d.spoke}
  ELSE IF Cardinality(d.registered) = 1 THEN d.registered
  ELSE {}

\* The missing-capability sets _validate_exact_readiness accepts: with no
\* authority host every registered host must lack the same.
MissingVerdicts(d, t) ==
  IF AuthorityHosts(d, t) # {}
    THEN {Missing(d, t, h) : h \in AuthorityHosts(d, t)}
  ELSE IF d.registered = {} THEN {Required[t]}
  ELSE {Missing(d, t, h) : h \in d.registered}

Terminal(d, t) ==
  \E u \in Dependencies[t] : d.task[u].state \in {"blocked", "rejected", "superseded"}

\* Mutation: a dependency counts as met once it runs.
M_DependenciesMet(d, t) ==
  \A u \in Dependencies[t] : d.task[u].state \in {"running", "completed"}

DependenciesMet(d, t) ==
  \A u \in Dependencies[t] : d.task[u].state = "completed"

\* Mutation: an unknown outcome is refreshed like any other blocked task.
M_Refreshable(d, t) == d.task[t].state \in Readiness

\* The tasks a refresh may touch, live and in replay.
Refreshable(d, t) ==
  /\ d.task[t].state \in Readiness
  /\ ~(d.task[t].state = "blocked" /\ d.task[t].outcome = "unknown")

\* _validate_exact_readiness on the store d the event applies to.
ReadinessReplays(d, t, state, blockers) ==
  /\ Refreshable(d, t)
  /\ IF Terminal(d, t)
       THEN state = "blocked" /\ blockers = {"dependency-terminal-blocker"}
     ELSE IF ~DependenciesMet(d, t)
       THEN state = "planned" /\ blockers = {}
     ELSE \E missing \in MissingVerdicts(d, t) :
            /\ MissingVerdicts(d, t) = {missing}
            /\ IF missing = {}
                 THEN state = "ready" /\ blockers = {}
                 ELSE state = "blocked" /\ blockers = {"missing-capability"}

\* A duplicate's event names the Lease of the message, and the latest row
\* of lease_history for it must not have expired when the event is recorded.
DuplicateReplays(d, m, now) ==
  \/ m.lid = NoLease
  \/ \E row \in d.history : row.id = m.lid /\ now < row.expires

\* Mutation: an earlier rejection does not stand in the way of adoption.
M_AdoptionReplays(d, m) == TRUE

\* A message-rejected event must not name an adopted message.
AdoptionReplays(d, m) == m \notin d.rejected
=============================================================================
