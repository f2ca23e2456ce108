-------------------------- MODULE SchedulerEvidence --------------------------
(***************************************************************************)
(* The evidence tables of the M6 store.  Every step of Scheduler that      *)
(* changes a mutable row also appends rows that are never changed again:   *)
(* events, messages, lease_history, worktree_lease_history and             *)
(* budget_entries.  Next here is Scheduler's Next, each action conjoined   *)
(* with the rows its handler appends; log is what the open transaction     *)
(* sees, kept what the file holds.                                         *)
(***************************************************************************)
EXTENDS Scheduler, SequencesExt

VARIABLES log, kept

evidenceVars == <<vars, log, kept>>

None == NoLease
Zero == [r \in Resources |-> 0]

Blank(cause) ==
  [cause |-> cause, actor |-> Scheduler, task |-> None, before |-> None,
   after |-> None, lease |-> None, msg |-> None, reason |-> None,
   deltas |-> Zero, at |-> now]

\* An event that moves task t from store d to store d2, and one that only
\* notes something about it.
Event(cause, t, d, d2) ==
  [Blank(cause) EXCEPT !.task = t, !.before = d.task[t].state,
                       !.after = d2.task[t]]
Note(cause, m, d) ==
  IF m.lid = NoLease THEN [Blank(cause) EXCEPT !.msg = m]
  ELSE [Blank(cause) EXCEPT !.msg = m, !.lease = m.lid, !.task = m.lid.task,
                            !.after = d.task[m.lid.task]]

\* _seed.
Seeded ==
  [events  |-> <<[Blank("initialize") EXCEPT !.at = 0,
                                             !.reason = "lease-policy"]>>,
   mail    |-> <<>>,
   leases  |-> <<>>,
   trees   |-> <<>>,
   ledgers |-> <<[n |-> 1, reserved |-> Zero, used |-> Zero]>>]

-----------------------------------------------------------------------------
\* The rows written beside an event that takes store d to store d2.

\* _insert_message; a rejected message is never inserted.
Inserts(e, event) ==
  /\ event.msg # None
  /\ event.cause # "message-rejected"
  /\ ~Contains(e.mail, event.msg)

LeaseRow(n, lease, status, outcome) ==
  [n |-> n, task |-> lease.id.task, id |-> lease.id, expires |-> lease.expires,
   status |-> status, outcome |-> outcome]

\* lease_history: an acquisition, a heartbeat, or _release_current_lease.
LeaseRowsOf(n, d, d2, event) ==
  LET t == event.task
  IN  IF t = None THEN <<>>
      ELSE IF Held(d2, t) /\ (event.cause = "heartbeat" \/ d2.lease[t] # d.lease[t])
        THEN <<LeaseRow(n, d2.lease[t], "current", "none")>>
      ELSE IF Held(d, t) /\ ~Held(d2, t)
        THEN <<LeaseRow(n, d.lease[t], "released",
                        IF event.cause = "approval-proposal-expired"
                          THEN "none" ELSE d2.task[t].outcome)>>
      ELSE <<>>

TreeStatus(d2, event) ==
  IF d2.tree[event.task] # "none" THEN d2.tree[event.task]
  ELSE IF event.cause # "worktree-observed" THEN "released"
  ELSE IF event.msg.say.worktree = "ambiguous" THEN "blocked" ELSE "integrated"

\* worktree_lease_history.
TreeRowsOf(n, d, d2, event) ==
  IF event.task = None THEN <<>>
  ELSE IF d2.tree[event.task] # d.tree[event.task] \/ event.cause = "worktree-observed"
    THEN <<[n |-> n, task |-> event.task, fence |-> event.lease.fence,
            status |-> TreeStatus(d2, event)]>>
  ELSE <<>>

\* _append_budget_snapshot.
LedgerRowsOf(n, d, d2) ==
  IF <<d2.reserved, d2.used>> = <<d.reserved, d.used>> THEN <<>>
  ELSE <<[n |-> n, reserved |-> d2.reserved, used |-> d2.used]>>

\* Mutation: the release of a worktree leaves no row.
M_Wrote(e, d, d2, event) ==
  LET n == Len(e.events) + 1
  IN  [events  |-> Append(e.events, event),
       mail    |-> IF Inserts(e, event) THEN Append(e.mail, event.msg) ELSE e.mail,
       leases  |-> e.leases \o LeaseRowsOf(n, d, d2, event),
       trees   |-> SelectSeq(e.trees \o TreeRowsOf(n, d, d2, event),
                             LAMBDA row : row.status # "released"),
       ledgers |-> e.ledgers \o LedgerRowsOf(n, d, d2)]

Wrote(e, d, d2, event) ==
  LET n == Len(e.events) + 1
  IN  [events  |-> Append(e.events, event),
       mail    |-> IF Inserts(e, event) THEN Append(e.mail, event.msg) ELSE e.mail,
       leases  |-> e.leases \o LeaseRowsOf(n, d, d2, event),
       trees   |-> e.trees \o TreeRowsOf(n, d, d2, event),
       ledgers |-> e.ledgers \o LedgerRowsOf(n, d, d2)]

-----------------------------------------------------------------------------
\* Budget deltas, as the handlers pass them to _append_event.

Deltas(charge, slots, retries) ==
  [r \in Resources |-> IF r \in AttemptResources THEN charge[r]
                       ELSE IF r = "concurrency" THEN slots
                       ELSE IF r = "retries" THEN retries ELSE 0]

RetryDelta(d, d2) == d2.used["retries"] - d.used["retries"]

\* An attempt that ends under the reason its task is left with.
Ends(cause, t, d, d2, m, charge) ==
  [Event(cause, t, d, d2) EXCEPT
     !.actor  = IF m = None THEN Scheduler ELSE m.sender,
     !.lease  = d.lease[t].id,
     !.msg    = m,
     !.reason = CHOOSE b \in d2.task[t].blockers : TRUE,
     !.deltas = Deltas(charge, -1, RetryDelta(d, d2))]

-----------------------------------------------------------------------------
\* The dispatch: approval-consumed events first, then dispatch-intent.

ConsumptionOf(e, d, t, m) ==
  Wrote(e, d, d, [Event("approval-consumed", t, d, d) EXCEPT !.lease = m.lid, !.msg = m])

IntentLog(e, d, d2, t) ==
  LET id       == d2.lease[t].id
      consumed == SetToSeq(d2.consumed \ d.consumed)
      sent     == CHOOSE m \in Adopted(d2, "dispatch_intent", id) : TRUE
      slots    == IF d.task[t].state = "ready" THEN 1 ELSE 0
  IN  Wrote(FoldLeft(LAMBDA g, m : ConsumptionOf(g, d, t, m), e, consumed), d, d2,
            [Event("dispatch-intent", t, d, d2) EXCEPT
               !.lease = id, !.msg = sent,
               !.deltas = [Deltas(sent.say.reservation, slots, 0)
                             EXCEPT !["dispatches"] = 1]])

\* _activate_dispatch_after_worktree.
ResumeLog(e, d, t) ==
  LET d2      == Resumed(d, t, now)
      blocked(cause, reason) ==
        Wrote(e, d, d2, [Event(cause, t, d, d2) EXCEPT !.lease = d.lease[t].id,
                                                       !.reason = reason])
  IN  IF ~BudgetAllows(d, t, 0)
        THEN IF d.task[t].blockers = {"budget-exhausted"} THEN e
             ELSE blocked("dispatch-budget-blocked", "budget-exhausted")
      ELSE IF ~Approved(d, t, d.lease[t].id, now)
        THEN blocked("dispatch-approval-blocked", "approval-required")
      ELSE IntentLog(e, d, d2, t)

-----------------------------------------------------------------------------
\* Scheduler's actions, each with the rows it appends.

BeginLogged ==
  /\ \/ \E h \in Hosts : BeginTick(h)
     \/ \E h \in Hosts, t \in Tasks : BeginCancelCheck(h, t) \/ BeginCancel(h, t)
  /\ log' = IF now > disk.used["wall_time_seconds"]
              THEN Wrote(log, disk, Observed(disk),
                         [Blank("wall-time-observed") EXCEPT
                            !.deltas["wall_time_seconds"] =
                               now - disk.used["wall_time_seconds"]])
              ELSE log

ExpireLogged(t) ==
  \/ /\ ProposalExpires(t)
     /\ log' = Wrote(log, db, db',
                     [Event("approval-proposal-expired", t, db, db') EXCEPT
                        !.lease = db.lease[t].id,
                        !.reason = "approval-proposal-expired"])
  \/ /\ LeaseExpires(t)
     /\ log' = Wrote(log, db, db',
                     Ends("lease-expired", t, db, db', None,
                          Outstanding(db, db.lease[t].id)))

NoteLogged(m) ==
  \/ /\ Redelivered(m)
     /\ log' = Wrote(log, db, db, [Note("duplicate-message", m, db) EXCEPT
                                     !.reason = "duplicate-message-retained"])
  \/ /\ Reject(m)
     /\ log' = Wrote(log, db, db, [Note("message-rejected", m, db) EXCEPT
                                     !.reason = "rejected"])
  \/ /\ CapabilityObserved(m)
     /\ log' = Wrote(log, db, db', [Note("capability-observed", m, db) EXCEPT
                                      !.actor = m.sender])

ApprovalLogged(m) ==
  LET d == Received(m)
      e == Wrote(log, db, d, [Note("approval-received", m, db) EXCEPT !.actor = m.sender])
  IN  /\ ApprovalReceived(m)
      /\ log' = IF d.tree[m.lid.task] = "observed" /\ d.task[m.lid.task].phase = "not_dispatched"
                  THEN ResumeLog(e, d, m.lid.task) ELSE e

AcknowledgementLogged(m) ==
  LET t == m.lid.task
      charge == [Nothing EXCEPT !["context_bytes"] = Outstanding(db, m.lid)["context_bytes"]]
  IN  \/ /\ DispatchAccepted(m)
         /\ log' = Wrote(log, db, db', [Event("dispatch-accepted", t, db, db') EXCEPT
                                          !.actor = m.sender, !.lease = m.lid,
                                          !.msg = m, !.deltas = Deltas(charge, 0, 0)])
      \/ /\ DispatchRejected(m)
         /\ log' = Wrote(log, db, db', Ends("dispatch-rejected", t, db, db', m, Nothing))
      \/ /\ Heartbeat(m)
         /\ log' = Wrote(log, db, db', [Event("heartbeat", t, db, db') EXCEPT
                                          !.actor = m.sender, !.lease = m.lid, !.msg = m])

\* _apply_result appends result-received, then the verification event.
ResultLogged(m) ==
  LET t      == m.lid.task
      closed == Moved(Closed(Received(m), t, Charge(m)), t, "verification", "accepted",
                      "succeeded", {})
      result == [Event("result-received", t, db, closed) EXCEPT
                   !.actor = m.sender, !.lease = m.lid, !.msg = m,
                   !.deltas = Deltas(Charge(m), -1, 0)]
      done   == db'.task[t].state = "completed"
      verified == [Event(IF done THEN "verification-completed" ELSE "verification-blocked",
                         t, closed, db') EXCEPT
                     !.lease = m.lid,
                     !.reason = IF done THEN None
                                ELSE CHOOSE b \in db'.task[t].blockers : TRUE]
  IN  \/ /\ ResultSucceeded(m)
         /\ log' = Wrote(Wrote(log, db, closed, result), closed, db', verified)
      \/ /\ ResultUnsuccessful(m)
         /\ log' = Wrote(log, db, db', Ends("result-terminal", t, db, db', m, Charge(m)))

OtherReplyLogged(m) ==
  LET t == m.lid.task
      d == [Received(m) EXCEPT !.tree[t] = "observed"]
      seen == [Event("worktree-observed", t, db, d) EXCEPT
                 !.actor = m.sender, !.lease = m.lid, !.msg = m]
  IN  \/ /\ CancelAcknowledged(m)
         /\ log' = Wrote(log, db, db', Ends("cancel-acknowledgement", t, db, db', m,
                                            Outstanding(db, m.lid)))
      \/ /\ WorktreeObserved(m)
         /\ log' = IF m.say.worktree \in {"ambiguous", "integrated"}
                     THEN Wrote(log, db, db', Ends("worktree-observed", t, db, db', m, Nothing))
                     ELSE ResumeLog(Wrote(log, db, d, seen), d, t)

IngestLogged(m) ==
  \/ NoteLogged(m) \/ ApprovalLogged(m) \/ AcknowledgementLogged(m)
  \/ ResultLogged(m) \/ OtherReplyLogged(m)
  \/ ResultRaises(m) /\ UNCHANGED log

DispatchLogged(t) ==
  \/ /\ RefreshTask(t)
     /\ log' = Wrote(log, db, db', Event("readiness-refreshed", t, db, db'))
  \/ /\ RetryWorktree(t)
     /\ log' = IF db.tree[t] = "observed" THEN ResumeLog(log, db, t) ELSE log
  \/ /\ BudgetBlocks(t)
     /\ log' = Wrote(log, db, db', [Event("dispatch-budget-blocked", t, db, db') EXCEPT
                                      !.reason = "budget-exhausted"])
  \/ /\ ApprovalBlocks(t)
     /\ log' = Wrote(log, db, db', [Event("dispatch-approval-blocked", t, db, db') EXCEPT
                                      !.actor = db'.lease[t].id.owner,
                                      !.lease = db'.lease[t].id,
                                      !.reason = "approval-required"])
  \/ /\ WorktreeBlocks(t)
     /\ log' = Wrote(log, db, db', [Event("readiness-refreshed", t, db, db') EXCEPT
                                      !.lease = IF Held(db, t) THEN db.lease[t].id ELSE None,
                                      !.reason = "worktree-unavailable"])
  \/ /\ RequestWorktree(t)
     /\ log' = Wrote(log, db, db', [Event("worktree-request", t, db, db') EXCEPT
                                      !.lease = db'.lease[t].id,
                                      !.msg = CHOOSE m \in db'.mail \ db.mail : TRUE,
                                      !.deltas = Deltas(Nothing, 1, 0)])
  \/ /\ Dispatch(t)
     /\ log' = IntentLog(log, db, db', t)

CancelLogged(t) ==
  \/ (CancelRefused(t) \/ CancelRepeated(t)) /\ UNCHANGED log
  \/ /\ CancelRequested(t)
     /\ log' = Wrote(log, db, db', [Event("cancel-request", t, db, db') EXCEPT
                                      !.lease = db.lease[t].id,
                                      !.msg = CHOOSE m \in db'.mail \ db.mail : TRUE])

EvidenceInit == Init /\ log = Seeded /\ kept = Seeded

EvidenceNext ==
  \/ /\ \/ BeginLogged
        \/ \E t \in Tasks : ExpireLogged(t) \/ DispatchLogged(t) \/ CancelLogged(t)
        \/ \E m \in Deliverable : IngestLogged(m)
        \/ (AdvanceClock \/ ExpiryDone \/ IngestDone \/ RefreshDone \/ RetryDone
            \/ DispatchDone) /\ UNCHANGED log
     /\ UNCHANGED kept
  \/ Commit /\ kept' = log /\ UNCHANGED log
  \/ (Abort \/ Crash) /\ log' = kept /\ UNCHANGED kept

EvidenceSpec == EvidenceInit /\ [][EvidenceNext]_evidenceVars
=============================================================================
