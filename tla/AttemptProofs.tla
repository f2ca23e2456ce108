---------------------------- MODULE AttemptProofs ----------------------------
(***************************************************************************)
(* What the scheduler promises of attempts: how they are numbered and      *)
(* counted, what they wait for, how they end and that they are not touched *)
(* again; for every graph and any number of hosts, calls and crashes.      *)
(* The first half says what one step can do to one task: every action that *)
(* writes the store is one of six kinds of change to one task, and leaves  *)
(* the others alone.  What holds through all six holds of the scheduler.   *)
(***************************************************************************)
EXTENDS SchedulerProofs, FiniteSetTheorems

Slots(d) == d.reserved["concurrency"]

Elsewhere(d, e, t) ==
  \A u \in Tasks \ {t} : /\ e.task[u] = d.task[u]
                         /\ e.lease[u] = d.lease[u]
                         /\ Asked(e, u) = Asked(d, u)

SameNumbers(d, e, t) ==
  /\ e.task[t].attempt = d.task[t].attempt
  /\ e.task[t].fence = d.task[t].fence

\* The task goes on as it was; a running one may be asked for more under its
\* Lease (heartbeats, acknowledgements, a dispatch after its worktree).
Kept(d, e, t) ==
  /\ e.task[t].state = d.task[t].state
  /\ SameNumbers(d, e, t)
  /\ e.task[t].outcome \in {d.task[t].outcome, "none"}
  /\ Held(e, t) <=> Held(d, t)
  /\ Held(d, t) => e.lease[t].id = d.lease[t].id
  /\ Asked(d, t) \subseteq Asked(e, t)
  /\ \A m \in Asked(e, t) \ Asked(d, t) : Held(d, t) /\ m.lid = d.lease[t].id
  /\ d.task[t].state # "running" =>
       e.task[t] = d.task[t] /\ Asked(e, t) = Asked(d, t)
  /\ d.task[t].phase = "cancellation_requested" =>
       e.task[t].phase = "cancellation_requested"
  /\ Slots(e) = Slots(d)

\* A refresh, or a dispatch that is blocked before it has a Lease.
Reconsidered(d, e, t) ==
  /\ Refreshable(d, t)
  /\ e.task[t].state \in Readiness
  /\ e.task[t].state = "ready" => DependenciesMet(d, t)
  /\ SameNumbers(d, e, t)
  /\ e.task[t].outcome = d.task[t].outcome
  /\ e.lease[t] = d.lease[t]
  /\ Asked(e, t) = Asked(d, t)
  /\ Slots(e) = Slots(d)

\* The Lease under which a ready task is dispatched or proposed.
Takes(d, e, t) ==
  /\ d.task[t].state = "ready"
  /\ Held(e, t)
  /\ e.task[t].attempt = e.lease[t].id.attempt
  /\ e.task[t].fence = e.lease[t].id.fence
  /\ IF Held(d, t)
       THEN e.lease[t].id = d.lease[t].id
       ELSE /\ e.lease[t].id.attempt = d.task[t].attempt + 1
            /\ e.lease[t].id.fence = d.task[t].fence + 1
            /\ e.lease[t].id.acquired = now

\* A proposal that waits for its approvals.
Offered(d, e, t) ==
  /\ Takes(d, e, t)
  /\ e.task[t].state = "blocked"
  /\ e.task[t].outcome = d.task[t].outcome
  /\ Asked(e, t) = Asked(d, t)
  /\ Slots(e) = Slots(d)

Started(d, e, t) ==
  /\ Takes(d, e, t)
  /\ e.task[t].state = "running"
  /\ e.task[t].outcome = "none"
  /\ \E m : m.lid = e.lease[t].id /\ Asked(e, t) = Asked(d, t) \cup {m}
  /\ Slots(e) = Slots(d) + 1 /\ Slots(e) <= Limit["concurrency"]

\* What completes a task: its review targets, and a succeeded result with evidence.
Completes(d, e, t) ==
  /\ \A u \in ReviewTargets[t] : d.task[u].state = "completed"
  /\ \E m \in e.mail : /\ m.say.type = "task_result"
                       /\ m.say.outcome = "succeeded"
                       /\ m.say.evidence
                       /\ m.lid = d.lease[t].id

Finished(d, e, t) ==
  /\ d.task[t].state = "running"
  /\ SameNumbers(d, e, t)
  /\ ~Held(e, t)
  /\ \/ /\ e.task[t].state = "ready" /\ e.task[t].outcome # "unknown"
        /\ t \in ReadOnly /\ d.lease[t].id.attempt < MaxAttempts[t]
     \/ e.task[t].state \in {"rejected", "superseded"} /\ e.task[t].outcome # "unknown"
     \/ e.task[t].state = "blocked" /\ e.task[t].outcome = "unknown"
     \/ /\ e.task[t].state = "completed" /\ e.task[t].outcome # "unknown"
        /\ Completes(d, e, t)
  /\ Asked(e, t) = Asked(d, t)
  /\ Slots(e) = Slots(d) - 1

\* A proposal whose time is over.
Withdrew(d, e, t) ==
  /\ d.task[t].state # "running" /\ Held(d, t)
  /\ e.task[t].state = "ready"
  /\ e.task[t].outcome = d.task[t].outcome
  /\ e.task[t].attempt = d.lease[t].id.attempt - 1
  /\ e.task[t].fence = d.lease[t].id.fence - 1
  /\ ~Held(e, t)
  /\ Asked(e, t) = Asked(d, t)
  /\ Slots(e) = Slots(d)

Change(d, e, t) ==
  /\ Elsewhere(d, e, t)
  /\ \/ Kept(d, e, t) \/ Reconsidered(d, e, t) \/ Offered(d, e, t)
     \/ Started(d, e, t) \/ Finished(d, e, t) \/ Withdrew(d, e, t)

\* What a message that is adopted says of the store it is adopted in: a request
\* or a reply is about the Lease that runs, a reply that ends the attempt
\* releases it, and an acknowledgement is the first one.
Timely(d, e, m) ==
  /\ m.say.type = "cancel_request" =>
       /\ m.lid.task \in Tasks
       /\ d.task[m.lid.task].state = "running"
       /\ d.lease[m.lid.task].id = m.lid
       /\ e.task[m.lid.task].phase = "cancellation_requested"
  /\ EndsAttempt(m) =>
       /\ m.lid.task \in Tasks
       /\ d.task[m.lid.task].state = "running"
       /\ d.lease[m.lid.task].id = m.lid
       /\ ~Held(e, m.lid.task)
  /\ m.say.type = "task_result" =>
       d.task[m.lid.task].phase # "cancellation_requested"
  /\ m.say.type = "dispatch_acknowledgement" =>
       \A n \in d.mail : n.say.type = m.say.type => n.lid # m.lid

Asking(m) == m.say.type \in {"dispatch_intent", "worktree_request"}

\* At most one message is adopted in a step, besides what hosts are asked.
NewMail(d, e) ==
  /\ d.mail \subseteq e.mail
  /\ \A m \in e.mail \ d.mail : Timely(d, e, m)
  /\ \A m, n \in e.mail \ d.mail : Asking(m) \/ Asking(n) \/ m = n

TaskStep(d, e) == NewMail(d, e) /\ \E t \in Tasks : Change(d, e, t)

\* A cancellation was requested only of an attempt that a host was asked for.
Requested(d) ==
  \A m \in d.mail : m.say.type = "cancel_request" =>
    \E u \in Tasks : \E n \in Asked(d, u) : n.lid = m.lid

StepInv == AuthorityInv /\ Requested(disk) /\ Requested(db)

-----------------------------------------------------------------------------
\* Kinds of change, composed and recognised.

\* Tables that bear on a change are the same in d and e.
Alike(d, e) ==
  /\ e.task = d.task /\ e.lease = d.lease
  /\ \A u \in Tasks : Asked(e, u) = Asked(d, u)
  /\ Slots(e) = Slots(d)

\* A change is the same change after something that does not bear on it.
LEMMA AlikeChange ==
  ASSUME NEW d, NEW r, NEW e, Alike(d, r), NEW t \in Tasks, Change(r, e, t)
  PROVE  Change(d, e, t)
<1>1. Elsewhere(d, e, t)
  BY DEF Change, Elsewhere, Alike
<1>2. /\ r.task = d.task /\ r.lease = d.lease /\ Asked(r, t) = Asked(d, t)
      /\ Slots(r) = Slots(d)
      /\ Held(r, t) <=> Held(d, t)
  BY DEF Alike, Held
<1>3. CASE Kept(r, e, t)
  BY <1>1, <1>2, <1>3 DEF Change, Kept, SameNumbers
<1>4. CASE Reconsidered(r, e, t)
  BY <1>1, <1>2, <1>4 DEF Change, Reconsidered, SameNumbers, Refreshable, DependenciesMet
<1>5. CASE Offered(r, e, t)
  BY <1>1, <1>2, <1>5 DEF Change, Offered, Takes
<1>6. CASE Started(r, e, t)
  BY <1>1, <1>2, <1>6 DEF Change, Started, Takes
<1>7. CASE Finished(r, e, t)
  BY <1>1, <1>2, <1>7 DEF Change, Finished, SameNumbers, Completes
<1>8. CASE Withdrew(r, e, t)
  BY <1>1, <1>2, <1>8 DEF Change, Withdrew
<1>. QED BY <1>3, <1>4, <1>5, <1>6, <1>7, <1>8 DEF Change

\* Nothing that bears on any task changed.
LEMMA AlikeIsChange ==
  ASSUME NEW d, NEW e, Alike(d, e), NEW t \in Tasks
  PROVE  Change(d, e, t)
<1>1. Held(d, t) <=> Held(e, t)
  BY DEF Alike, Held
<1>. QED BY <1>1 DEF Alike, Change, Elsewhere, Kept, SameNumbers

\* What closing an attempt changes and what it leaves alone.
LEMMA ClosedParts ==
  ASSUME NEW d, StoreType(d), NEW t \in Tasks,
         NEW charge \in [AttemptResources -> Int], NEW c, c = Closed(d, t, charge)
  PROVE  /\ StoreType(c)
         /\ c.task = d.task /\ c.mail = d.mail
         /\ c.lease = [d.lease EXCEPT ![t] = NoLease]
         /\ c.reserved["concurrency"] = d.reserved["concurrency"] - 1
<1>. DEFINE out == Outstanding(d, d.lease[t].id)
            low == Lowered(SlotFreed(d), out)
<1>1. StoreType(c)
  BY ClosedType
<1>2. low["concurrency"] = d.reserved["concurrency"] - 1
  BY DEF Lowered, SlotFreed, Resources, AttemptResources, StoreType
<1>3. c = [d EXCEPT !.lease = [d.lease EXCEPT ![t] = NoLease],
                    !.tree = [d.tree EXCEPT ![t] = "none"],
                    !.reserved = low,
                    !.used = Raised(d.used, charge)]
  BY DEF Closed, StoreType
<1>. HIDE DEF low
<1>4. /\ c.task = d.task /\ c.mail = d.mail /\ c.reserved = low
      /\ c.lease = [d.lease EXCEPT ![t] = NoLease]
  BY <1>3 DEF StoreType
<1>. QED BY <1>1, <1>2, <1>4
-----------------------------------------------------------------------------
\* What the operators on stores do to the task they are about.

\* An attempt that is closed ends in one of five ways.
LEMMA EndingChange ==
  ASSUME NEW d, StoreType(d), NEW t \in Tasks, d.task[t].state = "running",
         NEW charge \in [AttemptResources -> Int], NEW c, c = Closed(d, t, charge),
         NEW e,
         \/ /\ t \in ReadOnly /\ d.lease[t].id.attempt < MaxAttempts[t]
            /\ \E reason : e = Retried(c, t, reason)
         \/ \E reason : e = Quarantined(c, t, reason)
         \/ \E phase, blockers : e = Moved(c, t, "blocked", phase, "unknown", blockers)
         \/ \E state \in {"rejected", "superseded"}, outcome \in {"failed", "cancelled"} :
               \E phase, blockers :
              e = Moved(c, t, state, phase, outcome, blockers)
         \/ /\ Completes(d, d, t)
            /\ \E phase, blockers :
                 e = Moved(c, t, "completed", phase, "succeeded", blockers)
  PROVE  Change(d, e, t) /\ e.mail = d.mail /\ ~Held(e, t)
<1>1. /\ StoreType(c)
      /\ c.task = d.task /\ c.mail = d.mail
      /\ c.lease = [d.lease EXCEPT ![t] = NoLease]
      /\ c.reserved["concurrency"] = d.reserved["concurrency"] - 1
  BY ClosedParts
<1>2. c.lease[t] = NoLease /\ \A u \in Tasks \ {t} : c.lease[u] = d.lease[u]
  BY <1>1 DEF StoreType
<1>3. ASSUME NEW state, NEW phase, NEW outcome, NEW blockers, NEW f,
             f = Moved(c, t, state, phase, outcome, blockers)
      PROVE  /\ f.mail = d.mail
             /\ f.lease = c.lease
             /\ f.task[t].state = state /\ f.task[t].outcome = outcome
             /\ SameNumbers(d, f, t)
             /\ ~Held(f, t)
             /\ Asked(f, t) = Asked(d, t)
             /\ Slots(f) = Slots(d) - 1
             /\ Elsewhere(d, f, t)
  <2>1. /\ f.lease = c.lease /\ f.mail = c.mail /\ f.reserved = c.reserved
        /\ f.task[t].state = state /\ f.task[t].outcome = outcome
        /\ f.task[t].attempt = c.task[t].attempt
        /\ f.task[t].fence = c.task[t].fence
        /\ \A u \in Tasks \ {t} : f.task[u] = c.task[u]
    BY <1>1, <1>3, MovedParts
  <2>. QED BY <1>1, <1>2, <2>1 DEF SameNumbers, Held, Asked, Slots, Elsewhere
<1>4. CASE \E reason : e = Quarantined(c, t, reason)
  <2>1. \E phase, blockers : e = Moved(c, t, "blocked", phase, "unknown", blockers)
    BY <1>4 DEF Quarantined
  <2>. QED BY <1>3, <2>1 DEF Change, Finished
<1>5. CASE \E phase, blockers : e = Moved(c, t, "blocked", phase, "unknown", blockers)
  BY <1>3, <1>5 DEF Change, Finished
<1>6. CASE \E state \in {"rejected", "superseded"}, outcome \in {"failed", "cancelled"} :
              \E phase, blockers :
             e = Moved(c, t, state, phase, outcome, blockers)
  BY <1>3, <1>6 DEF Change, Finished
<1>7. CASE /\ Completes(d, d, t)
           /\ \E phase, blockers :
                e = Moved(c, t, "completed", phase, "succeeded", blockers)
  <2>1. e.mail = d.mail
    BY <1>3, <1>7
  <2>2. Completes(d, e, t)
    BY <1>7, <2>1 DEF Completes
  <2>. QED BY <1>3, <1>7, <2>1, <2>2 DEF Change, Finished
<1>8. ASSUME t \in ReadOnly, d.lease[t].id.attempt < MaxAttempts[t],
             NEW reason, e = Retried(c, t, reason)
      PROVE  Change(d, e, t) /\ e.mail = d.mail /\ ~Held(e, t)
  <2>. DEFINE f == Moved(c, t, "ready", "not_dispatched", "failed", {reason})
  <2>1. e = [f EXCEPT !.used = [f.used EXCEPT !["retries"] = @ + 1]]
    BY <1>8 DEF Retried
  <2>2. DOMAIN f = DOMAIN c
    BY DEF Moved
  <2>3. /\ f.mail = d.mail
        /\ f.task[t].state = "ready" /\ f.task[t].outcome = "failed"
        /\ SameNumbers(d, f, t)
        /\ ~Held(f, t)
        /\ Asked(f, t) = Asked(d, t)
        /\ Slots(f) = Slots(d) - 1
        /\ Elsewhere(d, f, t)
    BY <1>3
  <2>. HIDE DEF f
  <2>4. /\ e.task = f.task /\ e.lease = f.lease /\ e.mail = f.mail
        /\ e.reserved = f.reserved
    BY <1>1, <2>1, <2>2 DEF StoreType
  <2>5. /\ SameNumbers(d, e, t) /\ ~Held(e, t) /\ Asked(e, t) = Asked(d, t)
        /\ Slots(e) = Slots(d) - 1 /\ Elsewhere(d, e, t)
    BY <2>3, <2>4 DEF SameNumbers, Held, Asked, Slots, Elsewhere
  <2>. QED BY <1>8, <2>3, <2>4, <2>5 DEF Change, Finished
<1>. QED BY <1>4, <1>5, <1>6, <1>7, <1>8

\* A task that runs under its Lease is asked for more, and one whose dispatch
\* was held back by its worktree may be dispatched now.
LEMMA ResumedChange ==
  ASSUME NEW d, StoreType(d), NEW t \in Tasks, Held(d, t),
         d.lease[t].id.task = t,
         d.task[t].state = "running", d.task[t].phase = "not_dispatched",
         now \in Nat, NEW e, e = Resumed(d, t, now)
  PROVE  /\ Change(d, e, t)
         /\ \A m \in e.mail : m \in d.mail \/ m.say.type = "dispatch_intent"
         /\ d.mail \subseteq e.mail
<1>. DEFINE id == d.lease[t].id
            pending == [d EXCEPT !.task[t].phase = "intent_pending",
                                 !.task[t].blockers = {}]
<1>0. d.task[t] \in TaskRows
  BY DEF StoreType
<1>1. CASE ~BudgetAllows(d, t, 0)
  <2>1. e = Moved(d, t, "running", "not_dispatched", "none", {"budget-exhausted"})
    BY <1>1 DEF Resumed
  <2>2. /\ e.lease = d.lease /\ e.mail = d.mail /\ e.reserved = d.reserved
        /\ e.task[t].state = "running" /\ e.task[t].outcome = "none"
        /\ e.task[t].attempt = d.task[t].attempt
        /\ e.task[t].fence = d.task[t].fence
        /\ \A u \in Tasks \ {t} : e.task[u] = d.task[u]
    BY <2>1, MovedParts
  <2>3. Kept(d, e, t) /\ Elsewhere(d, e, t)
    BY <2>2 DEF Kept, SameNumbers, Held, Asked, Slots, Elsewhere
  <2>. QED BY <2>2, <2>3 DEF Change
<1>2. CASE BudgetAllows(d, t, 0) /\ ~Approved(d, t, id, now)
  <2>. DEFINE row == [d.task[t] EXCEPT !.blockers = {"approval-required"}]
  <2>1. e = [d EXCEPT !.task = [d.task EXCEPT ![t] = row]]
    BY <1>2 DEF Resumed, StoreType
  <2>2. /\ row.state = d.task[t].state
        /\ row.outcome = d.task[t].outcome
        /\ row.attempt = d.task[t].attempt
        /\ row.fence = d.task[t].fence
    BY <1>0 DEF TaskRows
  <2>. HIDE DEF row
  <2>3. /\ e.lease = d.lease /\ e.mail = d.mail /\ e.reserved = d.reserved
        /\ e.task = [d.task EXCEPT ![t] = row]
    BY <2>1 DEF StoreType
  <2>4. e.task[t] = row /\ \A u \in Tasks \ {t} : e.task[u] = d.task[u]
    BY <2>3 DEF StoreType
  <2>5. Kept(d, e, t) /\ Elsewhere(d, e, t)
    BY <2>2, <2>3, <2>4 DEF Kept, SameNumbers, Held, Asked, Slots, Elsewhere
  <2>. QED BY <2>3, <2>5 DEF Change
<1>3. CASE BudgetAllows(d, t, 0) /\ Approved(d, t, id, now)
  <2>. DEFINE row == [d.task[t] EXCEPT !.phase = "intent_pending", !.blockers = {}]
              c == Consumed(pending, t, id, now)
  <2>1. e = Intent(c, t, id, now)
    BY <1>3 DEF Resumed
  <2>2. /\ row.state = d.task[t].state
        /\ row.outcome = d.task[t].outcome
        /\ row.attempt = d.task[t].attempt
        /\ row.fence = d.task[t].fence
        /\ row \in TaskRows
    BY <1>0 DEF TaskRows, Phases
  <2>3. pending = [d EXCEPT !.task = [d.task EXCEPT ![t] = row]]
    BY DEF StoreType
  <2>4. id \in LeaseIds
    BY HeldType
  <2>. HIDE DEF row, pending, id
  <2>5. /\ StoreType(pending) /\ pending.task = [d.task EXCEPT ![t] = row]
        /\ pending.lease = d.lease /\ pending.reserved = d.reserved
        /\ pending.mail = d.mail /\ pending.consumed = d.consumed
    BY <2>2, <2>3 DEF StoreType
  <2>6. Approved(pending, t, id, now)
    BY <1>3, <2>5, GrantsDepend DEF Approved
  <2>7. /\ StoreType(c) /\ c.task = pending.task /\ c.lease = d.lease
        /\ c.reserved = d.reserved /\ c.mail = d.mail
    BY <2>5, <2>6, ConsumedType, ConsumedParts
  <2>. HIDE DEF c
  <2>8. /\ e.task = pending.task /\ e.lease = d.lease
        /\ e.reserved["concurrency"] = d.reserved["concurrency"]
        /\ \E m : /\ e.mail = d.mail \cup {m}
                  /\ m.say.type = "dispatch_intent" /\ m.lid = id
    BY <2>1, <2>7, IntentParts
  <2>9. /\ e.task[t] = row
        /\ \A u \in Tasks \ {t} : e.task[u] = d.task[u]
    BY <2>5, <2>8 DEF StoreType
  <2>10. PICK m : /\ e.mail = d.mail \cup {m}
                  /\ m.say.type = "dispatch_intent" /\ m.lid = id
    BY <2>8
  <2>11. /\ Asked(e, t) = Asked(d, t) \cup {m}
         /\ \A u \in Tasks \ {t} : Asked(e, u) = Asked(d, u)
    BY <2>4, <2>10 DEF Asked, id
  <2>12. Kept(d, e, t) /\ Elsewhere(d, e, t)
    BY <2>2, <2>8, <2>9, <2>10, <2>11
       DEF Kept, SameNumbers, Held, Slots, Elsewhere, id
  <2>. QED BY <2>10, <2>12 DEF Change
<1>. QED BY <1>1, <1>2, <1>3

\* A task that does not run is readied, planned or blocked.
LEMMA ReadiedChange ==
  ASSUME NEW d, StoreType(d), NEW t \in Tasks, Refreshable(d, t),
         NEW state \in Readiness, state = "ready" => DependenciesMet(d, t),
         NEW blockers, NEW e, e = Readied(d, t, state, blockers)
  PROVE  Change(d, e, t) /\ e.mail = d.mail
<1>1. /\ e.lease = d.lease /\ e.mail = d.mail /\ e.reserved = d.reserved
      /\ e.task[t].state = state
      /\ e.task[t].outcome = d.task[t].outcome
      /\ e.task[t].attempt = d.task[t].attempt
      /\ e.task[t].fence = d.task[t].fence
      /\ \A u \in Tasks \ {t} : e.task[u] = d.task[u]
  BY ReadiedParts
<1>2. Reconsidered(d, e, t) /\ Elsewhere(d, e, t)
  BY <1>1 DEF Reconsidered, SameNumbers, Asked, Slots, Elsewhere
<1>. QED BY <1>1, <1>2 DEF Change

-----------------------------------------------------------------------------
\* Every action is such a step.

\* One message is adopted, and hosts may be asked for more.
LEMMA OneMessage ==
  ASSUME NEW d, NEW e, d.mail \subseteq e.mail, NEW m, Timely(d, e, m),
         \A n \in e.mail : n \in d.mail \/ n = m \/ Asking(n)
  PROVE  NewMail(d, e)
<1>1. ASSUME NEW n, Asking(n)
      PROVE  Timely(d, e, n)
  BY <1>1 DEF Timely, Asking, EndsAttempt
<1>. QED BY <1>1 DEF NewMail

\* A step whose new messages only ask something brings no answer in.
LEMMA NoMessage ==
  ASSUME NEW d, NEW e, d.mail \subseteq e.mail,
         \A n \in e.mail : n \in d.mail \/ Asking(n)
  PROVE  NewMail(d, e)
<1>1. ASSUME NEW n, Asking(n)
      PROVE  Timely(d, e, n)
  BY <1>1 DEF Timely, Asking, EndsAttempt
<1>. QED BY <1>1 DEF NewMail

\* A Lease under which a host was asked for something is a running one.
LEMMA AskedRuns ==
  ASSUME NEW d, StoreType(d), Sound(d), NEW t \in Tasks, Held(d, t),
         NEW u \in Tasks, NEW n \in Asked(d, u), n.lid = d.lease[t].id
  PROVE  d.task[t].state = "running"
<1>1. AuthorityAt(d, t)
  BY DEF Sound
<1>2. n \in Asked(d, t)
  BY <1>1 DEF AuthorityAt, Asked
<1>3. n.lid.attempt \in Nat
  BY DEF Asked, LeaseIds
<1>. QED BY <1>1, <1>2, <1>3 DEF AuthorityAt

\* Every reply that is adopted finds its task running under the reply's Lease.
LEMMA AdoptingRuns ==
  ASSUME StepInv, NEW m, Adopting(m), m.say.type \in HostTypes,
         ~Capability(m), ~Approval(m)
  PROVE  /\ m.lid.task \in Tasks
         /\ db.task[m.lid.task].state = "running"
         /\ db.lease[m.lid.task].id = m.lid
         /\ m \notin db.mail
         /\ ~Conflicting(db, m)
         /\ db.task[m.lid.task].phase \in OpenPhases(m.say.type)
<1>. USE DEF StepInv, AuthorityInv, TypeInv
<1>1. /\ m.lid \in LeaseIds /\ m.lid.task \in Tasks
      /\ Held(db, m.lid.task) /\ db.lease[m.lid.task].id = m.lid
  BY AdoptingType
<1>2. ReplyAdoptable(db, m, tx.host) /\ m \notin db.mail
  BY DEF Adopting, Adoptable
<1>3. PICK n \in db.mail : n.say.type = CauseOf(m.say.type) /\ n.lid = m.lid
  BY <1>2 DEF ReplyAdoptable, Adopted
<1>4. n.say.type \in {"dispatch_intent", "worktree_request", "cancel_request"}
  BY <1>3 DEF CauseOf, HostTypes, Capability, Approval
<1>5. \E u \in Tasks : \E k \in Asked(db, u) : k.lid = m.lid
  BY <1>1, <1>3, <1>4 DEF Requested, Asked
<1>6. db.task[m.lid.task].state = "running"
  BY <1>1, <1>5, AskedRuns
<1>. QED BY <1>1, <1>2, <1>6 DEF ReplyAdoptable

\* Opening a transaction and time passing change no row of the committed store.
LEMMA OpenChange ==
  ASSUME TypeInv
  PROVE  /\ AdvanceClock => TaskStep(disk, db') /\ Alike(disk, db') /\ disk' = db'
         /\ \A h, target, pc, after : Begin(h, target, pc, after) =>
              TaskStep(disk, db') /\ Alike(disk, db') /\ disk' = disk
<1>1. ASSUME NEW e, Alike(disk, e), e.mail = disk.mail
      PROVE  TaskStep(disk, e)
  <2>1. PICK t : t \in Tasks
    BY TasksAssumption
  <2>2. Change(disk, e, t) /\ NewMail(disk, e)
    BY <1>1, <2>1, AlikeIsChange, NoMessage
  <2>. QED BY <2>1, <2>2 DEF TaskStep
<1>2. ASSUME AdvanceClock
      PROVE  TaskStep(disk, db') /\ Alike(disk, db') /\ disk' = db'
  <2>. DEFINE e == [disk EXCEPT !.spoke = Scheduler]
  <2>1. Alike(disk, e) /\ e.mail = disk.mail
    BY DEF TypeInv, StoreType, Alike, Asked, Slots
  <2>. HIDE DEF e
  <2>2. TaskStep(disk, e)
    BY <1>1, <2>1
  <2>. QED BY <1>2, <2>1, <2>2 DEF AdvanceClock, e
<1>3. ASSUME NEW h, NEW target, NEW pc, NEW after, Begin(h, target, pc, after)
      PROVE  TaskStep(disk, db') /\ Alike(disk, db') /\ disk' = disk
  <2>. DEFINE e == Observed(disk)
  <2>1. Alike(disk, e) /\ e.mail = disk.mail
    BY DEF TypeInv, StoreType, Alike, Asked, Slots, Observed
  <2>. HIDE DEF e
  <2>2. TaskStep(disk, e)
    BY <1>1, <2>1
  <2>. QED BY <1>3, <2>1, <2>2 DEF Begin, e
<1>. QED BY <1>2, <1>3

\* An expiry is a change of one task.
LEMMA ExpiryChange ==
  ASSUME StepInv, NEW t \in Tasks, Expire(t)
  PROVE  TaskStep(db, db')
<1>. USE DEF StepInv, AuthorityInv, TypeInv
<1>1. Held(db, t) /\ AuthorityAt(db, t)
  BY DEF Expire, ProposalExpires, LeaseExpires, FirstExpired, Expired, Sound
<1>2. CASE ProposalExpires(t)
  <2>. DEFINE e == Withdrawn(db, t)
  <2>1. db.task[t].state # "running"
    BY <1>1, <1>2, ActivatedMeans DEF ProposalExpires, AuthorityAt
  <2>2. /\ e.mail = db.mail /\ e.reserved = db.reserved
        /\ e.lease[t] = NoLease
        /\ e.task[t].state = "ready"
        /\ e.task[t].outcome = db.task[t].outcome
        /\ e.task[t].attempt = db.lease[t].id.attempt - 1
        /\ e.task[t].fence = db.lease[t].id.fence - 1
        /\ \A u \in Tasks \ {t} : /\ e.task[u] = db.task[u]
                                  /\ e.lease[u] = db.lease[u]
    BY WithdrawnParts
  <2>3. db' = e
    BY <1>2 DEF ProposalExpires, Record
  <2>. HIDE DEF e
  <2>4. Withdrew(db, e, t) /\ Elsewhere(db, e, t)
    BY <1>1, <2>1, <2>2 DEF Withdrew, Elsewhere, Held, Asked, Slots
  <2>5. NewMail(db, e)
    BY <2>2, NoMessage
  <2>. QED BY <2>3, <2>4, <2>5 DEF TaskStep, Change
<1>3. CASE LeaseExpires(t)
  <2>. DEFINE out == Outstanding(db, db.lease[t].id)
              c == Closed(db, t, out)
  <2>1. out \in [AttemptResources -> Int]
    BY ReservedType
  <2>2. db.task[t].state = "running"
    BY <1>1, <1>3, ActivatedMeans DEF LeaseExpires, AuthorityAt
  <2>3. \/ SafeRetry(db, t) /\ \E reason : db' = Retried(c, t, reason)
        \/ \E reason : db' = Quarantined(c, t, reason)
    BY <1>3 DEF LeaseExpires, Record
  <2>. HIDE DEF c, out
  <2>4. ASSUME NEW e,
               \/ SafeRetry(db, t) /\ \E reason : e = Retried(c, t, reason)
               \/ \E reason : e = Quarantined(c, t, reason)
        PROVE  Change(db, e, t) /\ e.mail = db.mail
    BY <2>1, <2>2, <2>4, EndingChange DEF SafeRetry, c
  <2>5. \A e : Change(db, e, t) /\ e.mail = db.mail => TaskStep(db, e)
    BY NoMessage DEF TaskStep
  <2>. QED BY <2>3, <2>4, <2>5
<1>. QED BY <1>2, <1>3 DEF Expire

\* A readiness pass changes one task or nothing.
LEMMA RefreshChange ==
  ASSUME StepInv, NEW t \in Tasks, RefreshTask(t) \/ RetryWorktree(t)
  PROVE  db' = db \/ TaskStep(db, db')
<1>. USE DEF StepInv, AuthorityInv, TypeInv
<1>1. CASE RefreshTask(t)
  <2>1. Visit(IdOrder, t, RefreshChanges) /\ db' = Refreshed(db, t)
    BY <1>1 DEF RefreshTask
  <2>2. Refreshable(db, t)
    BY <2>1 DEF Visit, RefreshChanges
  <2>3. \E state \in Readiness : \E blockers :
          /\ state = "ready" => DependenciesMet(db, t)
          /\ db' = Readied(db, t, state, blockers)
    <3>1. CASE ~Terminal(db, t) /\ ~DependenciesMet(db, t)
      BY <2>1, <3>1 DEF Refreshed, Readiness
    <3>2. CASE Terminal(db, t)
      <4>1. LiveBlockers(db, t) # {}
        BY <3>2 DEF LiveBlockers
      <4>. QED BY <2>1, <3>2, <4>1 DEF Refreshed, Readiness
    <3>3. CASE DependenciesMet(db, t)
      BY <2>1, <3>3 DEF Refreshed, Readiness
    <3>. QED BY <3>1, <3>2, <3>3
  <2>4. ASSUME NEW state \in Readiness, NEW blockers, NEW e,
               state = "ready" => DependenciesMet(db, t),
               e = Readied(db, t, state, blockers)
        PROVE  TaskStep(db, e)
    <3>1. Change(db, e, t) /\ e.mail = db.mail
      BY <2>2, <2>4, ReadiedChange
    <3>. QED BY <3>1, NoMessage DEF TaskStep
  <2>. QED BY <2>3, <2>4
<1>2. CASE RetryWorktree(t)
  <2>1. Visit(DispatchOrder, t, BudgetBlockedWorktrees)
    BY <1>2 DEF RetryWorktree
  <2>2. /\ Held(db, t) /\ db.task[t].state = "running"
        /\ db.task[t].phase = "not_dispatched"
    BY <2>1 DEF Visit, BudgetBlockedWorktrees
  <2>3. db' = Resumed(db, t, now) \/ db' = db
    BY <1>2 DEF RetryWorktree
  <2>4. db.lease[t].id.task = t
    BY <2>2 DEF Sound, AuthorityAt
  <2>5. ASSUME NEW e, e = Resumed(db, t, now)
        PROVE  TaskStep(db, e)
    <3>1. /\ Change(db, e, t)
          /\ \A m \in e.mail : m \in db.mail \/ m.say.type = "dispatch_intent"
          /\ db.mail \subseteq e.mail
      BY <2>2, <2>4, <2>5, ResumedChange
    <3>. QED BY <3>1, NoMessage DEF TaskStep, Asking
  <2>. QED BY <2>3, <2>5
<1>. QED BY <1>1, <1>2

\* A cancellation request changes one task or nothing.
LEMMA CancelChange ==
  ASSUME StepInv, NEW t \in Tasks, Cancel(t)
  PROVE  db' = db \/ TaskStep(db, db')
<1>. USE DEF StepInv, AuthorityInv, TypeInv
<1>1. CASE CancelRefused(t) \/ CancelRepeated(t)
  BY <1>1 DEF CancelRefused, CancelRepeated
<1>2. CASE CancelRequested(t)
  <2>. DEFINE m == Outgoing([type |-> "cancel_request"], db.lease[t].id, now)
              row == [db.task[t] EXCEPT !.phase = "cancellation_requested"]
              e == [db EXCEPT !.mail = @ \cup {m},
                              !.task[t].phase = "cancellation_requested"]
  <2>1. /\ db' = e
        /\ Held(db, t) /\ db.task[t].state = "running"
    BY <1>2 DEF CancelRequested, Record, HoldsLease
  <2>2. db.task[t] \in TaskRows
    BY DEF StoreType
  <2>3. /\ row.state = db.task[t].state
        /\ row.outcome = db.task[t].outcome
        /\ row.attempt = db.task[t].attempt
        /\ row.fence = db.task[t].fence
        /\ row.phase = "cancellation_requested"
    BY <2>2 DEF TaskRows
  <2>4. m.say.type = "cancel_request" /\ m.lid = db.lease[t].id
    BY DEF Outgoing
  <2>5. /\ e.task = [db.task EXCEPT ![t] = row]
        /\ e.lease = db.lease /\ e.reserved = db.reserved
        /\ e.mail = db.mail \cup {m}
    BY DEF StoreType
  <2>6. db.lease[t].id.task = t
    BY <2>1 DEF Sound, AuthorityAt
  <2>. HIDE DEF m, row, e
  <2>7. e.task[t] = row /\ \A u \in Tasks \ {t} : e.task[u] = db.task[u]
    BY <2>5 DEF StoreType
  <2>8. \A u \in Tasks : Asked(e, u) = Asked(db, u)
    BY <2>4, <2>5 DEF Asked
  <2>9. Kept(db, e, t) /\ Elsewhere(db, e, t)
    BY <2>1, <2>3, <2>5, <2>7, <2>8
       DEF Kept, SameNumbers, Held, Slots, Elsewhere
  <2>10. Timely(db, e, m)
    BY <2>1, <2>3, <2>4, <2>6, <2>7 DEF Timely, EndsAttempt
  <2>11. NewMail(db, e)
    BY <2>5, <2>10, OneMessage
  <2>. QED BY <2>1, <2>9, <2>11 DEF TaskStep, Change
<1>. QED BY <1>1, <1>2 DEF Cancel

\* The Lease of a ready task: the one it holds, or a new one from now.
LEMMA TakesLease ==
  ASSUME StepInv, tx.pc # "idle", NEW t \in Tasks, db.task[t].state = "ready",
         NEW w, w = WithLease(db, t),
         NEW e, e.lease = w.lease, SameNumbers(w, e, t)
  PROVE  Takes(db, e, t)
<1>1. /\ Held(w, t)
      /\ w.lease[t].id = Proposed(db, t).id
      /\ w.task[t].attempt = Proposed(db, t).id.attempt
      /\ w.task[t].fence = Proposed(db, t).id.fence
  BY WithLeaseSound DEF StepInv, AuthorityInv
<1>. QED BY <1>1 DEF Takes, SameNumbers, Held, Proposed

\* A dispatch is a change of one task.
LEMMA DispatchChange ==
  ASSUME StepInv, NEW t \in Tasks, DispatchReady(t)
  PROVE  TaskStep(db, db')
<1>. USE DEF StepInv, AuthorityInv
<1>. DEFINE w == WithLease(db, t)
<1>1. Dispatching(t)
  BY DEF DispatchReady, BudgetBlocks, ApprovalBlocks, WorktreeBlocks,
         RequestWorktree, Dispatch
<1>2. db.task[t].state = "ready" /\ tx.pc # "idle"
  BY <1>1 DEF Dispatching, Visit, Dispatchable, InTx
<1>3. /\ StoreType(w) /\ Held(w, t)
      /\ w.lease[t].id = Proposed(db, t).id
      /\ w.task[t].outcome = db.task[t].outcome
      /\ w.mail = db.mail /\ w.reserved = db.reserved
      /\ \A u \in Tasks \ {t} : w.task[u] = db.task[u] /\ w.lease[u] = db.lease[u]
  BY <1>2, WithLeaseSound
<1>4. ASSUME NEW e, e.lease = w.lease, SameNumbers(w, e, t)
      PROVE  Takes(db, e, t)
  BY <1>2, <1>4, TakesLease
<1>5. w.consumed = db.consumed /\ Proposed(db, t).id \in LeaseIds
  BY <1>2, ProposedType
<1>6. w.lease[t].id \in LeaseIds /\ w.lease[t].id.task = t
  <2>1. Sound(w)
    BY <1>2, WithLeaseSound
  <2>. QED BY <1>3, <2>1, HeldType DEF Sound, AuthorityAt
<1>. HIDE DEF w
<1>7. CASE BudgetBlocks(t) \/ WorktreeBlocks(t)
  <2>1. Refreshable(db, t)
    BY <1>2 DEF Refreshable, Readiness
  <2>2. ASSUME NEW blockers, NEW e, e = Readied(db, t, "blocked", blockers)
        PROVE  TaskStep(db, e)
    <3>1. Change(db, e, t) /\ e.mail = db.mail
      BY <2>1, <2>2, ReadiedChange DEF Readiness, TypeInv
    <3>. QED BY <3>1, NoMessage DEF TaskStep
  <2>. QED BY <1>7, <2>2 DEF BudgetBlocks, WorktreeBlocks, Record
<1>8. CASE ApprovalBlocks(t)
  <2>. DEFINE e == Readied(w, t, "blocked", {"approval-required"})
  <2>1. db' = e
    BY <1>8 DEF ApprovalBlocks, Record, w
  <2>2. /\ e.lease = w.lease /\ e.mail = w.mail /\ e.reserved = w.reserved
        /\ e.task[t].state = "blocked"
        /\ e.task[t].outcome = w.task[t].outcome
        /\ SameNumbers(w, e, t)
        /\ \A u \in Tasks \ {t} : e.task[u] = w.task[u]
    BY <1>3, ReadiedParts DEF SameNumbers
  <2>. HIDE DEF e
  <2>3. Offered(db, e, t) /\ Elsewhere(db, e, t)
    BY <1>3, <1>4, <2>2 DEF Offered, Elsewhere, Asked, Slots
  <2>4. NewMail(db, e)
    BY <1>3, <2>2, NoMessage
  <2>. QED BY <2>1, <2>3, <2>4 DEF TaskStep, Change
<1>9. ASSUME NEW e, NEW m, Asking(m), m.lid = w.lease[t].id,
             e.lease = w.lease, e.mail = w.mail \cup {m},
             e.task[t].state = "running", e.task[t].outcome = "none",
             SameNumbers(w, e, t),
             \A u \in Tasks \ {t} : e.task[u] = w.task[u],
             Slots(e) = Slots(w) + 1, Cleared(t)
      PROVE  TaskStep(db, e)
  <2>1. /\ Asked(e, t) = Asked(db, t) \cup {m}
        /\ \A u \in Tasks \ {t} : Asked(e, u) = Asked(db, u)
    BY <1>3, <1>6, <1>9 DEF Asked, Asking
  <2>2. Started(db, e, t) /\ Elsewhere(db, e, t)
    <3>1. Slots(db) + 1 <= Limit["concurrency"]
      BY <1>9 DEF Cleared, BudgetAllows, Slots
    <3>. QED BY <1>3, <1>4, <1>9, <2>1, <3>1 DEF Started, Elsewhere, Slots
  <2>3. NewMail(db, e)
    BY <1>3, <1>9, NoMessage
  <2>. QED BY <2>2, <2>3 DEF TaskStep, Change
<1>10. CASE RequestWorktree(t)
  <2>. DEFINE id == Proposed(db, t).id
              d  == Moved(w, t, "running", "not_dispatched", "none", {})
              m  == Outgoing([type |-> "worktree_request"], id, now)
              e  == [d EXCEPT !.tree[t] = "requested",
                              !.reserved = SlotTaken(d),
                              !.mail = @ \cup {m}]
  <2>1. Cleared(t) /\ db' = e
    BY <1>10 DEF RequestWorktree, Record, w
  <2>2. Asking(m) /\ m.lid = w.lease[t].id
    BY <1>3 DEF Outgoing, Asking
  <2>3. /\ StoreType(d)
        /\ d.lease = w.lease /\ d.mail = w.mail /\ d.reserved = w.reserved
        /\ d.task[t].state = "running" /\ d.task[t].outcome = "none"
        /\ SameNumbers(w, d, t)
        /\ \A u \in Tasks \ {t} : d.task[u] = w.task[u]
    BY <1>3, MovedType, MovedParts DEF States, Phases, Outcomes, SameNumbers
  <2>4. SlotTaken(d)["concurrency"] = w.reserved["concurrency"] + 1
    BY <2>3 DEF SlotTaken, StoreType, Resources
  <2>. HIDE DEF d, m
  <2>5. /\ e.lease = w.lease /\ e.mail = w.mail \cup {m} /\ e.task = d.task
        /\ e.reserved = SlotTaken(d)
    BY <2>3 DEF StoreType
  <2>. HIDE DEF e
  <2>6. SameNumbers(w, e, t) /\ Slots(e) = Slots(w) + 1
    BY <2>3, <2>4, <2>5 DEF SameNumbers, Slots
  <2>. QED BY <1>9, <2>1, <2>2, <2>3, <2>5, <2>6
<1>11. CASE Dispatch(t)
  <2>. DEFINE id == Proposed(db, t).id
              d  == Moved(w, t, "running", "intent_pending", "none", {})
              e  == [d EXCEPT !.reserved = SlotTaken(d)]
              c  == Consumed(e, t, id, now)
              f  == Intent(c, t, id, now)
  <2>1. Cleared(t) /\ db' = f
    BY <1>11 DEF Dispatch, Record, w
  <2>2. /\ StoreType(d)
        /\ d.lease = w.lease /\ d.mail = w.mail /\ d.reserved = w.reserved
        /\ d.task[t].state = "running" /\ d.task[t].outcome = "none"
        /\ SameNumbers(w, d, t)
        /\ \A u \in Tasks \ {t} : d.task[u] = w.task[u]
    BY <1>3, MovedType, MovedParts DEF States, Phases, Outcomes, SameNumbers
  <2>3. d.consumed = db.consumed
    BY <1>3, <1>5 DEF Moved, StoreType
  <2>4. /\ SlotTaken(d) \in [Resources -> Int]
        /\ SlotTaken(d)["concurrency"] = w.reserved["concurrency"] + 1
    BY <2>2 DEF SlotTaken, StoreType, Resources
  <2>. HIDE DEF d
  <2>5. /\ StoreType(e) /\ e.task = d.task /\ e.lease = d.lease
        /\ e.mail = db.mail /\ e.consumed = db.consumed
        /\ e.reserved = SlotTaken(d)
    BY <1>3, <2>2, <2>3, <2>4 DEF StoreType
  <2>. HIDE DEF e, id
  <2>6. Approved(e, t, id, now)
    BY <2>1, <2>5, GrantsDepend DEF Cleared, Approved, id
  <2>7. /\ StoreType(c) /\ c.task = d.task /\ c.lease = d.lease
        /\ c.mail = db.mail /\ c.reserved = SlotTaken(d)
    BY <2>5, <2>6, ConsumedType, ConsumedParts
  <2>. HIDE DEF c
  <2>8. /\ f.task = d.task /\ f.lease = d.lease
        /\ f.reserved["concurrency"] = SlotTaken(d)["concurrency"]
        /\ \E m : /\ f.mail = db.mail \cup {m}
                  /\ m.say.type = "dispatch_intent" /\ m.lid = id
    BY <2>7, IntentParts
  <2>. HIDE DEF f
  <2>9. PICK m : /\ f.mail = db.mail \cup {m}
                 /\ m.say.type = "dispatch_intent" /\ m.lid = id
    BY <2>8
  <2>10. /\ SameNumbers(w, f, t) /\ Slots(f) = Slots(w) + 1
         /\ Asking(m) /\ m.lid = w.lease[t].id /\ f.mail = w.mail \cup {m}
    BY <1>3, <2>2, <2>4, <2>8, <2>9 DEF SameNumbers, Slots, Asking, id
  <2>. QED BY <1>9, <2>1, <2>2, <2>8, <2>10
<1>. QED BY <1>7, <1>8, <1>10, <1>11 DEF DispatchReady

\* What hosts and owners say changes nothing by being adopted.
LEMMA ReceivedAlike ==
  ASSUME StoreType(db), NEW m, m.say.type \in HostTypes
  PROVE  /\ Alike(db, Received(m))
         /\ Received(m).mail = db.mail \cup {m}
         /\ Received(m).tree = db.tree
<1>1. /\ Received(m).task = db.task /\ Received(m).lease = db.lease
      /\ Received(m).reserved = db.reserved /\ Received(m).mail = db.mail \cup {m}
      /\ Received(m).tree = db.tree
  BY DEF Received, StoreType
<1>2. \A u \in Tasks : Asked(Received(m), u) = Asked(db, u)
  BY <1>1 DEF Asked, HostTypes
<1>. QED BY <1>1, <1>2 DEF Alike, Slots

\* A message that ends no attempt is adopted at any time.
LEMMA HarmlessTimely ==
  ASSUME NEW d, NEW e, NEW m,
         m.say.type \in {"heartbeat", "approval_decision", "capability_observation"}
  PROVE  Timely(d, e, m)
BY DEF Timely, EndsAttempt

\* Of a reply, what is left to show is that the attempt it ends is over.
LEMMA ReplyTimely ==
  ASSUME StepInv, NEW m, Adopting(m), m.say.type \in HostTypes,
         ~Capability(m), ~Approval(m),
         NEW e, EndsAttempt(m) => ~Held(e, m.lid.task)
  PROVE  Timely(db, e, m)
<1>1. /\ m.lid.task \in Tasks
      /\ db.task[m.lid.task].state = "running"
      /\ db.lease[m.lid.task].id = m.lid
      /\ ~Conflicting(db, m)
      /\ db.task[m.lid.task].phase \in OpenPhases(m.say.type)
  BY AdoptingRuns
<1>2. m.say.type # "cancel_request"
  BY DEF HostTypes
<1>3. m.say.type = "task_result" =>
        db.task[m.lid.task].phase # "cancellation_requested"
  BY <1>1 DEF OpenPhases
<1>4. m.say.type = "dispatch_acknowledgement" =>
        \A n \in db.mail : n.say.type = m.say.type => n.lid # m.lid
  BY <1>1 DEF Conflicting
<1>. QED BY <1>1, <1>2, <1>3, <1>4 DEF Timely

\* The step of a reply, seen from the store it was adopted in.
LEMMA ReplyChange ==
  ASSUME StepInv, NEW m, Adopting(m), m.say.type \in HostTypes,
         ~Capability(m), ~Approval(m),
         NEW e, Change(Received(m), e, m.lid.task),
         Received(m).mail \subseteq e.mail,
         \A n \in e.mail : n \in Received(m).mail \/ Asking(n),
         EndsAttempt(m) => ~Held(e, m.lid.task)
  PROVE  TaskStep(db, e)
<1>1. Alike(db, Received(m)) /\ Received(m).mail = db.mail \cup {m}
  BY ReceivedAlike DEF StepInv, AuthorityInv, TypeInv
<1>2. m.lid.task \in Tasks
  BY AdoptingRuns
<1>3. Change(db, e, m.lid.task)
  BY <1>1, <1>2, AlikeChange
<1>4. Timely(db, e, m)
  BY ReplyTimely
<1>5. NewMail(db, e)
  BY <1>1, <1>4, OneMessage
<1>. QED BY <1>2, <1>3, <1>5 DEF TaskStep

\* A delivered message changes one task or nothing.
LEMMA IngestChange ==
  ASSUME StepInv, NEW m \in Deliverable, Ingest(m)
  PROVE  db' = db \/ TaskStep(db, db')
<1>. DEFINE t == m.lid.task
            r == Received(m)
            out == Outstanding(db, m.lid)
<1>. USE DEF StepInv, AuthorityInv
<1>1. ASSUME Adopting(m), m.say.type \in HostTypes
      PROVE  /\ Alike(db, r) /\ r.task = db.task /\ r.lease = db.lease
             /\ r.mail = db.mail \cup {m} /\ r.tree = db.tree
             /\ StoreType(r)
  BY <1>1, ReceivedAlike, AdoptingType DEF TypeInv, Alike
<1>2. ASSUME Adopting(m), m.say.type \in HostTypes, ~Capability(m)
      PROVE  /\ t \in Tasks /\ Held(r, t)
             /\ db.lease[t].id = m.lid /\ m.lid.task = t /\ m.lid \in LeaseIds
  BY <1>2, AdoptingType DEF TypeInv
<1>3. ASSUME Adopting(m), m.say.type \in HostTypes, ~Capability(m), ~Approval(m)
      PROVE  r.task[t].state = "running" /\ db.task[t].phase \in OpenPhases(m.say.type)
  BY <1>1, <1>3, AdoptingRuns
<1>4. out \in [AttemptResources -> Int] /\ Nothing \in [AttemptResources -> Int]
  BY ReservedType DEF TypeInv, Nothing
<1>5. ASSUME Adopting(m), m.say.type \in HostTypes, ~Capability(m), ~Approval(m),
             NEW e, Change(r, e, t), r.mail \subseteq e.mail,
             \A n \in e.mail : n \in r.mail \/ Asking(n),
             EndsAttempt(m) => ~Held(e, t)
      PROVE  TaskStep(db, e)
  <2>. HIDE DEF StepInv
  <2>. QED BY <1>5, ReplyChange
<1>. HIDE DEF r, out
\* A reply that ends the attempt.
<1>6. ASSUME Adopting(m), m.say.type \in HostTypes, ~Capability(m), ~Approval(m),
             NEW charge \in [AttemptResources -> Int], NEW c, c = Closed(r, t, charge),
             NEW e,
             \/ SafeRetry(db, t) /\ \E reason : e = Retried(c, t, reason)
             \/ \E reason : e = Quarantined(c, t, reason)
             \/ \E phase, blockers : e = Moved(c, t, "blocked", phase, "unknown", blockers)
             \/ \E state \in {"rejected", "superseded"}, outcome \in {"failed", "cancelled"} :
                   \E phase, blockers :
                  e = Moved(c, t, state, phase, outcome, blockers)
             \/ /\ Completes(r, r, t)
                /\ \E phase, blockers :
                     e = Moved(c, t, "completed", phase, "succeeded", blockers)
      PROVE  TaskStep(db, e)
  <2>1. /\ StoreType(r) /\ r.lease = db.lease /\ t \in Tasks
        /\ r.task[t].state = "running"
    BY <1>1, <1>2, <1>3, <1>6
  <2>2. SafeRetry(db, t) => t \in ReadOnly /\ r.lease[t].id.attempt < MaxAttempts[t]
    BY <2>1 DEF SafeRetry
  <2>3. Change(r, e, t) /\ e.mail = r.mail /\ ~Held(e, t)
    <3>. HIDE DEF t, StepInv, AuthorityInv
    <3>. QED BY <1>6, <2>1, <2>2, EndingChange
  <2>. QED BY <1>5, <1>6, <2>3
\* A store that differs from r in nothing but other tables of the same task.
<1>7. ASSUME Adopting(m), m.say.type \in HostTypes, ~Capability(m),
             r.task[t].state = "running",
             NEW e, e.mail = r.mail, Slots(e) = Slots(r),
             e.task[t].state = r.task[t].state,
             e.task[t].attempt = r.task[t].attempt,
             e.task[t].fence = r.task[t].fence,
             e.task[t].outcome = r.task[t].outcome,
             e.task[t].phase = r.task[t].phase
               \/ r.task[t].phase # "cancellation_requested",
             Held(e, t), e.lease[t].id = r.lease[t].id,
             \A u \in Tasks \ {t} : e.task[u] = r.task[u] /\ e.lease[u] = r.lease[u]
      PROVE  Change(r, e, t)
  <2>1. Kept(r, e, t)
    BY <1>2, <1>7 DEF Kept, SameNumbers, Asked
  <2>2. Elsewhere(r, e, t)
    BY <1>7 DEF Elsewhere, Asked
  <2>. QED BY <2>1, <2>2 DEF Change
<1>8. CASE Redelivered(m) \/ ResultRaises(m)
  BY <1>8 DEF Redelivered, ResultRaises
<1>9. CASE Reject(m)
  <2>. DEFINE e == [db EXCEPT !.rejected = @ \cup {m}]
  <2>1. Alike(db, e) /\ e.mail = db.mail
    BY DEF TypeInv, StoreType, Alike, Asked, Slots
  <2>2. db' = e
    BY <1>9 DEF Reject
  <2>. HIDE DEF e
  <2>3. PICK u : u \in Tasks
    BY TasksAssumption
  <2>4. Change(db, e, u) /\ NewMail(db, e)
    BY <2>1, <2>3, AlikeIsChange, NoMessage
  <2>. QED BY <2>2, <2>3, <2>4 DEF TaskStep
<1>10. CASE CapabilityObserved(m)
  <2>. DEFINE e == [r EXCEPT !.caps[m.sender] = m.say.caps,
                             !.registered = @ \cup {m.sender}]
  <2>1. Adopting(m) /\ m.say.type = "capability_observation" /\ m.say.type \in HostTypes
    BY <1>10 DEF CapabilityObserved, Capability, HostTypes
  <2>2. db' = e
    BY <1>10 DEF CapabilityObserved, r
  <2>3. /\ e.task = r.task /\ e.lease = r.lease /\ e.reserved = r.reserved
        /\ e.mail = r.mail
    BY <1>1, <2>1 DEF StoreType
  <2>. HIDE DEF e
  <2>4. Alike(db, e) /\ e.mail = db.mail \cup {m}
    BY <1>1, <2>1, <2>3 DEF Alike, Asked, Slots
  <2>5. PICK u : u \in Tasks
    BY TasksAssumption
  <2>6. Change(db, e, u)
    BY <2>4, <2>5, AlikeIsChange
  <2>7. NewMail(db, e)
    BY <2>1, <2>4, HarmlessTimely, OneMessage
  <2>. QED BY <2>2, <2>5, <2>6, <2>7 DEF TaskStep
<1>11. CASE ApprovalReceived(m)
  <2>1. /\ Adopting(m) /\ m.say.type \in HostTypes /\ ~Capability(m)
        /\ m.say.type = "approval_decision"
        /\ db' = IF r.tree[t] = "observed" /\ r.task[t].phase = "not_dispatched"
                   THEN Resumed(r, t, now) ELSE r
    BY <1>11 DEF ApprovalReceived, Approval, Capability, HostTypes, r
  <2>2. AuthorityAt(db, t) /\ t \in Tasks
    BY <1>2, <2>1 DEF Sound
  <2>3. r.tree[t] = "observed" => r.task[t].state = "running"
    BY <1>1, <2>1, <2>2 DEF AuthorityAt
  <2>4. ASSUME NEW e, Change(r, e, t), r.mail \subseteq e.mail,
               \A n \in e.mail : n \in r.mail \/ Asking(n)
        PROVE  TaskStep(db, e)
    <3>1. Change(db, e, t)
      BY <1>1, <2>1, <2>2, <2>4, AlikeChange
    <3>2. NewMail(db, e)
      BY <1>1, <2>1, <2>4, HarmlessTimely, OneMessage
    <3>. QED BY <2>2, <3>1, <3>2 DEF TaskStep
  <2>5. CASE r.tree[t] = "observed" /\ r.task[t].phase = "not_dispatched"
    <3>1. /\ Held(r, t) /\ r.lease[t].id.task = t /\ StoreType(r)
      BY <1>1, <1>2, <2>1
    <3>2. ASSUME NEW e, e = Resumed(r, t, now)
          PROVE  TaskStep(db, e)
      <4>1. /\ Change(r, e, t) /\ r.mail \subseteq e.mail
            /\ \A n \in e.mail : n \in r.mail \/ n.say.type = "dispatch_intent"
        <5>. HIDE DEF t
        <5>. QED BY <2>2, <2>3, <2>5, <3>1, <3>2, ResumedChange DEF TypeInv
      <4>. QED BY <2>4, <4>1 DEF Asking
    <3>. QED BY <2>1, <2>5, <3>2
  <2>6. CASE ~(r.tree[t] = "observed" /\ r.task[t].phase = "not_dispatched")
    <3>1. Alike(r, r)
      BY DEF Alike
    <3>2. Change(r, r, t)
      BY <2>2, <3>1, AlikeIsChange
    <3>3. db' = r
      BY <2>1, <2>6
    <3>. QED BY <2>4, <3>2, <3>3
  <2>. QED BY <2>5, <2>6
<1>12. CASE DispatchAccepted(m)
  <2>. DEFINE row == [r.task[t] EXCEPT !.phase = "accepted"]
              e == [r EXCEPT !.task[t].phase = "accepted",
                             !.reserved["context_bytes"] = @ - out["context_bytes"],
                             !.used["context_bytes"] = @ + out["context_bytes"]]
  <2>1. /\ Adopting(m) /\ m.say.type \in HostTypes /\ ~Capability(m) /\ ~Approval(m)
        /\ m.say.type = "dispatch_acknowledgement" /\ m.say.accepted
    BY <1>12 DEF DispatchAccepted, Capability, Approval, HostTypes
  <2>2. db' = e
    BY <1>12 DEF DispatchAccepted, Adopt, r, out
  <2>3. /\ r.task[t] \in TaskRows /\ StoreType(r) /\ t \in Tasks /\ Held(r, t)
        /\ r.task[t].phase = "intent_pending" /\ r.task[t].state = "running"
    BY <1>1, <1>2, <1>3, <2>1 DEF StoreType, OpenPhases
  <2>4. /\ row.state = r.task[t].state
        /\ row.outcome = r.task[t].outcome
        /\ row.attempt = r.task[t].attempt
        /\ row.fence = r.task[t].fence
    BY <2>3 DEF TaskRows
  <2>5. /\ e.task = [r.task EXCEPT ![t] = row]
        /\ e.lease = r.lease /\ e.mail = r.mail
    BY <2>3 DEF StoreType
  <2>6. e.reserved["concurrency"] = r.reserved["concurrency"]
    BY <2>3 DEF StoreType, Resources
  <2>. HIDE DEF e, row
  <2>7. e.task[t] = row /\ \A u \in Tasks \ {t} : e.task[u] = r.task[u]
    BY <2>3, <2>5 DEF StoreType
  <2>8. Change(r, e, t)
    BY <1>7, <2>1, <2>3, <2>4, <2>5, <2>6, <2>7 DEF Slots, Held
  <2>9. ~EndsAttempt(m)
    BY <2>1 DEF EndsAttempt
  <2>. QED BY <1>5, <2>1, <2>2, <2>5, <2>8, <2>9
<1>13. CASE Heartbeat(m)
  <2>. DEFINE row == [id |-> m.lid, expires |-> now + Ttl]
              e == [r EXCEPT !.lease[t] = row, !.history = @ \cup {row}]
  <2>1. /\ Adopting(m) /\ m.say.type \in HostTypes /\ ~Capability(m) /\ ~Approval(m)
        /\ m.say.type = "heartbeat"
    BY <1>13 DEF Heartbeat, Capability, Approval, HostTypes
  <2>2. db' = e
    BY <1>13 DEF Heartbeat, Adopt, r
  <2>3. /\ StoreType(r) /\ t \in Tasks /\ r.task[t].state = "running"
        /\ m.lid \in LeaseIds /\ r.lease[t].id = m.lid
    BY <1>1, <1>2, <1>3, <2>1
  <2>4. row # NoLease /\ row.id = m.lid
    BY <2>3, NoLeaseAssumption, BudgetAssumption DEF LeaseRows, TypeInv
  <2>. HIDE DEF row
  <2>5. /\ e.lease = [r.lease EXCEPT ![t] = row]
        /\ e.task = r.task /\ e.mail = r.mail /\ e.reserved = r.reserved
    BY <2>3 DEF StoreType
  <2>. HIDE DEF e
  <2>6. e.lease[t] = row /\ \A u \in Tasks \ {t} : e.lease[u] = r.lease[u]
    BY <2>3, <2>5 DEF StoreType
  <2>7. Change(r, e, t)
    BY <1>7, <2>1, <2>3, <2>4, <2>5, <2>6 DEF Slots, Held
  <2>8. ~EndsAttempt(m)
    BY <2>1 DEF EndsAttempt
  <2>. QED BY <1>5, <2>1, <2>2, <2>5, <2>7, <2>8
<1>14. CASE DispatchRejected(m)
  <2>1. /\ Adopting(m) /\ m.say.type \in HostTypes /\ ~Capability(m) /\ ~Approval(m)
        /\ \/ /\ SafeRetry(db, t)
              /\ \E reason : db' = Retried(Closed(r, t, Nothing), t, reason)
           \/ \E reason : db' = Quarantined(Closed(r, t, Nothing), t, reason)
    BY <1>14 DEF DispatchRejected, Capability, Approval, HostTypes, Adopt, r
  <2>. QED BY <1>4, <1>6, <2>1
<1>15. CASE CancelAcknowledged(m)
  <2>1. /\ Adopting(m) /\ m.say.type \in HostTypes /\ ~Capability(m) /\ ~Approval(m)
        /\ \/ db' = Moved(Closed(r, t, out), t, "superseded",
                          "cancellation_acknowledged", "cancelled",
                          {"cancellation-acknowledged"})
           \/ db' = Moved(Closed(r, t, out), t, "blocked",
                          "cancellation_requested", "unknown",
                          {"cancellation-ambiguous"})
    BY <1>15 DEF CancelAcknowledged, Capability, Approval, HostTypes, Adopt, r, out
  <2>. QED BY <1>4, <1>6, <2>1
<1>16. CASE WorktreeObserved(m)
  <2>. DEFINE e == [r EXCEPT !.tree[t] = "observed"]
  <2>1. /\ Adopting(m) /\ m.say.type \in HostTypes /\ ~Capability(m) /\ ~Approval(m)
        /\ m.say.type = "worktree_observation"
    BY <1>16 DEF WorktreeObserved, Capability, Approval, HostTypes
  <2>2. \/ \E reason : db' = Quarantined(Closed(r, t, Nothing), t, reason)
        \/ /\ m.say.worktree \notin {"ambiguous", "integrated"}
           /\ db' = Resumed(e, t, now)
    BY <1>16 DEF WorktreeObserved, Adopt, r
  <2>3. /\ StoreType(r) /\ t \in Tasks /\ Held(r, t) /\ r.task[t].state = "running"
        /\ r.task[t].phase = "not_dispatched" /\ r.lease[t].id.task = t
    BY <1>1, <1>2, <1>3, <2>1 DEF OpenPhases
  <2>4. /\ e.task = r.task /\ e.lease = r.lease /\ e.mail = r.mail
        /\ e.reserved = r.reserved /\ StoreType(e)
    BY <2>3 DEF StoreType
  <2>. HIDE DEF e
  <2>5. ASSUME m.say.worktree \notin {"ambiguous", "integrated"},
               NEW x, x = Resumed(e, t, now)
        PROVE  TaskStep(db, x)
    <3>1. /\ Change(e, x, t) /\ e.mail \subseteq x.mail
          /\ \A n \in x.mail : n \in e.mail \/ n.say.type = "dispatch_intent"
      <4>. HIDE DEF t
      <4>. QED BY <2>3, <2>4, <2>5, ResumedChange DEF TypeInv, Held
    <3>2. Alike(r, e)
      BY <2>4 DEF Alike, Asked, Slots
    <3>3. Change(r, x, t)
      BY <2>3, <3>1, <3>2, AlikeChange
    <3>4. ~EndsAttempt(m)
      BY <2>1, <2>5 DEF EndsAttempt
    <3>. QED BY <1>5, <2>1, <2>4, <3>1, <3>3, <3>4 DEF Asking
  <2>. QED BY <1>4, <1>6, <2>1, <2>2, <2>5
<1>17. ASSUME ResultSucceeded(m) \/ ResultUnsuccessful(m)
       PROVE  TaskStep(db, db')
  <2>1. /\ Adopting(m) /\ m.say.type = "task_result" /\ m \in Messages
        /\ m.say.type \in HostTypes /\ ~Capability(m) /\ ~Approval(m)
    BY <1>17, AdoptingType DEF ResultSucceeded, ResultUnsuccessful, HostTypes,
                               Capability, Approval
  <2>2. m.say.usage \in [AttemptResources -> Nat]
    BY <2>1, HostWords, VocabularyAssumption
  <2>3. Charge(m) \in [AttemptResources -> Int]
    <3>. HIDE DEF StepInv, AuthorityInv
    <3>1. Outstanding(db, m.lid)["context_bytes"] \in Int
      BY <1>4 DEF out, AttemptResources
    <3>. QED BY <2>2, <3>1 DEF Charge, AttemptResources
  <2>. DEFINE c == Closed(r, t, Charge(m))
  <2>4. r.task = c.task /\ m \in r.mail /\ r.lease[t].id = m.lid
    <3>1. /\ StoreType(r) /\ t \in Tasks /\ m \in r.mail /\ r.lease = db.lease
          /\ db.lease[t].id = m.lid
      BY <1>1, <1>2, <2>1
    <3>2. c.task = r.task
      BY <3>1 DEF Closed, StoreType
    <3>. QED BY <3>1, <3>2
  <2>5. CASE ResultSucceeded(m)
    <3>1. db' = Verified(c, t, m) /\ m.say.outcome = "succeeded"
      BY <2>5 DEF ResultSucceeded, Adopt, r, c
    <3>2. \/ \E phase, blockers : db' = Moved(c, t, "blocked", phase, "unknown", blockers)
          \/ /\ m.say.evidence
             /\ \A u \in ReviewTargets[t] : c.task[u].state = "completed"
             /\ db' = Moved(c, t, "completed", "accepted", "succeeded", {})
      BY <3>1 DEF Verified
    <3>3. \/ \E phase, blockers : db' = Moved(c, t, "blocked", phase, "unknown", blockers)
          \/ /\ Completes(r, r, t)
             /\ \E phase, blockers :
                  db' = Moved(c, t, "completed", phase, "succeeded", blockers)
      BY <2>1, <2>4, <3>1, <3>2 DEF Completes
    <3>. QED BY <1>6, <2>1, <2>3, <3>3
  <2>6. CASE ResultUnsuccessful(m)
    <3>1. \/ SafeRetry(db, t) /\ \E reason : db' = Retried(c, t, reason)
          \/ \E reason : db' = Quarantined(c, t, reason)
          \/ db' = Moved(c, t, "rejected", "not_dispatched", "failed",
                         {"unambiguous-failure"})
      BY <2>6 DEF ResultUnsuccessful, Adopt, r, c
    <3>. QED BY <1>6, <2>1, <2>3, <3>1
  <2>. QED BY <1>17, <2>5, <2>6
<1>. QED BY <1>8, <1>9, <1>10, <1>11, <1>12, <1>13, <1>14, <1>15, <1>16, <1>17 DEF Ingest

\* The committed store stays, or becomes what the transaction made of it; the
\* working copy stays, starts over, or takes one step.
LEMMA StoreStep ==
  ASSUME StepInv, [Next]_vars
  PROVE  /\ \/ disk' = disk /\ db' \in {db, disk}
            \/ disk' = disk /\ TaskStep(db, db')
            \/ disk' = db /\ db' = db
            \/ disk' \in {disk, db'} /\ TaskStep(disk, db') /\ Alike(disk, db')
         /\ now' \in {now, now + 1}
<1>. USE DEF StepInv, AuthorityInv
<1>1. CASE UNCHANGED vars
  BY <1>1 DEF vars
<1>2. CASE AdvanceClock \/ \E h \in Hosts : BeginTick(h)
  BY <1>2, OpenChange DEF BeginTick, AdvanceClock, Begin
<1>3. CASE \E h \in Hosts, t \in Tasks : BeginCancelCheck(h, t) \/ BeginCancel(h, t)
  <2>1. \E h, target, pc, after : Begin(h, target, pc, after)
    BY <1>3 DEF BeginCancelCheck, BeginCancel
  <2>. QED BY <2>1, OpenChange DEF Begin
<1>4. CASE \E t \in Tasks : Expire(t) \/ RefreshTask(t) \/ RetryWorktree(t)
                            \/ DispatchReady(t) \/ Cancel(t)
  <2>. PICK t \in Tasks : \/ Expire(t) \/ RefreshTask(t) \/ RetryWorktree(t)
                          \/ DispatchReady(t) \/ Cancel(t)
    BY <1>4
  <2>1. disk' = disk /\ now' = now
    BY DEF Expire, ProposalExpires, LeaseExpires, RefreshTask, RetryWorktree,
           DispatchReady, Dispatching, BudgetBlocks, ApprovalBlocks, WorktreeBlocks,
           RequestWorktree, Dispatch, Cancel, CancelRefused, CancelRepeated,
           CancelRequested
  <2>2. db' = db \/ TaskStep(db, db')
    <3>. HIDE DEF StepInv
    <3>. QED BY ExpiryChange, RefreshChange, DispatchChange, CancelChange
  <2>. QED BY <2>1, <2>2
<1>5. CASE \E m \in Deliverable : Ingest(m)
  <2>. PICK m \in Deliverable : Ingest(m)
    BY <1>5
  <2>1. disk' = disk /\ now' = now
    BY DEF Ingest, Redelivered, Reject, CapabilityObserved, ApprovalReceived,
           DispatchAccepted, DispatchRejected, Heartbeat, ResultRaises,
           ResultSucceeded, ResultUnsuccessful, CancelAcknowledged,
           WorktreeObserved, Adopt
  <2>2. db' = db \/ TaskStep(db, db')
    <3>. HIDE DEF StepInv
    <3>. QED BY IngestChange
  <2>. QED BY <2>1, <2>2
<1>6. CASE ExpiryDone \/ IngestDone \/ RefreshDone \/ RetryDone \/ DispatchDone
  BY <1>6 DEF ExpiryDone, IngestDone, RefreshDone, RetryDone, DispatchDone
<1>7. CASE Commit \/ Abort \/ Crash
  BY <1>7 DEF Commit, Abort, Crash
<1>. QED BY <1>1, <1>2, <1>3, <1>4, <1>5, <1>6, <1>7 DEF Next, Work, Call

\* Every answer the store holds keeps the request it answers.
LEMMA RequestedKept ==
  ASSUME NEW d, NEW e, StoreType(d), Sound(d), Requested(d), TaskStep(d, e)
  PROVE  Requested(e)
<1>1. PICK t \in Tasks : Change(d, e, t)
  BY DEF TaskStep
<1>2. \A u \in Tasks : Asked(d, u) \subseteq Asked(e, u)
  BY <1>1 DEF Change, Elsewhere, Kept, Reconsidered, Offered, Started, Finished,
              Withdrew
<1>3. ASSUME NEW m \in e.mail, m.say.type = "cancel_request", m \notin d.mail
      PROVE  \E u \in Tasks : \E n \in Asked(d, u) : n.lid = m.lid
  <2>1. /\ m.lid.task \in Tasks /\ d.task[m.lid.task].state = "running"
        /\ d.lease[m.lid.task].id = m.lid
    BY <1>3 DEF TaskStep, NewMail, Timely
  <2>. QED BY <2>1 DEF Sound, AuthorityAt
<1>. QED BY <1>2, <1>3 DEF Requested

\* The three invariants the description of a step rests on hold together.
LEMMA StepInvariant == Spec => []StepInv
<1>1. Init => Requested(disk) /\ Requested(db)
  <2>1. EmptyStore.mail = {}
    BY DEF EmptyStore
  <2>. QED BY <2>1 DEF Init, Requested
<1>2. StepInv /\ AuthorityInv' /\ [Next]_vars => Requested(disk)' /\ Requested(db)'
  <2>. SUFFICES ASSUME StepInv, [Next]_vars
                PROVE  Requested(disk') /\ Requested(db')
    OBVIOUS
  <2>1. /\ StoreType(disk) /\ StoreType(db) /\ Sound(disk) /\ Sound(db)
        /\ Requested(disk) /\ Requested(db)
    BY DEF StepInv, AuthorityInv, TypeInv
  <2>. QED BY <2>1, StoreStep, RequestedKept
<1>. QED BY <1>1, <1>2, AuthorityInvariant, PTL DEF Spec, StepInv

-----------------------------------------------------------------------------
\* What the invariants below say of one task.

\* The Leases of task t under which hosts were asked for something.
Ids(d, t) == {m.lid : m \in Asked(d, t)}

\* A proposal is pending: t holds a Lease and does not run.
Pending(d, t) == Held(d, t) /\ d.task[t].state # "running"

\* Rows that fit together.
RowOf(d, t) ==
  /\ d.task[t].outcome = "unknown" => d.task[t].state = "blocked"
  /\ Settled(d, t) => ~Held(d, t)

\* Numbers, Leases and times grow together.
NumberedOf(d, t, clock) ==
  /\ d.task[t].attempt = d.task[t].fence
  /\ \A m \in Asked(d, t) : m.lid.fence = m.lid.attempt /\ m.lid.acquired <= clock
  /\ Held(d, t) =>
       /\ d.lease[t].id.acquired <= clock
       /\ \A m \in Asked(d, t) :
            /\ m.lid.acquired <= d.lease[t].id.acquired
            /\ m.lid.attempt = d.lease[t].id.attempt => m.lid = d.lease[t].id
  /\ \A m, n \in Asked(d, t) :
       /\ m.lid.attempt = n.lid.attempt => m.lid = n.lid
       /\ m.lid.attempt < n.lid.attempt => m.lid.acquired <= n.lid.acquired

\* A task with effects that was started once runs, or is over.
OnceOf(d, t) ==
  t \notin ReadOnly =>
    /\ Asked(d, t) # {} => d.task[t].state = "running" \/ Settled(d, t)
    /\ \A m, n \in Asked(d, t) : m.lid = n.lid

\* The attempt number counts the Leases, and a task that may be proposed has
\* an attempt left.
CountedOf(d, t) ==
  /\ IsFiniteSet(Ids(d, t))
  /\ d.task[t].attempt = Cardinality(Ids(d, t)) + (IF Pending(d, t) THEN 1 ELSE 0)
  /\ d.task[t].attempt <= MaxAttempts[t]
  /\ Refreshable(d, t) /\ ~Held(d, t) => d.task[t].attempt < MaxAttempts[t]

\* What a task waits for is done before it is ready, and from then on.
WaitedOf(d, t) ==
  d.task[t].state = "ready" \/ Held(d, t) \/ Asked(d, t) # {} => DependenciesMet(d, t)

ProvedOf(d, t) ==
  d.task[t].state = "completed" =>
    /\ \A u \in ReviewTargets[t] : d.task[u].state = "completed"
    /\ \E m \in d.mail :
         /\ m.say.type = "task_result" /\ m.say.outcome = "succeeded"
         /\ m.say.evidence
         /\ m.lid.task = t /\ m.lid.fence = d.task[t].fence

AttemptsOf(d, t, clock) ==
  /\ RowOf(d, t) /\ NumberedOf(d, t, clock) /\ OnceOf(d, t)
  /\ CountedOf(d, t) /\ WaitedOf(d, t) /\ ProvedOf(d, t)

SlotsOf(d) == Slots(d) = Cardinality(Running(d))

Ledger(d, clock) == SlotsOf(d) /\ \A t \in Tasks : AttemptsOf(d, t, clock)

-----------------------------------------------------------------------------
\* Facts that hold of one store.

\* The columns of a task row that the arithmetic below is about.
LEMMA RowTypes ==
  ASSUME NEW d, StoreType(d), NEW t \in Tasks
  PROVE  /\ d.task[t] \in TaskRows
         /\ d.task[t].attempt \in Nat /\ d.task[t].fence \in Nat
         /\ Held(d, t) => d.lease[t].id \in LeaseIds
         /\ \A m \in Asked(d, t) : m \in d.mail /\ m.lid \in LeaseIds /\ m.lid.task = t
<1>1. d.task[t] \in TaskRows
  BY DEF StoreType
<1>. QED BY <1>1, HeldType DEF TaskRows, Asked

\* The fields of a lease identity.
LEMMA IdTypes ==
  ASSUME NEW id \in LeaseIds
  PROVE  id.attempt \in Nat /\ id.fence \in Nat /\ id.acquired \in Nat /\ id.task \in Tasks
BY DEF LeaseIds

\* A running task was asked under the Lease it holds, a pending one was not.
LEMMA AskedUnder ==
  ASSUME NEW d, StoreType(d), Sound(d), NEW t \in Tasks
  PROVE  /\ d.task[t].state = "running" =>
              Held(d, t) /\ d.lease[t].id \in Ids(d, t)
         /\ Held(d, t) => /\ d.lease[t].id.task = t
                          /\ d.lease[t].id.attempt = d.task[t].attempt
                          /\ d.lease[t].id.fence = d.task[t].fence
         /\ \A m \in Asked(d, t) : m.lid.attempt <= d.task[t].attempt
         /\ Pending(d, t) => \A m \in Asked(d, t) : m.lid.attempt < d.task[t].attempt
BY DEF Sound, AuthorityAt, Ids, Pending

\* Completed is final.
LEMMA CompletedStays ==
  ASSUME NEW d, NEW e, NEW t \in Tasks, Change(d, e, t), RowOf(d, t),
         NEW u \in Tasks, d.task[u].state = "completed"
  PROVE  e.task[u].state = "completed"
<1>1. CASE u # t
  BY <1>1 DEF Change, Elsewhere
<1>2. CASE u = t
  BY <1>2 DEF Change, Kept, Reconsidered, Offered, Started, Finished, Withdrew,
              Takes, Refreshable, Readiness, RowOf, Settled
<1>. QED BY <1>1, <1>2

\* What is settled is not touched.
LEMMA SettledKeeps ==
  ASSUME NEW d, NEW e, NEW t \in Tasks, Change(d, e, t), RowOf(d, t),
         NEW u \in Tasks, Settled(d, u)
  PROVE  /\ e.task[u] = d.task[u] /\ Asked(e, u) = Asked(d, u)
         /\ Held(e, u) => Held(d, u)
<1>1. CASE u # t
  BY <1>1 DEF Change, Elsewhere, Held
<1>2. CASE u = t
  BY <1>2 DEF Change, Kept, Reconsidered, Offered, Started, Finished, Withdrew,
              Takes, Refreshable, Readiness, RowOf, Settled
<1>. QED BY <1>1, <1>2

-----------------------------------------------------------------------------
\* Every change of a task keeps what is said of it.

\* A step keeps a row in one of its legal shapes.
LEMMA RowKept ==
  ASSUME NEW d, NEW e, NEW t \in Tasks, Change(d, e, t), RowOf(d, t),
         StoreType(d), Sound(d)
  PROVE  RowOf(e, t)
<1>1. CASE Kept(d, e, t)
  BY <1>1 DEF Kept, RowOf, Settled
<1>2. CASE Reconsidered(d, e, t)
  BY <1>2 DEF Reconsidered, RowOf, Settled, Refreshable, Readiness, Held
<1>3. CASE Offered(d, e, t)
  BY <1>3 DEF Offered, Takes, RowOf, Settled
<1>4. CASE Started(d, e, t)
  BY <1>4 DEF Started, Takes, RowOf, Settled
<1>5. CASE Finished(d, e, t)
  BY <1>5 DEF Finished, RowOf, Settled
<1>6. CASE Withdrew(d, e, t)
  BY <1>6 DEF Withdrew, RowOf, Settled
<1>. QED BY <1>1, <1>2, <1>3, <1>4, <1>5, <1>6 DEF Change

\* A step starts a task with effects at most once.
LEMMA OnceKept ==
  ASSUME NEW d, NEW e, NEW t \in Tasks, Change(d, e, t), RowOf(d, t), OnceOf(d, t),
         StoreType(d), Sound(d)
  PROVE  OnceOf(e, t)
<1>. SUFFICES ASSUME t \notin ReadOnly
              PROVE  /\ Asked(e, t) # {} =>
                          e.task[t].state = "running" \/ Settled(e, t)
                     /\ \A m, n \in Asked(e, t) : m.lid = n.lid
  BY DEF OnceOf
<1>0. /\ d.task[t].state = "running" => Held(d, t) /\ d.lease[t].id \in Ids(d, t)
      /\ Asked(d, t) # {} => d.task[t].state = "running" \/ Settled(d, t)
      /\ \A m, n \in Asked(d, t) : m.lid = n.lid
      /\ Settled(d, t) => ~Held(d, t)
  BY AskedUnder DEF OnceOf, RowOf
<1>1. CASE Kept(d, e, t)
  <2>1. CASE d.task[t].state = "running"
    <3>1. PICK k \in Asked(d, t) : k.lid = d.lease[t].id
      BY <1>0, <2>1 DEF Ids
    <3>2. \A m \in Asked(e, t) : m.lid = k.lid
      BY <1>0, <1>1, <3>1 DEF Kept
    <3>. QED BY <1>1, <2>1, <3>2 DEF Kept
  <2>2. CASE d.task[t].state # "running"
    BY <1>0, <1>1, <2>2 DEF Kept, Settled
  <2>. QED BY <2>1, <2>2
<1>2. CASE Reconsidered(d, e, t)
  BY <1>0, <1>2 DEF Reconsidered, Settled, Refreshable, Readiness
<1>3. CASE Offered(d, e, t) \/ Started(d, e, t)
  BY <1>0, <1>3 DEF Offered, Started, Takes, Settled
<1>4. CASE Finished(d, e, t)
  BY <1>0, <1>4 DEF Finished, Settled
<1>5. CASE Withdrew(d, e, t)
  BY <1>0, <1>5 DEF Withdrew
<1>. QED BY <1>1, <1>2, <1>3, <1>4, <1>5 DEF Change

\* A step lets numbers, Leases and times grow together.
LEMMA NumberedKept ==
  ASSUME NEW d, NEW e, NEW t \in Tasks, Change(d, e, t), NumberedOf(d, t, now),
         StoreType(d), Sound(d), now \in Nat
  PROVE  NumberedOf(e, t, now)
<1>0. /\ d.task[t].attempt \in Nat /\ d.task[t].fence \in Nat
      /\ Held(d, t) => d.lease[t].id \in LeaseIds
      /\ \A m \in Asked(d, t) : m.lid \in LeaseIds
      /\ \A m \in Asked(d, t) : m.lid.attempt \in Nat /\ m.lid.acquired \in Nat
      /\ Held(d, t) => /\ d.lease[t].id.attempt \in Nat
                       /\ d.lease[t].id.acquired \in Nat
                       /\ d.lease[t].id.fence \in Nat
  BY RowTypes, IdTypes
<1>1. /\ d.task[t].state = "running" => Held(d, t) /\ d.lease[t].id \in Ids(d, t)
      /\ Held(d, t) => /\ d.lease[t].id.attempt = d.task[t].attempt
                       /\ d.lease[t].id.fence = d.task[t].fence
      /\ \A m \in Asked(d, t) : m.lid.attempt <= d.task[t].attempt
      /\ Pending(d, t) => \A m \in Asked(d, t) : m.lid.attempt < d.task[t].attempt
  BY AskedUnder
<1>2. CASE Kept(d, e, t)
  <2>1. CASE d.task[t].state = "running"
    <3>1. PICK k \in Asked(d, t) : k.lid = d.lease[t].id
      BY <1>1, <2>1 DEF Ids
    <3>2. \A m \in Asked(e, t) : \E n \in Asked(d, t) : n.lid = m.lid
      BY <1>2, <3>1 DEF Kept
    <3>3. /\ Held(e, t) /\ e.lease[t].id = d.lease[t].id
          /\ e.task[t].attempt = d.task[t].attempt /\ e.task[t].fence = d.task[t].fence
      BY <1>1, <1>2, <2>1 DEF Kept, SameNumbers
    <3>. QED BY <1>1, <2>1, <3>2, <3>3 DEF NumberedOf
  <2>2. CASE d.task[t].state # "running"
    BY <1>2, <2>2 DEF Kept, NumberedOf
  <2>. QED BY <2>1, <2>2
<1>3. CASE Reconsidered(d, e, t)
  BY <1>3 DEF Reconsidered, SameNumbers, NumberedOf, Held
<1>4. ASSUME Takes(d, e, t)
      PROVE  /\ e.task[t].attempt = e.task[t].fence
             /\ e.lease[t].id.fence = e.lease[t].id.attempt
             /\ e.lease[t].id.attempt \in Nat
             /\ e.lease[t].id.acquired \in Nat /\ e.lease[t].id.acquired <= now
             /\ \A m \in Asked(d, t) : /\ m.lid.acquired <= e.lease[t].id.acquired
                                       /\ m.lid.attempt < e.lease[t].id.attempt
  <2>1. CASE Held(d, t)
    BY <1>0, <1>1, <1>4, <2>1 DEF Takes, NumberedOf, Pending
  <2>2. CASE ~Held(d, t)
    BY <1>0, <1>1, <1>4, <2>2 DEF Takes, NumberedOf
  <2>. QED BY <2>1, <2>2
<1>5. CASE Offered(d, e, t)
  <2>1. Takes(d, e, t) /\ Asked(e, t) = Asked(d, t)
    BY <1>5 DEF Offered
  <2>2. \A m \in Asked(d, t) : m.lid.attempt # e.lease[t].id.attempt
    BY <1>0, <1>4, <2>1
  <2>. QED BY <1>4, <2>1, <2>2 DEF NumberedOf
<1>6. CASE Started(d, e, t)
  <2>1. Takes(d, e, t)
    BY <1>6 DEF Started
  <2>2. PICK k : k.lid = e.lease[t].id /\ Asked(e, t) = Asked(d, t) \cup {k}
    BY <1>6 DEF Started
  <2>3. \A m \in Asked(d, t) : /\ m.lid.attempt # k.lid.attempt
                               /\ ~(k.lid.attempt < m.lid.attempt)
                               /\ m.lid.acquired <= k.lid.acquired
    BY <1>0, <1>4, <2>1, <2>2
  <2>4. \A m, n \in Asked(e, t) :
          /\ m.lid.attempt = n.lid.attempt => m.lid = n.lid
          /\ m.lid.attempt < n.lid.attempt => m.lid.acquired <= n.lid.acquired
    <3>. TAKE m, n \in Asked(e, t)
    <3>1. CASE m = k /\ n = k
      BY <1>4, <2>1, <2>2, <3>1
    <3>2. CASE m \in Asked(d, t) /\ n = k
      BY <2>3, <3>2
    <3>3. CASE m = k /\ n \in Asked(d, t)
      BY <2>3, <3>3
    <3>4. CASE m \in Asked(d, t) /\ n \in Asked(d, t)
      BY <3>4 DEF NumberedOf
    <3>. QED BY <2>2, <3>1, <3>2, <3>3, <3>4
  <2>5. \A m \in Asked(e, t) :
          /\ m.lid.fence = m.lid.attempt /\ m.lid.acquired <= now
          /\ m.lid.acquired <= e.lease[t].id.acquired
          /\ m.lid.attempt = e.lease[t].id.attempt => m.lid = e.lease[t].id
    BY <1>4, <2>1, <2>2, <2>3 DEF NumberedOf
  <2>. QED BY <1>4, <2>1, <2>4, <2>5 DEF NumberedOf
<1>7. CASE Finished(d, e, t)
  BY <1>7 DEF Finished, SameNumbers, NumberedOf
<1>8. CASE Withdrew(d, e, t)
  BY <1>0, <1>1, <1>8 DEF Withdrew, NumberedOf
<1>. QED BY <1>2, <1>3, <1>5, <1>6, <1>7, <1>8 DEF Change

\* A step leaves the dependencies of an activated task done.
LEMMA WaitedKept ==
  ASSUME NEW d, NEW e, NEW t \in Tasks, Change(d, e, t), RowOf(d, t),
         NEW u \in Tasks, WaitedOf(d, u), StoreType(d), Sound(d)
  PROVE  WaitedOf(e, u)
<1>0. DependenciesMet(d, u) => DependenciesMet(e, u)
  BY CompletedStays, GraphAssumption DEF DependenciesMet
<1>1. CASE u # t
  BY <1>0, <1>1 DEF Change, Elsewhere, WaitedOf, Held
<1>2. CASE u = t
  <2>1. d.task[t].state = "running" => Held(d, t)
    BY AskedUnder
  <2>2. CASE Kept(d, e, t)
    BY <1>0, <1>2, <2>2 DEF Kept, WaitedOf
  <2>3. CASE Reconsidered(d, e, t)
    BY <1>0, <1>2, <2>3 DEF Reconsidered, WaitedOf, Held
  <2>4. CASE Offered(d, e, t) \/ Started(d, e, t)
    BY <1>0, <1>2, <2>4 DEF Offered, Started, Takes, WaitedOf
  <2>5. CASE Finished(d, e, t)
    BY <1>0, <1>2, <2>1, <2>5 DEF Finished, WaitedOf
  <2>6. CASE Withdrew(d, e, t)
    BY <1>0, <1>2, <2>6 DEF Withdrew, WaitedOf
  <2>. QED BY <1>2, <2>2, <2>3, <2>4, <2>5, <2>6 DEF Change
<1>. QED BY <1>1, <1>2

\* A step leaves a completed task with the evidence it was completed on.
LEMMA ProvedKept ==
  ASSUME NEW d, NEW e, NEW t \in Tasks, Change(d, e, t), RowOf(d, t),
         d.mail \subseteq e.mail,
         NEW u \in Tasks, ProvedOf(d, u), StoreType(d), Sound(d)
  PROVE  ProvedOf(e, u)
<1>1. ASSUME d.task[u].state = "completed"
      PROVE  ProvedOf(e, u)
  <2>1. e.task[u] = d.task[u]
    BY <1>1, SettledKeeps DEF Settled
  <2>2. \A v \in ReviewTargets[u] : e.task[v].state = "completed"
    BY <1>1, CompletedStays, GraphAssumption DEF ProvedOf
  <2>. QED BY <1>1, <2>1, <2>2 DEF ProvedOf
<1>2. ASSUME d.task[u].state # "completed", e.task[u].state = "completed"
      PROVE  ProvedOf(e, u)
  <2>1. u = t
    BY <1>2 DEF Change, Elsewhere
  <2>2. /\ Finished(d, e, t) /\ Completes(d, e, t)
    BY <1>2, <2>1 DEF Change, Kept, Reconsidered, Offered, Started, Finished,
                      Withdrew, Readiness
  <2>3. d.task[t].state = "running" /\ SameNumbers(d, e, t)
    BY <2>2 DEF Finished
  <2>4. d.lease[t].id.task = t /\ d.lease[t].id.fence = e.task[t].fence
    BY <2>3, AskedUnder DEF SameNumbers
  <2>5. \A v \in ReviewTargets[u] : e.task[v].state = "completed"
    BY <2>1, <2>2, CompletedStays, GraphAssumption DEF Completes
  <2>. QED BY <2>1, <2>2, <2>4, <2>5 DEF ProvedOf, Completes
<1>. QED BY <1>1, <1>2 DEF ProvedOf

\* A step counts every attempt that reached the host.
LEMMA CountedKept ==
  ASSUME NEW d, NEW e, NEW t \in Tasks, Change(d, e, t), RowOf(d, t), CountedOf(d, t),
         StoreType(d), Sound(d)
  PROVE  CountedOf(e, t)
<1>0. /\ d.task[t].attempt \in Nat /\ MaxAttempts[t] \in Nat
      /\ IsFiniteSet(Ids(d, t)) /\ Cardinality(Ids(d, t)) \in Nat
  BY RowTypes, GraphAssumption, FS_CardinalityType DEF CountedOf
<1>1. /\ d.task[t].state = "running" => Held(d, t) /\ d.lease[t].id \in Ids(d, t)
      /\ Held(d, t) => d.lease[t].id.attempt = d.task[t].attempt
      /\ \A m \in Asked(d, t) : m.lid.attempt <= d.task[t].attempt
      /\ Pending(d, t) => \A m \in Asked(d, t) : m.lid.attempt < d.task[t].attempt
  BY AskedUnder
<1>2. CASE Kept(d, e, t)
  <2>1. Ids(e, t) = Ids(d, t)
    BY <1>1, <1>2 DEF Kept, Ids
  <2>2. e.task[t].attempt = d.task[t].attempt /\ (Pending(e, t) <=> Pending(d, t))
    BY <1>2 DEF Kept, SameNumbers, Pending
  <2>3. Refreshable(e, t) /\ ~Held(e, t) => Refreshable(d, t) /\ ~Held(d, t)
    BY <1>2 DEF Kept, Refreshable, Readiness
  <2>. QED BY <2>1, <2>2, <2>3 DEF CountedOf
<1>3. CASE Reconsidered(d, e, t)
  <2>1. Ids(e, t) = Ids(d, t)
    BY <1>3 DEF Reconsidered, Ids
  <2>2. /\ e.task[t].attempt = d.task[t].attempt
        /\ Held(e, t) <=> Held(d, t)
        /\ Pending(e, t) <=> Pending(d, t)
    BY <1>3 DEF Reconsidered, SameNumbers, Held, Pending, Refreshable, Readiness
  <2>3. Refreshable(d, t)
    BY <1>3 DEF Reconsidered
  <2>. QED BY <2>1, <2>2, <2>3 DEF CountedOf
<1>4. ASSUME Takes(d, e, t)
      PROVE  /\ e.task[t].attempt \in Nat
             /\ e.task[t].attempt = Cardinality(Ids(d, t)) + 1
             /\ e.task[t].attempt <= MaxAttempts[t]
             /\ e.lease[t].id \notin Ids(d, t)
  <2>1. Refreshable(d, t)
    BY <1>4 DEF Takes, Refreshable, Readiness
  <2>2. CASE Held(d, t)
    <3>1. Pending(d, t)
      BY <1>4, <2>2 DEF Takes, Pending
    <3>2. e.task[t].attempt = d.task[t].attempt /\ e.lease[t].id = d.lease[t].id
      BY <1>1, <1>4, <2>2 DEF Takes
    <3>3. e.lease[t].id \notin Ids(d, t)
      BY <1>0, <1>1, <2>2, <3>1, <3>2 DEF Ids
    <3>. QED BY <1>0, <3>1, <3>2, <3>3 DEF CountedOf
  <2>3. CASE ~Held(d, t)
    <3>1. ~Pending(d, t) /\ d.task[t].attempt = Cardinality(Ids(d, t))
      BY <1>0, <2>3 DEF Pending, CountedOf
    <3>2. /\ e.task[t].attempt = d.task[t].attempt + 1
          /\ e.lease[t].id.attempt = d.task[t].attempt + 1
      BY <1>4, <2>3 DEF Takes
    <3>3. d.task[t].attempt < MaxAttempts[t]
      BY <2>1, <2>3 DEF CountedOf
    <3>4. e.lease[t].id \notin Ids(d, t)
      BY <1>0, <1>1, <3>2 DEF Ids
    <3>. QED BY <1>0, <3>1, <3>2, <3>3, <3>4
  <2>. QED BY <2>2, <2>3
<1>5. CASE Offered(d, e, t)
  <2>1. Ids(e, t) = Ids(d, t) /\ Pending(e, t) /\ Held(e, t) /\ Takes(d, e, t)
    BY <1>5 DEF Offered, Takes, Pending, Ids
  <2>. QED BY <1>0, <1>4, <2>1 DEF CountedOf
<1>6. CASE Started(d, e, t)
  <2>1. /\ Ids(e, t) = Ids(d, t) \cup {e.lease[t].id}
        /\ ~Pending(e, t) /\ Held(e, t) /\ Takes(d, e, t)
    BY <1>6 DEF Started, Takes, Pending, Ids
  <2>2. e.lease[t].id \notin Ids(d, t)
    BY <1>4, <2>1
  <2>3. ASSUME NEW S, NEW x, IsFiniteSet(S), x \notin S
        PROVE  IsFiniteSet(S \cup {x}) /\ Cardinality(S \cup {x}) = Cardinality(S) + 1
    BY <2>3, FS_AddElement
  <2>4. /\ IsFiniteSet(Ids(e, t))
        /\ Cardinality(Ids(e, t)) = Cardinality(Ids(d, t)) + 1
    BY <1>0, <2>1, <2>2, <2>3
  <2>. QED BY <1>0, <1>4, <2>1, <2>4 DEF CountedOf
<1>7. CASE Finished(d, e, t)
  <2>1. /\ Ids(e, t) = Ids(d, t) /\ ~Pending(e, t) /\ ~Pending(d, t)
        /\ e.task[t].attempt = d.task[t].attempt
    BY <1>7 DEF Finished, Pending, SameNumbers, Ids
  <2>2. Refreshable(e, t) => e.task[t].attempt < MaxAttempts[t]
    BY <1>1, <1>7, <2>1 DEF Finished, Refreshable, Readiness
  <2>. QED BY <2>1, <2>2 DEF CountedOf
<1>8. CASE Withdrew(d, e, t)
  <2>1. /\ Ids(e, t) = Ids(d, t) /\ ~Pending(e, t) /\ Pending(d, t)
        /\ e.task[t].attempt = d.task[t].attempt - 1
    BY <1>1, <1>8 DEF Withdrew, Pending, Ids
  <2>. QED BY <1>0, <2>1 DEF CountedOf
<1>. QED BY <1>2, <1>3, <1>5, <1>6, <1>7, <1>8 DEF Change

\* A step counts the held leases in the concurrency column.
LEMMA SlotsKept ==
  ASSUME NEW d, NEW e, NEW t \in Tasks, Change(d, e, t), SlotsOf(d)
  PROVE  SlotsOf(e)
<1>0. IsFiniteSet(Running(d)) /\ Cardinality(Running(d)) \in Nat
  <2>1. Running(d) \in SUBSET Tasks
    BY DEF Running
  <2>2. IsFiniteSet(Running(d))
    BY <2>1, TasksAssumption, FS_Subset
  <2>. QED BY <2>2, FS_CardinalityType
<1>1. \A u \in Tasks \ {t} : u \in Running(e) <=> u \in Running(d)
  BY DEF Change, Elsewhere, Running
<1>2. CASE \/ Kept(d, e, t) \/ Reconsidered(d, e, t) \/ Offered(d, e, t)
           \/ Withdrew(d, e, t)
  <2>1. t \in Running(e) <=> t \in Running(d)
    BY <1>2 DEF Kept, Reconsidered, Offered, Withdrew, Takes, Refreshable, Readiness,
                Running
  <2>2. Running(e) = Running(d)
    BY <1>1, <2>1 DEF Running
  <2>3. Slots(e) = Slots(d)
    BY <1>2 DEF Kept, Reconsidered, Offered, Withdrew
  <2>. QED BY <2>2, <2>3 DEF SlotsOf
<1>3. CASE Started(d, e, t)
  <2>1. t \in Running(e) /\ t \notin Running(d) /\ Slots(e) = Slots(d) + 1
    BY <1>3 DEF Started, Takes, Running
  <2>2. Running(e) = Running(d) \cup {t}
    BY <1>1, <2>1 DEF Running
  <2>. QED BY <1>0, <2>1, <2>2, FS_AddElement DEF SlotsOf
<1>4. CASE Finished(d, e, t)
  <2>1. t \notin Running(e) /\ t \in Running(d) /\ Slots(e) = Slots(d) - 1
    BY <1>4 DEF Finished, Running
  <2>2. Running(e) = Running(d) \ {t}
    BY <1>1, <2>1 DEF Running
  <2>. QED BY <1>0, <2>1, <2>2, FS_RemoveElement DEF SlotsOf
<1>. QED BY <1>2, <1>3, <1>4 DEF Change

\* What is said of a task that did not change.
LEMMA OtherKept ==
  ASSUME NEW d, NEW e, NEW t \in Tasks, Elsewhere(d, e, t), NEW u \in Tasks \ {t}
  PROVE  /\ RowOf(d, u) => RowOf(e, u)
         /\ NumberedOf(d, u, now) => NumberedOf(e, u, now)
         /\ OnceOf(d, u) => OnceOf(e, u)
         /\ CountedOf(d, u) => CountedOf(e, u)
<1>1. /\ e.task[u] = d.task[u] /\ e.lease[u] = d.lease[u] /\ Asked(e, u) = Asked(d, u)
      /\ Held(e, u) <=> Held(d, u)
  BY DEF Elsewhere, Held
<1>2. Settled(e, u) <=> Settled(d, u)
  BY <1>1 DEF Settled
<1>3. RowOf(d, u) => RowOf(e, u)
  BY <1>1, <1>2 DEF RowOf
<1>4. NumberedOf(d, u, now) => NumberedOf(e, u, now)
  BY <1>1 DEF NumberedOf
<1>5. OnceOf(d, u) => OnceOf(e, u)
  BY <1>1, <1>2 DEF OnceOf
<1>6. CountedOf(d, u) => CountedOf(e, u)
  BY <1>1 DEF CountedOf, Ids, Pending, Refreshable
<1>. QED BY <1>3, <1>4, <1>5, <1>6

\* Together: a step keeps the whole ledger of a store.
LEMMA LedgerKept ==
  ASSUME NEW d, NEW e, TaskStep(d, e), Ledger(d, now), StoreType(d), Sound(d), now \in Nat
  PROVE  Ledger(e, now)
<1>. PICK t \in Tasks : Change(d, e, t)
  BY DEF TaskStep
<1>1. RowOf(d, t) /\ d.mail \subseteq e.mail /\ Elsewhere(d, e, t)
  BY DEF Ledger, AttemptsOf, TaskStep, NewMail, Change
<1>2. ASSUME NEW u \in Tasks
      PROVE  AttemptsOf(e, u, now)
  <2>1. AttemptsOf(d, u, now)
    BY DEF Ledger
  <2>2. WaitedOf(e, u) /\ ProvedOf(e, u)
    BY <1>1, <2>1, WaitedKept, ProvedKept DEF AttemptsOf
  <2>3. RowOf(e, u) /\ NumberedOf(e, u, now) /\ OnceOf(e, u) /\ CountedOf(e, u)
    <3>1. CASE u = t
      BY <2>1, <3>1, RowKept, NumberedKept, OnceKept, CountedKept DEF AttemptsOf
    <3>2. CASE u # t
      BY <1>1, <2>1, <3>2, OtherKept DEF AttemptsOf
    <3>. QED BY <3>1, <3>2
  <2>. QED BY <2>2, <2>3 DEF AttemptsOf
<1>3. SlotsOf(e)
  BY SlotsKept DEF Ledger
<1>. QED BY <1>2, <1>3 DEF Ledger

\* Time passing keeps the ledger.
LEMMA LedgerLater ==
  ASSUME NEW d, StoreType(d), now \in Nat, NEW clock \in {now, now + 1}, Ledger(d, now)
  PROVE  Ledger(d, clock)
<1>1. ASSUME NEW t \in Tasks, NumberedOf(d, t, now)
      PROVE  NumberedOf(d, t, clock)
  <2>1. /\ \A m \in Asked(d, t) : m.lid.acquired \in Nat
        /\ Held(d, t) => d.lease[t].id.acquired \in Nat
    BY RowTypes, IdTypes
  <2>2. \A n \in Nat : n <= now => n <= clock
    OBVIOUS
  <2>. QED BY <1>1, <2>1, <2>2 DEF NumberedOf
<1>. QED BY <1>1 DEF Ledger, AttemptsOf

\* A freshly initialised store has an empty ledger.
LEMMA LedgerInit == Init => Ledger(disk, now) /\ Ledger(db, now)
<1>. SUFFICES ASSUME Init
              PROVE  Ledger(EmptyStore, 0)
  BY DEF Init
<1>. DEFINE d == EmptyStore
<1>1. ASSUME NEW t \in Tasks
      PROVE  /\ d.task[t].state = IF Dependencies[t] = {} THEN "ready" ELSE "planned"
             /\ d.task[t].outcome = "none"
             /\ d.task[t].attempt = 0 /\ d.task[t].fence = 0
             /\ d.lease[t] = NoLease
  BY DEF EmptyStore
<1>2. d.mail = {} /\ Slots(d) = 0
  BY DEF EmptyStore, Slots, Resources
<1>. HIDE DEF d
<1>3. IsFiniteSet({}) /\ Cardinality({}) = 0
  BY FS_EmptySet
<1>4. ASSUME NEW t \in Tasks
      PROVE  AttemptsOf(d, t, 0)
  <2>1. Asked(d, t) = {} /\ Ids(d, t) = {} /\ ~Held(d, t)
    BY <1>1, <1>2 DEF Asked, Ids, Held
  <2>2. RowOf(d, t) /\ NumberedOf(d, t, 0) /\ OnceOf(d, t)
    BY <1>1, <2>1 DEF RowOf, NumberedOf, OnceOf
  <2>3. CountedOf(d, t)
    BY <1>1, <1>3, <2>1, GraphAssumption DEF CountedOf, Pending
  <2>4. WaitedOf(d, t) /\ ProvedOf(d, t)
    BY <1>1, <2>1 DEF WaitedOf, DependenciesMet, ProvedOf
  <2>. QED BY <2>2, <2>3, <2>4 DEF AttemptsOf
<1>5. SlotsOf(d)
  <2>1. Running(d) = {}
    BY <1>1 DEF Running
  <2>. QED BY <1>2, <1>3, <2>1 DEF SlotsOf
<1>6. Ledger(d, 0)
  BY <1>4, <1>5 DEF Ledger
<1>. QED BY <1>6 DEF d

-----------------------------------------------------------------------------
\* How attempts end.

\* A Lease that was ended was one that hosts were asked under, and is not held.
EndedOf(d) ==
  \A m \in d.mail : EndsAttempt(m) =>
    /\ m.lid.task \in Tasks /\ m.lid \in Ids(d, m.lid.task)
    /\ ~(Held(d, m.lid.task) /\ d.lease[m.lid.task].id = m.lid)

\* A Lease whose cancellation was requested waits for nothing else.
CancelledOf(d) ==
  \A m \in d.mail : m.say.type = "cancel_request" =>
    /\ m.lid.task \in Tasks /\ m.lid \in Ids(d, m.lid.task)
    /\ Held(d, m.lid.task) /\ d.lease[m.lid.task].id = m.lid =>
         d.task[m.lid.task].phase = "cancellation_requested"

EndingsOf(d) == EndedOf(d) /\ CancelledOf(d) /\ OneEndingIn(d)

\* A Lease under which hosts were asked for something is never granted anew.
LEMMA LeasesAreNew ==
  ASSUME NEW d, NEW e, NEW t \in Tasks, Change(d, e, t), StoreType(d), Sound(d),
         NEW u \in Tasks, NEW id \in Ids(d, u)
  PROVE  /\ id \in Ids(e, u)
         /\ Held(e, u) /\ e.lease[u].id = id => Held(d, u) /\ d.lease[u].id = id
<1>1. CASE u # t
  BY <1>1 DEF Change, Elsewhere, Ids, Held
<1>2. CASE u = t
  <2>1. id \in Ids(e, t)
    BY <1>2 DEF Change, Kept, Reconsidered, Offered, Started, Finished, Withdrew, Ids
  <2>2. id.attempt \in Nat /\ d.task[t].attempt \in Nat /\ id.attempt <= d.task[t].attempt
    BY <1>2, RowTypes, IdTypes, AskedUnder DEF Ids
  <2>3. ASSUME Takes(d, e, t), e.lease[t].id = id
        PROVE  Held(d, t) /\ d.lease[t].id = id
    BY <2>2, <2>3 DEF Takes
  <2>4. Held(e, t) /\ e.lease[t].id = id => Held(d, t) /\ d.lease[t].id = id
    BY <2>3 DEF Change, Kept, Reconsidered, Offered, Started, Finished, Withdrew, Held
  <2>. QED BY <1>2, <2>1, <2>4
<1>. QED BY <1>1, <1>2

\* A step gives an attempt at most one ending.
LEMMA EndingsKept ==
  ASSUME NEW d, NEW e, TaskStep(d, e), StoreType(d), Sound(d), EndingsOf(d)
  PROVE  EndingsOf(e)
<1>. PICK t \in Tasks : Change(d, e, t)
  BY DEF TaskStep
<1>0. /\ d.mail \subseteq e.mail
      /\ \A m \in e.mail \ d.mail : Timely(d, e, m)
      /\ \A m, n \in e.mail \ d.mail : Asking(m) \/ Asking(n) \/ m = n
  BY DEF TaskStep, NewMail
<1>1. ASSUME NEW m \in e.mail \ d.mail, EndsAttempt(m) \/ m.say.type = "cancel_request"
      PROVE  /\ m.lid.task \in Tasks /\ m.lid \in Ids(d, m.lid.task)
             /\ Held(d, m.lid.task) /\ d.lease[m.lid.task].id = m.lid
             /\ m.lid \in Ids(e, m.lid.task)
             /\ EndsAttempt(m) => ~Held(e, m.lid.task)
             /\ m.say.type = "cancel_request" =>
                  e.task[m.lid.task].phase = "cancellation_requested"
  <2>1. Timely(d, e, m)
    BY <1>0
  <2>2. /\ m.lid.task \in Tasks /\ d.task[m.lid.task].state = "running"
        /\ d.lease[m.lid.task].id = m.lid
        /\ EndsAttempt(m) => ~Held(e, m.lid.task)
        /\ m.say.type = "cancel_request" =>
             e.task[m.lid.task].phase = "cancellation_requested"
    BY <1>1, <2>1 DEF Timely
  <2>3. Held(d, m.lid.task) /\ m.lid \in Ids(d, m.lid.task)
    BY <2>2, AskedUnder
  <2>. QED BY <2>2, <2>3, LeasesAreNew
<1>2. EndedOf(e)
  <2>. SUFFICES ASSUME NEW m \in e.mail, EndsAttempt(m)
                PROVE  /\ m.lid.task \in Tasks /\ m.lid \in Ids(e, m.lid.task)
                       /\ ~(Held(e, m.lid.task) /\ e.lease[m.lid.task].id = m.lid)
    BY DEF EndedOf
  <2>1. CASE m \notin d.mail
    BY <1>1, <2>1
  <2>2. CASE m \in d.mail
    <3>1. /\ m.lid.task \in Tasks /\ m.lid \in Ids(d, m.lid.task)
          /\ ~(Held(d, m.lid.task) /\ d.lease[m.lid.task].id = m.lid)
      BY <2>2 DEF EndingsOf, EndedOf
    <3>. QED BY <3>1, LeasesAreNew
  <2>. QED BY <2>1, <2>2
<1>3. CancelledOf(e)
  <2>. SUFFICES ASSUME NEW m \in e.mail, m.say.type = "cancel_request"
                PROVE  /\ m.lid.task \in Tasks /\ m.lid \in Ids(e, m.lid.task)
                       /\ Held(e, m.lid.task) /\ e.lease[m.lid.task].id = m.lid =>
                            e.task[m.lid.task].phase = "cancellation_requested"
    BY DEF CancelledOf
  <2>. DEFINE u == m.lid.task
  <2>1. CASE m \notin d.mail
    BY <1>1, <2>1
  <2>2. CASE m \in d.mail
    <3>1. /\ u \in Tasks /\ m.lid \in Ids(d, u)
          /\ Held(d, u) /\ d.lease[u].id = m.lid =>
               d.task[u].phase = "cancellation_requested"
      BY <2>2 DEF EndingsOf, CancelledOf
    <3>2. /\ m.lid \in Ids(e, u)
          /\ Held(e, u) /\ e.lease[u].id = m.lid => Held(d, u) /\ d.lease[u].id = m.lid
      BY <3>1, LeasesAreNew
    <3>3. ASSUME Held(e, u), e.lease[u].id = m.lid
          PROVE  e.task[u].phase = "cancellation_requested"
      <4>1. Held(d, u) /\ d.lease[u].id = m.lid /\ d.task[u].phase = "cancellation_requested"
        BY <3>1, <3>2, <3>3
      <4>2. d.task[u].state = "running"
        <5>1. \E n \in Asked(d, u) : n.lid = d.lease[u].id
          BY <3>1, <4>1 DEF Ids
        <5>. QED BY <3>1, <4>1, <5>1, AskedRuns
      <4>3. CASE u # t
        BY <3>1, <4>1, <4>3 DEF Change, Elsewhere
      <4>4. CASE u = t
        BY <3>3, <4>1, <4>2, <4>4 DEF Change, Kept, Reconsidered, Offered, Started,
              Finished, Withdrew, Takes, Refreshable, Readiness
      <4>. QED BY <4>3, <4>4
    <3>. QED BY <3>1, <3>2, <3>3
  <2>. QED BY <2>1, <2>2
<1>4. OneEndingIn(e)
  <2>. SUFFICES ASSUME NEW m \in e.mail, NEW n \in e.mail,
                       m.lid = n.lid, m # n, m.lid # NoLease
                PROVE  /\ ~(EndsAttempt(m) /\ EndsAttempt(n))
                       /\ EndsAttempt(m) => ~(/\ Held(e, m.lid.task)
                                              /\ e.lease[m.lid.task].id = m.lid)
                       /\ ~(/\ m.say.type = "dispatch_acknowledgement"
                            /\ n.say.type = "dispatch_acknowledgement")
                       /\ ~(m.say.type = "cancel_request" /\ n.say.type = "task_result")
    BY DEF OneEndingIn
  <2>1. EndsAttempt(m) => ~(Held(e, m.lid.task) /\ e.lease[m.lid.task].id = m.lid)
    BY <1>2 DEF EndedOf
  <2>2. ~(EndsAttempt(m) /\ EndsAttempt(n))
    <3>1. CASE m \in d.mail /\ n \in d.mail
      BY <3>1 DEF EndingsOf, OneEndingIn
    <3>2. CASE m \notin d.mail /\ n \notin d.mail
      BY <1>0, <3>2 DEF Asking, EndsAttempt
    <3>3. CASE m \notin d.mail /\ n \in d.mail
      BY <1>1, <3>3 DEF EndingsOf, EndedOf
    <3>4. CASE m \in d.mail /\ n \notin d.mail
      BY <1>1, <3>4 DEF EndingsOf, EndedOf
    <3>. QED BY <3>1, <3>2, <3>3, <3>4
  <2>3. ~(/\ m.say.type = "dispatch_acknowledgement"
          /\ n.say.type = "dispatch_acknowledgement")
    <3>1. CASE m \in d.mail /\ n \in d.mail
      BY <3>1 DEF EndingsOf, OneEndingIn
    <3>2. CASE m \notin d.mail /\ n \notin d.mail
      BY <1>0, <3>2 DEF Asking
    <3>3. CASE m \notin d.mail /\ n \in d.mail
      BY <1>0, <3>3 DEF Timely
    <3>4. CASE m \in d.mail /\ n \notin d.mail
      BY <1>0, <3>4 DEF Timely
    <3>. QED BY <3>1, <3>2, <3>3, <3>4
  <2>4. ~(m.say.type = "cancel_request" /\ n.say.type = "task_result")
    <3>. SUFFICES ASSUME m.say.type = "cancel_request", n.say.type = "task_result"
                  PROVE  FALSE
      OBVIOUS
    <3>0. EndsAttempt(n)
      BY DEF EndsAttempt
    <3>1. CASE m \in d.mail /\ n \in d.mail
      BY <3>1 DEF EndingsOf, OneEndingIn
    <3>2. CASE m \notin d.mail /\ n \notin d.mail
      BY <1>0, <3>2 DEF Asking
    <3>3. CASE m \notin d.mail /\ n \in d.mail
      BY <1>1, <3>0, <3>3 DEF EndingsOf, EndedOf
    <3>4. CASE m \in d.mail /\ n \notin d.mail
      <4>1. d.task[n.lid.task].phase # "cancellation_requested"
        BY <1>0, <3>4 DEF Timely
      <4>2. Held(d, n.lid.task) /\ d.lease[n.lid.task].id = n.lid
        BY <1>1, <3>0, <3>4
      <4>. QED BY <3>4, <4>1, <4>2 DEF EndingsOf, CancelledOf
    <3>. QED BY <3>1, <3>2, <3>3, <3>4
  <2>. QED BY <2>1, <2>2, <2>3, <2>4
<1>. QED BY <1>2, <1>3, <1>4 DEF EndingsOf

-----------------------------------------------------------------------------
\* All of it together, from the first state on.

\* A task that is settled on disk is untouched in the open transaction.
Since(t) ==
  Settled(disk, t) =>
    /\ db.task[t] = disk.task[t] /\ ~Held(db, t)
    /\ Asked(db, t) = Asked(disk, t)

AttemptInv ==
  /\ StepInv
  /\ Ledger(disk, now) /\ Ledger(db, now)
  /\ EndingsOf(disk) /\ EndingsOf(db)
  /\ \A t \in Tasks : Since(t)

\* A task that is settled in a store stays as it is in the next one.
LEMMA SettledThrough ==
  ASSUME NEW d, NEW e, TaskStep(d, e), Ledger(d, now), NEW t \in Tasks, Settled(d, t)
  PROVE  /\ e.task[t] = d.task[t] /\ ~Held(e, t)
         /\ Asked(e, t) = Asked(d, t)
<1>1. PICK u \in Tasks : Change(d, e, u)
  BY DEF TaskStep
<1>2. RowOf(d, u) /\ RowOf(d, t)
  BY DEF Ledger, AttemptsOf
<1>. QED BY <1>1, <1>2, SettledKeeps DEF RowOf

\* The first store has no message and no task that was attempted.
LEMMA AttemptInit == Init /\ StepInv => AttemptInv
<1>1. ASSUME Init
      PROVE  EndingsOf(disk) /\ EndingsOf(db) /\ \A t \in Tasks : Since(t)
  <2>1. disk.mail = {} /\ db.mail = {} /\ db = disk
    BY <1>1 DEF Init, EmptyStore
  <2>2. EndingsOf(disk) /\ EndingsOf(db)
    BY <2>1 DEF EndingsOf, EndedOf, CancelledOf, OneEndingIn
  <2>3. \A t \in Tasks : RowOf(disk, t)
    BY <1>1, LedgerInit DEF Ledger, AttemptsOf
  <2>. QED BY <2>1, <2>2, <2>3 DEF Since, RowOf
<1>. QED BY <1>1, LedgerInit DEF AttemptInv

\* Every step of the scheduler keeps the ledger of attempts, of the committed
\* store and of the open transaction.
LEMMA AttemptStep == AttemptInv /\ StepInv' /\ [Next]_vars => AttemptInv'
<1>. SUFFICES ASSUME AttemptInv, StepInv', [Next]_vars
              PROVE  /\ Ledger(disk', now') /\ Ledger(db', now')
                     /\ EndingsOf(disk') /\ EndingsOf(db')
                     /\ \A t \in Tasks : Since(t)'
  BY DEF AttemptInv
<1>0. /\ StoreType(disk) /\ StoreType(db) /\ Sound(disk) /\ Sound(db) /\ now \in Nat
      /\ StoreType(disk') /\ StoreType(db')
      /\ Ledger(disk, now) /\ Ledger(db, now) /\ EndingsOf(disk) /\ EndingsOf(db)
      /\ \A t \in Tasks : Since(t)
  BY DEF AttemptInv, StepInv, AuthorityInv, TypeInv
<1>1. /\ \/ disk' = disk /\ db' \in {db, disk}
         \/ disk' = disk /\ (TaskStep(db, db') \/ TaskStep(disk, db'))
         \/ disk' = db /\ db' = db
         \/ disk' = db' /\ TaskStep(disk, db')
      /\ now' \in {now, now + 1}
  BY StoreStep DEF AttemptInv
<1>2. Ledger(disk', now) /\ Ledger(db', now)
  BY <1>0, <1>1, LedgerKept
<1>3. EndingsOf(disk') /\ EndingsOf(db')
  BY <1>0, <1>1, EndingsKept
<1>4. Ledger(disk', now') /\ Ledger(db', now')
  BY <1>0, <1>1, <1>2, LedgerLater
<1>5. ASSUME NEW t \in Tasks, Settled(disk', t)
      PROVE  /\ db'.task[t] = disk'.task[t] /\ ~Held(db', t)
             /\ Asked(db', t) = Asked(disk', t)
  <2>0. /\ Settled(disk, t) => ~Held(disk, t)
        /\ Settled(db, t) => ~Held(db, t)
        /\ Settled(db', t) => ~Held(db', t)
    BY <1>0, <1>2 DEF Ledger, AttemptsOf, RowOf
  <2>1. CASE disk' = disk
    <3>1. /\ db.task[t] = disk.task[t] /\ ~Held(db, t)
          /\ Asked(db, t) = Asked(disk, t)
      BY <1>0, <1>5, <2>1 DEF Since
    <3>2. Settled(disk, t) /\ Settled(db, t)
      BY <1>5, <2>1, <3>1 DEF Settled
    <3>3. CASE db' \in {db, disk}
      BY <2>0, <2>1, <3>1, <3>2, <3>3
    <3>4. CASE TaskStep(db, db')
      BY <1>0, <2>1, <3>1, <3>2, <3>4, SettledThrough
    <3>5. CASE TaskStep(disk, db')
      BY <1>0, <2>1, <3>2, <3>5, SettledThrough
    <3>6. CASE disk' = db /\ db' = db
      BY <2>1, <3>1, <3>6
    <3>. QED BY <1>1, <3>3, <3>4, <3>5, <3>6
  <2>2. CASE disk' = db'
    BY <1>5, <2>0, <2>2
  <2>. QED BY <1>1, <2>1, <2>2
<1>. QED BY <1>3, <1>4, <1>5 DEF Since

\* The invariant on which the theorems below rest.
LEMMA AttemptInvariant == Spec => []AttemptInv
<1>1. Init /\ StepInv => AttemptInv
  BY AttemptInit
<1>. QED BY <1>1, AttemptStep, StepInvariant, PTL DEF Spec

-----------------------------------------------------------------------------
\* What follows from it.

\* A Lease was activated exactly when a host was asked for something under it.
LEMMA ActivatedAre ==
  ASSUME NEW d, StoreType(d), NEW t \in Tasks
  PROVE  ActivatedIds(d, t) = Ids(d, t)
<1>1. ASSUME NEW m \in d.mail
      PROVE  m.lid \in LeaseIds \cup {NoLease}
  BY DEF StoreType, Messages
<1>2. ASSUME NEW m \in Asked(d, t)
      PROVE  m.lid \in ActivatedIds(d, t)
  BY NoLeaseAssumption DEF Asked, ActivatedIds, Activated, Dispatched, Adopted
<1>3. ASSUME NEW id \in ActivatedIds(d, t)
      PROVE  id \in Ids(d, t)
  <2>1. id \in LeaseIds /\ id.task = t
    BY <1>1 DEF ActivatedIds
  <2>. QED BY <2>1 DEF ActivatedIds, Activated, Dispatched, Adopted, Ids, Asked
<1>. QED BY <1>2, <1>3 DEF Ids

\* In every state, of the committed store and of the open transaction.
LEMMA StoresOf ==
  ASSUME AttemptInv, NEW d \in {disk, db}
  PROVE  /\ StoreType(d) /\ Sound(d) /\ EndingsOf(d) /\ SlotsOf(d)
         /\ \A t \in Tasks : AttemptsOf(d, t, now)
BY DEF AttemptInv, StepInv, AuthorityInv, TypeInv, Ledger

\* For every graph, budget and set of hosts, and across every crash, abort,
\* expiry and retry: no two activated attempts of a task share an attempt
\* number, a later one has the larger fence, and the running one is the last
\* (_dispatch_ready, _expire_leases).
THEOREM AttemptsAreFenced == Spec => []Fenced
<1>1. ASSUME AttemptInv, NEW d \in {disk, db}
      PROVE  FencedOf(d)
  <2>. SUFFICES ASSUME NEW t \in Tasks
                PROVE  /\ \A i, j \in Ids(d, t) :
                            i # j => /\ i.attempt # j.attempt
                                     /\ i.attempt < j.attempt =>
                                          /\ i.fence < j.fence
                                          /\ i.acquired <= j.acquired
                       /\ d.task[t].state = "running" =>
                            \A i \in Ids(d, t) : i.fence <= d.lease[t].id.fence
    BY <1>1, StoresOf, ActivatedAre DEF FencedOf
  <2>1. NumberedOf(d, t, now) /\ StoreType(d) /\ Sound(d)
    BY <1>1, StoresOf DEF AttemptsOf
  <2>2. \A i \in Ids(d, t) : \E m \in Asked(d, t) : m.lid = i
    BY DEF Ids
  <2>3. ASSUME d.task[t].state = "running", NEW i \in Ids(d, t)
        PROVE  i.fence <= d.lease[t].id.fence
    <3>1. /\ d.lease[t].id.fence = d.task[t].fence
          /\ i.attempt <= d.task[t].attempt
      BY <2>1, <2>2, <2>3, AskedUnder
    <3>. QED BY <2>1, <2>2, <3>1 DEF NumberedOf
  <2>. QED BY <2>1, <2>2, <2>3 DEF NumberedOf
<1>2. AttemptInv => Fenced
  BY <1>1 DEF Fenced, Everywhere
<1>. QED BY <1>2, AttemptInvariant, PTL

\* The attempt number of a task is the number of its activations, and one more
\* while a proposal is pending; it never exceeds max_attempts (_dispatch_ready
\* counts, _expire_leases takes back what was only proposed).
THEOREM AttemptsAreCounted == Spec => []AttemptsCounted
<1>1. ASSUME AttemptInv, NEW d \in {disk, db}
      PROVE  AttemptsCountedIn(d)
  <2>. SUFFICES ASSUME NEW t \in Tasks
                PROVE  /\ d.task[t].attempt =
                            IF Held(d, t) /\ ~Activated(d, d.lease[t].id)
                              THEN Cardinality(Ids(d, t)) + 1
                              ELSE Cardinality(Ids(d, t))
                       /\ d.task[t].attempt <= MaxAttempts[t]
    BY <1>1, StoresOf, ActivatedAre DEF AttemptsCountedIn
  <2>1. CountedOf(d, t) /\ StoreType(d) /\ Sound(d)
    BY <1>1, StoresOf DEF AttemptsOf
  <2>2. AuthorityOf(d)
    BY <2>1, SoundImplies
  <2>3. Pending(d, t) <=> Held(d, t) /\ ~Activated(d, d.lease[t].id)
    BY <2>2 DEF AuthorityOf, Pending
  <2>4. Cardinality(Ids(d, t)) \in Nat
    BY <2>1, FS_CardinalityType DEF CountedOf
  <2>. QED BY <2>1, <2>3, <2>4 DEF CountedOf
<1>2. AttemptInv => AttemptsCounted
  BY <1>1 DEF AttemptsCounted, Everywhere
<1>. QED BY <1>2, AttemptInvariant, PTL

\* A task with effects is activated at most once, whatever expires, is
\* rejected, fails or crashes: only read-only tasks are ever made ready again
\* (_safe_retry, _quarantine).
THEOREM EffectsHappenOnce == Spec => []EffectsOnce
<1>1. ASSUME AttemptInv, NEW d \in {disk, db}, NEW t \in Tasks \ ReadOnly
      PROVE  Cardinality(ActivatedIds(d, t)) <= 1
  <2>1. ActivatedIds(d, t) = Ids(d, t) /\ OnceOf(d, t)
    BY <1>1, StoresOf, ActivatedAre DEF AttemptsOf
  <2>2. CASE Ids(d, t) = {}
    BY <2>1, <2>2, FS_EmptySet
  <2>3. ASSUME NEW id \in Ids(d, t)
        PROVE  Cardinality(Ids(d, t)) = 1
    <3>1. Ids(d, t) = {id}
      BY <1>1, <2>1, <2>3 DEF OnceOf, Ids
    <3>2. Cardinality({id}) = 1
      BY FS_Singleton
    <3>. QED BY <3>1, <3>2
  <2>. QED BY <2>1, <2>2, <2>3
<1>2. AttemptInv => EffectsOnce
  BY <1>1 DEF EffectsOnce, EffectsOnceIn, Everywhere
<1>. QED BY <1>2, AttemptInvariant, PTL

\* Nothing is activated before everything it depends on has completed, and a
\* dependency never leaves completed again (_refresh_ready, _dispatch_ready).
THEOREM DependenciesAreDone == Spec => []DependenciesDone
<1>1. ASSUME AttemptInv, NEW d \in {disk, db}, NEW t \in Tasks,
             ActivatedIds(d, t) # {}
      PROVE  \A u \in Dependencies[t] : d.task[u].state = "completed"
  <2>1. Asked(d, t) # {}
    BY <1>1, StoresOf, ActivatedAre DEF Ids
  <2>2. WaitedOf(d, t)
    BY <1>1, StoresOf DEF AttemptsOf
  <2>. QED BY <2>1, <2>2 DEF WaitedOf, DependenciesMet
<1>2. AttemptInv => DependenciesDone
  BY <1>1 DEF DependenciesDone, DependenciesDoneIn, Everywhere
<1>. QED BY <1>2, AttemptInvariant, PTL

\* At most one reply ends a Lease, nothing is adopted under it once it is
\* ended, it is acknowledged once, and a request to cancel and a result
\* exclude each other, in whatever order hosts answer (_ingest_message and
\* the handlers of each type).
THEOREM EndingsAreUnique == Spec => []OneEnding
<1>1. AttemptInv => OneEnding
  BY DEF AttemptInv, EndingsOf, OneEnding, Everywhere
<1>. QED BY <1>1, AttemptInvariant, PTL

\* reserved_concurrency is the number of running tasks, although five places
\* give the slot back and two hand it out.
THEOREM SlotsAreCounted == Spec => []ConcurrencyExact
<1>1. AttemptInv => ConcurrencyExact
  BY DEF AttemptInv, Ledger, SlotsOf, Slots, ConcurrencyExact, ConcurrencyExactIn,
         Everywhere
<1>. QED BY <1>1, AttemptInvariant, PTL

\* A completed task has a succeeded result with evidence under its last Lease,
\* and everything it reviews is completed (_apply_task_result).
THEOREM CompletionIsProved == Spec => []CompletedProved
<1>1. ASSUME AttemptInv, NEW d \in {disk, db}
      PROVE  CompletedProvedIn(d)
  BY <1>1, StoresOf DEF CompletedProvedIn, AttemptsOf, ProvedOf
<1>2. AttemptInv => CompletedProved
  BY <1>1 DEF CompletedProved, Everywhere
<1>. QED BY <1>2, AttemptInvariant, PTL

\* No commit touches a task whose outcome is final or unknown: its row, its
\* Lease and what hosts were asked for stay as they are.
THEOREM SettledTasksStay == Spec => SettledStays
<1>1. ASSUME AttemptInv, StepInv', [Next]_vars
      PROVE  SettlesOnce
  <2>. SUFFICES ASSUME NEW t \in Tasks, Settled(disk, t)
                PROVE  /\ disk'.task[t] = disk.task[t]
                       /\ disk'.lease[t] = NoLease
                       /\ ActivatedIds(disk', t) = ActivatedIds(disk, t)
    BY DEF SettlesOnce
  <2>1. /\ StoreType(disk) /\ StoreType(disk') /\ Ledger(disk, now)
        /\ Since(t) /\ RowOf(disk, t)
    BY <1>1 DEF AttemptInv, StepInv, AuthorityInv, TypeInv, Ledger, AttemptsOf
  <2>2. disk' = disk \/ disk' = db \/ (disk' = db' /\ TaskStep(disk, db'))
    BY <1>1, StoreStep DEF AttemptInv
  <2>3. /\ disk'.task[t] = disk.task[t] /\ ~Held(disk', t)
        /\ Asked(disk', t) = Asked(disk, t)
    BY <2>1, <2>2, SettledThrough DEF Since, RowOf
  <2>. QED BY <2>1, <2>3, ActivatedAre DEF Held, Ids
<1>2. ASSUME AttemptInv, StepInv', [Next]_vars
      PROVE  [SettlesOnce]_disk
  BY <1>1, <1>2
<1>. QED BY <1>2, AttemptInvariant, StepInvariant, PTL DEF Spec, SettledStays

-----------------------------------------------------------------------------
\* The ledger of attempts.

\* What the ledger shows of a task follows from its row and whether it is held.
LEMMA EntryIs ==
  ASSUME NEW d, NEW t \in Tasks
  PROVE  /\ EntriesOf(d)[t].standing = StandingOf(d, t)
         /\ EntriesOf(d)[t].attempt = d.task[t].attempt
         /\ d.task[t].state \in {"running", "completed"} => StandingOf(d, t) = d.task[t].state
         /\ d.task[t].state \in {"rejected", "superseded"} => StandingOf(d, t) = "closed"
         /\ d.task[t].state = "blocked" /\ d.task[t].outcome = "unknown" =>
              StandingOf(d, t) = "doubtful"
         /\ Refreshable(d, t) => StandingOf(d, t) = IF Held(d, t) THEN "offered" ELSE "waiting"
BY DEF EntriesOf, StandingOf, Refreshable, Readiness

\* Conversely, each standing is that of the rows it is meant for.
LEMMA StandingMeans ==
  ASSUME NEW d, StoreType(d), NEW t \in Tasks
  PROVE  /\ StandingOf(d, t) = "running" <=> d.task[t].state = "running"
         /\ StandingOf(d, t) = "completed" <=> d.task[t].state = "completed"
<1>1. d.task[t].state \in States
  BY RowTypes DEF TaskRows
<1>. QED BY <1>1 DEF StandingOf, States

\* Tasks that are not changed keep their entry; a changed one gets a new one.
LEMMA EntryMoves ==
  ASSUME NEW d, NEW e, NEW t \in Tasks, Elsewhere(d, e, t)
  PROVE  EntriesOf(e) = [EntriesOf(d) EXCEPT ![t] = [standing |-> StandingOf(e, t),
                                                     attempt |-> e.task[t].attempt]]
<1>1. ASSUME NEW u \in Tasks \ {t}
      PROVE  StandingOf(e, u) = StandingOf(d, u) /\ e.task[u] = d.task[u]
  BY DEF Elsewhere, StandingOf, Held
<1>. QED BY <1>1 DEF EntriesOf

\* Equal rows show equal entries.
LEMMA EntriesAlike ==
  ASSUME NEW d, NEW e, e.task = d.task, e.lease = d.lease
  PROVE  EntriesOf(e) = EntriesOf(d)
BY DEF EntriesOf, StandingOf, Held

\* Each kind of change of the working copy moves one task as the ledger allows,
\* or shows nothing in it.
LEMMA ChangeInLedger ==
  ASSUME StoreType(db), StoreType(db'), Sound(db), Sound(db'), Ledger(db, now),
         NEW t \in Tasks, Change(db, db', t), EntriesOf(disk)' = EntriesOf(disk)
  PROVE  [Attempts!Next]_Attempts!ledger
<1>. DEFINE entry == EntriesOf(db)
            entry2 == EntriesOf(db')
            S == StandingOf(db', t)
            A == db'.task[t].attempt
<1>0. /\ RowOf(db, t) /\ CountedOf(db, t) /\ WaitedOf(db, t) /\ SlotsOf(db)
      /\ Elsewhere(db, db', t)
  BY DEF Ledger, AttemptsOf, Change
<1>1. Attempts!Becomes(t, S, A)
  BY <1>0, EntryMoves DEF Attempts!Becomes
<1>2. /\ entry[t].attempt = db.task[t].attempt
      /\ \A u \in Tasks : \A s : Attempts!Is(u, s) <=> StandingOf(db, u) = s
  BY EntryIs DEF Attempts!Is
<1>3. ASSUME NEW U \in SUBSET Tasks, \A u \in U : db.task[u].state = "completed"
      PROVE  Attempts!Completed(U)
  <2>1. \A u \in U : StandingOf(db, u) = "completed"
    BY <1>3, StandingMeans
  <2>. QED BY <1>2, <2>1 DEF Attempts!Completed
<1>4. DependenciesMet(db, t) => Attempts!Completed(Dependencies[t])
  BY <1>3, GraphAssumption DEF DependenciesMet
<1>5. /\ db.task[t].attempt \in Nat /\ A \in Nat
      /\ db.task[t].state \in States
  BY RowTypes DEF TaskRows
<1>6. CASE S = StandingOf(db, t) /\ A = db.task[t].attempt
  <2>1. entry2 = [entry EXCEPT ![t] = [standing |-> StandingOf(db, t),
                                       attempt |-> db.task[t].attempt]]
    BY <1>0, <1>6, EntryMoves
  <2>2. entry2 = entry
    BY <2>1 DEF EntriesOf
  <2>. QED BY <2>2 DEF Attempts!ledger
<1>7. CASE Kept(db, db', t)
  <2>1. db.task[t].state = "running" => S = "running" /\ StandingOf(db, t) = "running"
    BY <1>7 DEF Kept, StandingOf
  <2>2. db.task[t].state # "running" => S = StandingOf(db, t)
    BY <1>7 DEF Kept, StandingOf
  <2>. QED BY <1>6, <1>7, <2>1, <2>2 DEF Kept, SameNumbers
<1>8. CASE Reconsidered(db, db', t)
  <2>1. Refreshable(db, t) /\ Refreshable(db', t)
    BY <1>0, <1>8 DEF Reconsidered, Refreshable, Readiness, RowOf
  <2>2. Held(db', t) <=> Held(db, t)
    BY <1>8 DEF Reconsidered, Held
  <2>3. S = StandingOf(db, t)
    BY <2>1, <2>2, EntryIs
  <2>. QED BY <1>6, <1>8, <2>3 DEF Reconsidered, SameNumbers
<1>9. ASSUME Takes(db, db', t)
      PROVE  /\ Refreshable(db, t) /\ Attempts!Completed(Dependencies[t])
             /\ Held(db, t) => A = db.task[t].attempt
             /\ ~Held(db, t) => /\ A = db.task[t].attempt + 1
                                /\ db.task[t].attempt < MaxAttempts[t]
  <2>1. Refreshable(db, t)
    BY <1>9 DEF Takes, Refreshable, Readiness
  <2>2. DependenciesMet(db, t)
    BY <1>0, <1>9 DEF Takes, WaitedOf
  <2>3. Held(db, t) => db.lease[t].id.attempt = db.task[t].attempt
    BY AskedUnder
  <2>. QED BY <1>0, <1>4, <1>9, <2>1, <2>2, <2>3 DEF Takes, CountedOf
<1>10. CASE Offered(db, db', t)
  <2>1. Refreshable(db', t) /\ Held(db', t) /\ Takes(db, db', t)
    BY <1>0, <1>10 DEF Offered, Takes, Refreshable, Readiness, RowOf
  <2>2. S = "offered"
    BY <2>1, EntryIs
  <2>3. CASE Held(db, t)
    BY <1>6, <1>9, <2>1, <2>2, <2>3, EntryIs
  <2>4. CASE ~Held(db, t)
    <3>1. StandingOf(db, t) = "waiting"
      BY <1>9, <2>1, <2>4, EntryIs
    <3>2. Attempts!Offer(t)
      BY <1>1, <1>2, <1>9, <2>1, <2>2, <2>4, <3>1 DEF Attempts!Offer
    <3>. QED BY <3>2 DEF Attempts!Next
  <2>. QED BY <2>3, <2>4
<1>11. CASE Started(db, db', t)
  <2>1. Takes(db, db', t) /\ S = "running" /\ Slots(db) + 1 <= Limit["concurrency"]
    BY <1>11, EntryIs DEF Started
  <2>2. {u \in Tasks : Attempts!Is(u, "running")} = Running(db)
    BY <1>2, StandingMeans DEF Running
  <2>3. Cardinality(Running(db)) < Limit["concurrency"]
    BY <1>0, <2>1, BudgetAssumption DEF SlotsOf, StoreType, Slots, Resources
  <2>4. StandingOf(db, t) = IF Held(db, t) THEN "offered" ELSE "waiting"
    BY <1>9, <2>1, EntryIs
  <2>5. Attempts!Start(t)
    <3>1. /\ Attempts!Completed(Dependencies[t]) /\ Attempts!Becomes(t, "running", A)
          /\ Attempts!Cardinality({u \in Tasks : Attempts!Is(u, "running")})
               < Limit["concurrency"]
      BY <1>1, <1>9, <2>1, <2>2, <2>3 DEF Attempts!Cardinality, Cardinality
    <3>2. CASE Held(db, t)
      <4>1. Attempts!Is(t, "offered") /\ A = entry[t].attempt
        BY <1>2, <1>9, <2>1, <2>4, <3>2
      <4>2. Attempts!Becomes(t, "running", entry[t].attempt)
        BY <3>1, <4>1 DEF Attempts!Becomes
      <4>. QED BY <3>1, <4>1, <4>2 DEF Attempts!Start
    <3>3. CASE ~Held(db, t)
      <4>1. /\ Attempts!Is(t, "waiting") /\ A = entry[t].attempt + 1
            /\ entry[t].attempt < MaxAttempts[t]
        BY <1>2, <1>9, <2>1, <2>4, <3>3
      <4>2. Attempts!Becomes(t, "running", entry[t].attempt + 1)
        BY <3>1, <4>1 DEF Attempts!Becomes
      <4>. QED BY <3>1, <4>1, <4>2 DEF Attempts!Start
    <3>. QED BY <3>2, <3>3
  <2>. QED BY <2>5 DEF Attempts!Next
<1>12. CASE Finished(db, db', t)
  <2>1. /\ Attempts!Is(t, "running") /\ A = entry[t].attempt /\ ~Held(db', t)
        /\ db.lease[t].id.attempt = db.task[t].attempt
    BY <1>2, <1>12, AskedUnder, EntryIs DEF Finished, SameNumbers
  <2>2. CASE /\ db'.task[t].state = "ready"
             /\ t \in ReadOnly /\ db.lease[t].id.attempt < MaxAttempts[t]
    <3>1. S = "waiting"
      BY <2>1, <2>2, EntryIs DEF Refreshable, Readiness
    <3>2. Attempts!Retry(t)
      BY <1>1, <1>2, <2>1, <2>2, <3>1 DEF Attempts!Retry
    <3>. QED BY <3>2 DEF Attempts!Next
  <2>3. CASE db'.task[t].state = "completed" /\ Completes(db, db', t)
    <3>1. S = "completed" /\ Attempts!Completed(ReviewTargets[t])
      <4>1. ReviewTargets[t] \in SUBSET Tasks
        BY GraphAssumption
      <4>2. \A u \in ReviewTargets[t] : db.task[u].state = "completed"
        BY <2>3 DEF Completes
      <4>. QED BY <1>3, <2>3, <4>1, <4>2, EntryIs
    <3>2. Attempts!Complete(t)
      BY <1>1, <2>1, <3>1 DEF Attempts!Complete
    <3>. QED BY <3>2 DEF Attempts!Next
  <2>4. CASE \/ db'.task[t].state \in {"rejected", "superseded"}
             \/ db'.task[t].state = "blocked" /\ db'.task[t].outcome = "unknown"
    <3>1. S \in {"closed", "doubtful"}
      BY <2>4, EntryIs
    <3>2. Attempts!GiveUp(t)
      BY <1>1, <2>1, <3>1 DEF Attempts!GiveUp
    <3>. QED BY <3>2 DEF Attempts!Next
  <2>. QED BY <1>12, <2>2, <2>3, <2>4 DEF Finished
<1>13. CASE Withdrew(db, db', t)
  <2>1. ~Settled(db, t) /\ Held(db, t) /\ db.task[t].state # "running"
    BY <1>0, <1>13 DEF Withdrew, RowOf
  <2>2. Refreshable(db, t)
    BY <1>5, <2>1 DEF Settled, Refreshable, Readiness, States
  <2>3. Refreshable(db', t) /\ ~Held(db', t)
    BY <1>13 DEF Withdrew, Refreshable, Readiness
  <2>4. db.lease[t].id.attempt = db.task[t].attempt
    BY <2>1, AskedUnder
  <2>5. S = "waiting" /\ StandingOf(db, t) = "offered" /\ A = db.task[t].attempt - 1
    BY <1>13, <2>1, <2>2, <2>3, <2>4, EntryIs DEF Withdrew
  <2>6. Attempts!Withdraw(t)
    BY <1>1, <1>2, <2>5 DEF Attempts!Withdraw
  <2>. QED BY <2>6 DEF Attempts!Next
<1>. QED BY <1>7, <1>8, <1>10, <1>11, <1>12, <1>13 DEF Change

\* The scheduler implements the ledger of attempts: each step inside a call moves
\* one task as the ledger allows, a call is committed as a whole or forgotten, and
\* so is whatever tick and request_cancel did before they failed.
THEOREM SchedulerImplementsLedger == Spec => AttemptsKept
<1>1. Init => Attempts!Init
  <2>. SUFFICES ASSUME Init
                PROVE  Attempts!Init
    OBVIOUS
  <2>1. ASSUME NEW t \in Tasks
        PROVE  /\ db.task[t].state \in {"planned", "ready"} /\ db.task[t].outcome = "none"
               /\ db.task[t].attempt = 0 /\ db.lease[t] = NoLease
    BY DEF Init, EmptyStore
  <2>2. ASSUME NEW t \in Tasks
        PROVE  StandingOf(db, t) = "waiting"
    BY <2>1 DEF StandingOf, Held
  <2>3. EntriesOf(db) = [t \in Tasks |-> [standing |-> "waiting", attempt |-> 0]]
    BY <2>1, <2>2 DEF EntriesOf
  <2>. QED BY <2>3 DEF Init, Attempts!Init
<1>2. ASSUME AttemptInv, StepInv', [Next]_vars
      PROVE  [Attempts!Next]_Attempts!ledger
  <2>0. /\ StoreType(disk) /\ StoreType(db) /\ Sound(db) /\ Ledger(db, now)
        /\ StoreType(db') /\ Sound(db')
    BY <1>2 DEF AttemptInv, StepInv, AuthorityInv, TypeInv
  <2>1. CASE disk' = disk /\ db' = db
    BY <2>1 DEF Attempts!ledger
  <2>2. CASE disk' = disk /\ db' = disk
    BY <2>2 DEF Attempts!Next, Attempts!Forget
  <2>3. CASE disk' = disk /\ TaskStep(db, db')
    BY <2>0, <2>3, ChangeInLedger DEF TaskStep
  <2>4. CASE disk' = db /\ db' = db
    BY <2>4 DEF Attempts!Next, Attempts!Commit
  <2>5. CASE disk' \in {disk, db'} /\ Alike(disk, db')
    <3>1. EntriesOf(db') = EntriesOf(disk) /\ EntriesOf(disk') = EntriesOf(disk)
      BY <2>5, EntriesAlike DEF Alike
    <3>. QED BY <3>1 DEF Attempts!Next, Attempts!Forget
  <2>6. \/ disk' = disk /\ db' \in {db, disk}
        \/ disk' = disk /\ TaskStep(db, db')
        \/ disk' = db /\ db' = db
        \/ disk' \in {disk, db'} /\ TaskStep(disk, db') /\ Alike(disk, db')
    BY <1>2, StoreStep DEF AttemptInv
  <2>. QED BY <2>1, <2>2, <2>3, <2>4, <2>5, <2>6
<1>. QED BY <1>1, <1>2, AttemptInvariant, StepInvariant, PTL
         DEF Spec, AttemptsKept, Attempts!Spec

-----------------------------------------------------------------------------
\* What is on record as rejected.

Quiet(d, e) == DOMAIN e = DOMAIN d /\ e.rejected = d.rejected /\ e.mail = d.mail

\* Only the scheduler writes, and it rejects nothing.
Writes(d, e) ==
  /\ DOMAIN e = DOMAIN d
  /\ e.rejected = d.rejected
  /\ \A m \in e.mail : m \in d.mail \/ m.sender = Scheduler

Records(d) == {"mail", "rejected"} \subseteq DOMAIN d

\* The operators on stores that concern one task write no message.
LEMMA QuietOperators ==
  ASSUME NEW d, Records(d), NEW t
  PROVE  /\ \A state, phase, outcome, blockers :
              Quiet(d, Moved(d, t, state, phase, outcome, blockers))
         /\ \A state, blockers : Quiet(d, Readied(d, t, state, blockers))
         /\ \A charge : Quiet(d, Closed(d, t, charge))
         /\ \A reason : Quiet(d, Retried(d, t, reason)) /\ Quiet(d, Quarantined(d, t, reason))
         /\ \A id, expires : Quiet(d, Leased(d, t, id, expires))
         /\ \A id, clock : Quiet(d, Consumed(d, t, id, clock))
         /\ Quiet(d, WithLease(d, t))
         /\ Quiet(d, Withdrawn(d, t))
<1>1. \A state, phase, outcome, blockers :
        Quiet(d, Moved(d, t, state, phase, outcome, blockers))
  BY DEF Records, Quiet, Moved
<1>2. \A state, blockers : Quiet(d, Readied(d, t, state, blockers))
  BY DEF Records, Quiet, Readied
<1>3. \A charge : Quiet(d, Closed(d, t, charge))
  BY DEF Records, Quiet, Closed
<1>4. \A reason : Quiet(d, Retried(d, t, reason)) /\ Quiet(d, Quarantined(d, t, reason))
  BY DEF Records, Quiet, Retried, Quarantined, Moved
<1>5. \A id, expires : Quiet(d, Leased(d, t, id, expires))
  BY DEF Records, Quiet, Leased
<1>6. \A id, clock : Quiet(d, Consumed(d, t, id, clock))
  BY DEF Records, Quiet, Consumed
<1>7. Quiet(d, WithLease(d, t))
  BY <1>5 DEF Quiet, WithLease
<1>8. Quiet(d, Withdrawn(d, t))
  BY DEF Records, Quiet, Withdrawn, Moved
<1>. QED BY <1>1, <1>2, <1>3, <1>4, <1>5, <1>6, <1>7, <1>8

\* A dispatch is the scheduler's own message.
LEMMA WritingOperators ==
  ASSUME NEW d, Records(d), NEW t
  PROVE  /\ \A id, clock : Writes(d, Intent(d, t, id, clock))
         /\ \A clock : Writes(d, Resumed(d, t, clock))
<1>1. ASSUME NEW c, Quiet(d, c), NEW id, NEW clock
      PROVE  Writes(d, Intent(c, t, id, clock))
  BY <1>1 DEF Records, Quiet, Writes, Intent, Outgoing
<1>2. ASSUME NEW clock
      PROVE  Writes(d, Resumed(d, t, clock))
  <2>. DEFINE c == [d EXCEPT !.task[t].phase = "intent_pending",
                             !.task[t].blockers = {}]
              b == [d EXCEPT !.task[t].blockers = {"approval-required"}]
              id == d.lease[t].id
  <2>1. Quiet(d, c) /\ Quiet(d, b) /\ Records(c)
    BY DEF Records, Quiet
  <2>. HIDE DEF b, c, id
  <2>2. Quiet(d, Consumed(c, t, id, clock))
    BY <2>1, QuietOperators DEF Quiet
  <2>3. Writes(d, Intent(Consumed(c, t, id, clock), t, id, clock))
    BY <1>1, <2>2
  <2>4. Writes(d, Moved(d, t, "running", "not_dispatched", "none", {"budget-exhausted"}))
    BY QuietOperators DEF Quiet, Writes
  <2>5. Writes(d, b)
    BY <2>1 DEF Quiet, Writes
  <2>6. \/ Resumed(d, t, clock)
             = Moved(d, t, "running", "not_dispatched", "none", {"budget-exhausted"})
        \/ Resumed(d, t, clock) = b
        \/ Resumed(d, t, clock) = Intent(Consumed(c, t, id, clock), t, id, clock)
    BY DEF Resumed, b, c, id
  <2>. QED BY <2>3, <2>4, <2>5, <2>6
<1>3. Quiet(d, d)
  BY DEF Quiet
<1>. QED BY <1>1, <1>2, <1>3

\* Nothing that the committed store has rejected is adopted there, nor in the
\* open transaction unless it is about to fail; and what hosts are asked is
\* never rejected.
RecordInv ==
  /\ disk.rejected \cap disk.mail = {}
  /\ fault = "none" => db.rejected \cap db.mail = {}
  /\ \A m \in disk.rejected \cup db.rejected : m.sender # Scheduler

\* What can be delivered was not written by the scheduler.
LEMMA DeliveredFrom ==
  ASSUME RecordInv, NEW m \in Deliverable
  PROVE  m.sender # Scheduler
BY HostsAssumption DEF RecordInv, Deliverable, Fresh

\* The steps a transaction takes by itself.
LEMMA WorkWrites ==
  ASSUME TypeInv, NEW t \in Tasks,
         \/ Expire(t) \/ RefreshTask(t) \/ RetryWorktree(t) \/ DispatchReady(t)
         \/ Cancel(t)
  PROVE  Writes(db, db') /\ disk' = disk /\ fault = "none"
<1>0. Records(db)
  BY DEF TypeInv, StoreType, Records
<1>1. ASSUME NEW c, NEW e, Quiet(db, c), Quiet(c, e) \/ Writes(c, e) \/ e = c
      PROVE  Writes(db, e)
  BY <1>1 DEF Quiet, Writes
<1>2. ASSUME NEW c, Quiet(db, c)
      PROVE  Records(c)
  BY <1>0, <1>2 DEF Quiet, Records
<1>3. Quiet(db, db)
  BY DEF Quiet
<1>4. CASE Expire(t)
  <2>1. CASE ProposalExpires(t)
    BY <1>0, <1>1, <1>3, <2>1, QuietOperators DEF ProposalExpires, Record, InTx
  <2>2. CASE LeaseExpires(t)
    <3>. DEFINE c == Closed(db, t, Outstanding(db, db.lease[t].id))
    <3>1. \/ db' = Retried(c, t, "lease-expired-safe-retry")
          \/ db' = Quarantined(c, t, "lease-expired-ambiguous")
      BY <2>2 DEF LeaseExpires, Record
    <3>2. Quiet(db, c)
      BY <1>0, QuietOperators
    <3>. HIDE DEF c
    <3>3. Quiet(c, db')
      BY <1>2, <3>1, <3>2, QuietOperators
    <3>. QED BY <1>1, <2>2, <3>2, <3>3 DEF LeaseExpires, InTx
  <2>. QED BY <1>4, <2>1, <2>2 DEF Expire
<1>5. CASE RefreshTask(t)
  <2>1. \E state, blockers : db' = Readied(db, t, state, blockers)
    BY <1>5 DEF RefreshTask, Refreshed
  <2>. QED BY <1>0, <1>1, <1>3, <1>5, <2>1, QuietOperators DEF RefreshTask, InTx
<1>6. CASE RetryWorktree(t)
  BY <1>0, <1>1, <1>3, <1>6, WritingOperators DEF RetryWorktree, InTx
<1>7. CASE DispatchReady(t)
  <2>. DEFINE w == WithLease(db, t)
              id == Proposed(db, t).id
  <2>0. Quiet(db, w) /\ disk' = disk /\ fault = "none"
    BY <1>0, <1>7, QuietOperators
       DEF DispatchReady, BudgetBlocks, ApprovalBlocks, WorktreeBlocks, RequestWorktree,
           Dispatch, Dispatching, InTx
  <2>. HIDE DEF w, id
  <2>1. CASE BudgetBlocks(t) \/ WorktreeBlocks(t)
    BY <1>0, <1>1, <1>3, <2>0, <2>1, QuietOperators
       DEF BudgetBlocks, WorktreeBlocks, Record
  <2>2. CASE ApprovalBlocks(t)
    <3>1. db' = Readied(w, t, "blocked", {"approval-required"})
      BY <2>2 DEF ApprovalBlocks, Record, w
    <3>2. Quiet(w, db')
      BY <1>2, <2>0, <3>1, QuietOperators
    <3>. QED BY <1>1, <2>0, <3>2
  <2>3. CASE RequestWorktree(t)
    <3>. DEFINE d == Moved(w, t, "running", "not_dispatched", "none", {})
                m == Outgoing([type |-> "worktree_request"], id, now)
    <3>1. db' = [d EXCEPT !.tree[t] = "requested", !.reserved = SlotTaken(d),
                          !.mail = @ \cup {m}]
      BY <2>3 DEF RequestWorktree, Record, w, id
    <3>2. Quiet(w, d) /\ m.sender = Scheduler
      BY <1>2, <2>0, QuietOperators DEF Outgoing
    <3>3. Records(d) /\ Quiet(db, d)
      BY <1>2, <2>0, <3>2 DEF Quiet
    <3>. HIDE DEF d, m
    <3>4. Writes(d, db')
      BY <3>1, <3>2, <3>3 DEF Writes, Records
    <3>. QED BY <1>1, <2>0, <3>3, <3>4
  <2>4. CASE Dispatch(t)
    <3>. DEFINE d == Moved(w, t, "running", "intent_pending", "none", {})
                s == [d EXCEPT !.reserved = SlotTaken(d)]
                c == Consumed(s, t, id, now)
    <3>1. db' = Intent(c, t, id, now)
      BY <2>4 DEF Dispatch, Record, w, id
    <3>2. Quiet(w, d)
      BY <1>2, <2>0, QuietOperators
    <3>3. Records(d) /\ Quiet(db, d)
      BY <1>2, <2>0, <3>2 DEF Quiet
    <3>. HIDE DEF d
    <3>4. Quiet(db, s) /\ Records(s)
      BY <3>3 DEF Quiet, Records
    <3>. HIDE DEF s
    <3>5. Quiet(db, c) /\ Records(c)
      <4>1. Quiet(s, c)
        BY <3>4, QuietOperators
      <4>2. Quiet(db, c)
        BY <3>4, <4>1 DEF Quiet
      <4>. HIDE DEF c
      <4>. QED BY <1>2, <4>2
    <3>. HIDE DEF c
    <3>6. Writes(c, db')
      BY <3>1, <3>5, WritingOperators
    <3>. QED BY <1>1, <2>0, <3>5, <3>6
  <2>. QED BY <1>7, <2>0, <2>1, <2>2, <2>3, <2>4 DEF DispatchReady
<1>8. CASE Cancel(t)
  <2>1. CASE CancelRefused(t) \/ CancelRepeated(t)
    BY <1>1, <1>3, <2>1 DEF CancelRefused, CancelRepeated, InTx
  <2>2. CASE CancelRequested(t)
    <3>. DEFINE m == Outgoing([type |-> "cancel_request"], db.lease[t].id, now)
    <3>1. db' = [db EXCEPT !.mail = @ \cup {m},
                           !.task[t].phase = "cancellation_requested"]
      BY <2>2 DEF CancelRequested, Record
    <3>2. m.sender = Scheduler
      BY DEF Outgoing
    <3>. HIDE DEF m
    <3>3. Writes(db, db')
      BY <1>0, <3>1, <3>2 DEF Writes, Records
    <3>. QED BY <2>2, <3>3 DEF CancelRequested, InTx
  <2>. QED BY <1>8, <2>1, <2>2 DEF Cancel
<1>. QED BY <1>4, <1>5, <1>6, <1>7, <1>8

\* A message that is adopted is the only one of a host that comes in, and one
\* that was rejected before makes the call fail.
LEMMA AdoptionWrites ==
  ASSUME TypeInv, NEW m, Ingest(m), ~Reject(m), db' # db
  PROVE  /\ Writes(Received(m), db') /\ disk' = disk
         /\ Adopting(m)
         /\ fault' = "none" => m \notin db.rejected
<1>. DEFINE r == Received(m)
            t == m.lid.task
<1>0. /\ Records(db) /\ Records(r) /\ Quiet(r, r)
      /\ r.rejected = db.rejected /\ r.mail = db.mail \cup {m}
  BY DEF TypeInv, StoreType, Records, Quiet, Received
<1>1. ASSUME NEW c, NEW e, Quiet(r, c), Quiet(c, e) \/ Writes(c, e) \/ e = c
      PROVE  Writes(r, e)
  BY <1>1 DEF Quiet, Writes
<1>2. ASSUME NEW c, Quiet(r, c)
      PROVE  Records(c)
  BY <1>0, <1>2 DEF Quiet, Records
<1>3. ASSUME NEW charge
      PROVE  /\ Quiet(r, Closed(r, t, charge)) /\ Records(Closed(r, t, charge))
  BY <1>0, <1>2, QuietOperators
<1>4. /\ Adopting(m) /\ disk' = disk
      /\ fault' = "none" => m \notin db.rejected
  BY DEF Ingest, Redelivered, CapabilityObserved, ApprovalReceived, DispatchAccepted,
         DispatchRejected, Heartbeat, ResultRaises, ResultSucceeded, ResultUnsuccessful,
         CancelAcknowledged, WorktreeObserved, Adopt, AdoptionReplays, Reject
<1>. HIDE DEF r, t
<1>5. CASE CapabilityObserved(m) \/ Heartbeat(m) \/ DispatchAccepted(m)
  <2>1. Quiet(r, db')
    BY <1>0, <1>5 DEF CapabilityObserved, Heartbeat, DispatchAccepted, Adopt, Quiet,
                      Records, r
  <2>. QED BY <1>0, <1>1, <1>4, <2>1 DEF r
<1>6. CASE ApprovalReceived(m)
  <2>1. db' = r \/ db' = Resumed(r, t, now)
    BY <1>6 DEF ApprovalReceived, r, t
  <2>2. Writes(r, db')
    BY <1>0, <1>1, <2>1, WritingOperators
  <2>. QED BY <1>4, <2>2 DEF r
<1>7. CASE \/ DispatchRejected(m) \/ ResultSucceeded(m) \/ ResultUnsuccessful(m)
           \/ CancelAcknowledged(m)
  <2>1. \E charge :
          LET c == Closed(r, t, charge)
          IN  \/ \E reason : db' = Retried(c, t, reason) \/ db' = Quarantined(c, t, reason)
              \/ \E state, phase, outcome, blockers :
                   db' = Moved(c, t, state, phase, outcome, blockers)
    BY <1>7 DEF DispatchRejected, ResultSucceeded, Verified, ResultUnsuccessful,
                CancelAcknowledged, Adopt, r, t
  <2>2. PICK charge : Quiet(Closed(r, t, charge), db')
    BY <1>3, <2>1, QuietOperators
  <2>3. Writes(r, db')
    BY <1>1, <1>3, <2>2
  <2>. QED BY <1>4, <2>3 DEF r
<1>8. CASE WorktreeObserved(m)
  <2>. DEFINE o == [r EXCEPT !.tree[t] = "observed"]
              c == Closed(r, t, Nothing)
  <2>1. \/ \E reason : db' = Quarantined(c, t, reason)
        \/ db' = Resumed(o, t, now)
    BY <1>8 DEF WorktreeObserved, Adopt, r, t
  <2>2. Quiet(r, o) /\ Records(o)
    BY <1>0 DEF Quiet, Records
  <2>3. Quiet(r, c) /\ Records(c)
    BY <1>3
  <2>. HIDE DEF o, c
  <2>4. Quiet(c, db') \/ Writes(o, db')
    BY <2>1, <2>2, <2>3, QuietOperators, WritingOperators
  <2>5. Writes(r, db')
    BY <1>1, <2>2, <2>3, <2>4
  <2>. QED BY <1>4, <2>5 DEF r
<1>9. ~Redelivered(m) /\ ~ResultRaises(m)
  BY DEF Redelivered, ResultRaises
<1>. QED BY <1>5, <1>6, <1>7, <1>8, <1>9 DEF Ingest

\* Every step of the scheduler keeps the ledger and the endings of both stores.
LEMMA RecordStep == RecordInv /\ TypeInv /\ [Next]_vars => RecordInv'
<1>. SUFFICES ASSUME RecordInv, TypeInv, [Next]_vars
              PROVE  RecordInv'
  OBVIOUS
<1>0. Records(disk) /\ Records(db)
  BY DEF TypeInv, StoreType, Records
<1>1. CASE UNCHANGED vars
  BY <1>1 DEF vars, RecordInv
<1>2. CASE \/ AdvanceClock \/ \E h \in Hosts : BeginTick(h)
           \/ \E h \in Hosts, t \in Tasks : BeginCancelCheck(h, t) \/ BeginCancel(h, t)
  <2>1. /\ Quiet(disk, [disk EXCEPT !.spoke = Scheduler])
        /\ Quiet(disk, Observed(disk))
    BY <1>0 DEF Records, Quiet, Observed
  <2>2. Quiet(disk, db') /\ disk' \in {disk, db'}
    BY <1>2, <2>1 DEF AdvanceClock, BeginTick, BeginCancelCheck, BeginCancel, Begin
  <2>. QED BY <2>2 DEF RecordInv, Quiet
<1>3. CASE \E t \in Tasks : Expire(t) \/ RefreshTask(t) \/ RetryWorktree(t)
                            \/ DispatchReady(t) \/ Cancel(t)
  <2>1. Writes(db, db') /\ disk' = disk /\ fault = "none"
    BY <1>3, WorkWrites
  <2>. QED BY <2>1 DEF RecordInv, Writes
<1>4. ASSUME NEW m \in Deliverable, Ingest(m)
      PROVE  RecordInv'
  <2>0. disk' = disk /\ fault = "none"
    BY <1>4 DEF Ingest, Redelivered, Reject, CapabilityObserved, ApprovalReceived,
           DispatchAccepted, DispatchRejected, Heartbeat, ResultRaises,
           ResultSucceeded, ResultUnsuccessful, CancelAcknowledged,
           WorktreeObserved, Adopt, Adopting, Delivering, InTx
  <2>1. m.sender # Scheduler
    BY DeliveredFrom
  <2>2. CASE db' = db
    BY <2>0, <2>2 DEF RecordInv
  <2>3. CASE Reject(m)
    <3>1. /\ m \notin db.mail /\ db'.mail = db.mail
          /\ db'.rejected = db.rejected \cup {m}
      BY <1>0, <2>3 DEF Reject, Records
    <3>. QED BY <2>0, <2>1, <3>1 DEF RecordInv
  <2>4. CASE ~Reject(m) /\ db' # db
    <3>1. Writes(Received(m), db') /\ (fault' = "none" => m \notin db.rejected)
      BY <1>4, <2>4, AdoptionWrites
    <3>2. Received(m).rejected = db.rejected /\ Received(m).mail = db.mail \cup {m}
      BY <1>0 DEF Received, Records
    <3>. QED BY <2>0, <2>1, <3>1, <3>2 DEF RecordInv, Writes
  <2>. QED BY <2>2, <2>3, <2>4
<1>5. CASE ExpiryDone \/ IngestDone \/ RefreshDone \/ RetryDone \/ DispatchDone
  BY <1>5 DEF ExpiryDone, IngestDone, RefreshDone, RetryDone, DispatchDone, RecordInv
<1>6. CASE Commit \/ Abort \/ Crash
  BY <1>6 DEF Commit, Abort, Crash, InTx, RecordInv
<1>. QED BY <1>1, <1>2, <1>3, <1>4, <1>5, <1>6 DEF Next, Work, Call

\* No message is on record as both rejected and adopted, although a rejected
\* one is delivered again and may be adoptable by then: its adoption is not
\* replayable, so that the call fails and is rolled back.
THEOREM RejectedIsRejected == Spec => []RejectedStaysOut
<1>1. Init => RecordInv
  BY DEF Init, EmptyStore, RecordInv
<1>2. RecordInv => RejectedStaysOut
  BY DEF RecordInv, RejectedStaysOut
<1>. QED BY <1>1, <1>2, RecordStep, TypeInvariant, PTL DEF Spec
=============================================================================
