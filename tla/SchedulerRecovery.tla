-------------------------- MODULE SchedulerRecovery --------------------------
(***************************************************************************)
(* recover_scheduler_database beside the scheduler it recovers: under the  *)
(* write lock of the source it validates the evidence, rebuilds the        *)
(* mutable rows from it in a temporary file, validates that, and links it  *)
(* to the output path, which must not exist.  It can die anywhere.  No     *)
(* step of it reads a mutable row of the source, so the model need not     *)
(* damage them: disk stays what the scheduler wrote.                       *)
(* Also here: the two derivations of the Scheduler State, status and       *)
(* historical_status, and the rows' common origin, the evidence.           *)
(***************************************************************************)
EXTENDS SchedulerEvidence, SchedulerAudit

CONSTANT MaxEvents  \* bound: a call begins only on a shorter event log

VARIABLES
  rec,     \* the recovery process: where it is and what it has built
  output   \* the file at the output path, or NoFile

recoveryVars == <<evidenceVars, rec, output>>

NoFile == [evidence |-> <<>>, rows |-> <<>>]
AtRest == [pc |-> "idle", digest |-> <<>>, file |-> NoFile]

\* The mutable tables, of those rows the evidence determines.
RowsOf(d) ==
  [task |-> d.task, lease |-> d.lease, tree |-> d.tree, reserved |-> d.reserved,
   used |-> d.used, consumed |-> d.consumed, caps |-> d.caps]

-----------------------------------------------------------------------------
\* _rebuild_from_evidence.

Historied(rows, t) == {row \in ToSet(rows) : row.task = t}

RebuiltLease(e, t) ==
  LET row == Latest(Historied(e.leases, t))
  IN  IF IsCurrent(row) THEN [id |-> row.id, expires |-> row.expires] ELSE NoLease

RebuiltTree(e, t) ==
  LET row == Latest(Historied(e.trees, t))
  IN  IF ActiveTree(row) THEN row.status ELSE "none"

\* The projections, each event's over the one before.
RebuiltTasks(e) ==
  FoldLeft(LAMBDA tasks, event :
             IF event.after = Absent THEN tasks
                                     ELSE [tasks EXCEPT ![event.task] = event.after],
           [t \in Tasks |-> InitialProjection(t)], e.events)

RebuiltCaps(e) ==
  FoldLeft(LAMBDA caps, event :
             IF event.cause # "capability-observed" THEN caps
             ELSE [caps EXCEPT ![event.msg.sender] = event.msg.say.caps],
           [h \in Hosts |-> {}], e.events)

Rebuilt(e) ==
  [task     |-> RebuiltTasks(e),
   lease    |-> [t \in Tasks |-> RebuiltLease(e, t)],
   tree     |-> [t \in Tasks |-> RebuiltTree(e, t)],
   reserved |-> Last(e.ledgers).reserved,
   used     |-> Last(e.ledgers).used,
   consumed |-> {event.msg : event \in {v \in ToSet(e.events) :
                                          v.cause = "approval-consumed"}},
   caps     |-> RebuiltCaps(e)]

-----------------------------------------------------------------------------
\* recover_scheduler_database.

Resting == UNCHANGED evidenceVars

\* BEGIN IMMEDIATE and the digest of the evidence.
Lock ==
  /\ rec.pc = "idle" /\ tx = Idle
  /\ rec' = [AtRest EXCEPT !.pc = "build", !.digest = kept]
  /\ UNCHANGED output /\ Resting

\* _validate_evidence_connection, then the temporary database, committed,
\* validated and compared; what fails ends the recovery without an output.
Build ==
  LET file == [evidence |-> kept, rows |-> Rebuilt(kept)]
  IN  /\ rec.pc = "build"
      /\ rec' = IF StoreReplays(file.evidence, file.rows) /\ file.evidence = rec.digest
                  THEN [rec EXCEPT !.pc = "publish", !.file = file] ELSE AtRest
      /\ UNCHANGED output /\ Resting

\* os.link: nothing is written over, and the file appears whole.
Publish ==
  /\ rec.pc = "publish"
  /\ IF output = NoFile
       THEN output' = rec.file /\ rec' = [rec EXCEPT !.pc = "finish"]
       ELSE rec' = AtRest /\ UNCHANGED output
  /\ Resting

\* The source's lock goes, the temporary name too, and the output is
\* validated once more.
Finish ==
  /\ rec.pc = "finish"
  /\ rec' = AtRest
  /\ UNCHANGED output /\ Resting

Die ==
  /\ rec.pc # "idle"
  /\ rec' = AtRest
  /\ UNCHANGED output /\ Resting

\* A call opens its transaction only while no recovery holds the lock, and
\* only after self.validate() of the whole store.
M_MayBegin == Len(kept.events) < MaxEvents
MayBegin == rec.pc = "idle" /\ Len(kept.events) < MaxEvents

RecoveryInit ==
  /\ EvidenceInit
  /\ rec = AtRest
  /\ output = NoFile

RecoveryNext ==
  \/ EvidenceNext /\ (tx = Idle /\ tx' # Idle => MayBegin) /\ UNCHANGED <<rec, output>>
  \/ Lock \/ Build \/ Publish \/ Finish \/ Die

RecoverySpec == RecoveryInit /\ [][RecoveryNext]_recoveryVars

-----------------------------------------------------------------------------
\* The Scheduler State, derived twice.

ReadyIn(tasks) == SelectSeq(DispatchOrder, LAMBDA t : tasks[t].state = "ready")

\* _status, from the mutable rows and the messages table.
Status(e, d) ==
  [tasks    |-> d.task,
   ready    |-> ReadyIn(d.task),
   leases   |-> {d.lease[t].id : t \in {t \in Tasks : Held(d, t)}},
   messages |-> ToSet(e.mail),
   ledger   |-> <<d.reserved, d.used>>,
   trees    |-> {<<t, d.tree[t]>> : t \in {t \in Tasks : d.tree[t] # "none"}},
   head     |-> Len(e.events)]

\* _historical_scheduler_state, from the evidence up to event n.
Historical(e, n) ==
  LET upTo(rows) == SelectSeq(rows, LAMBDA row : row.n <= n)
      prefix == [e EXCEPT !.events = SubSeq(@, 1, n), !.leases = upTo(@),
                          !.trees = upTo(@), !.ledgers = upTo(@)]
      leases == {Latest(Historied(prefix.leases, t)) : t \in Tasks}
      trees  == [t \in Tasks |-> RebuiltTree(prefix, t)]
  IN  [tasks    |-> RebuiltTasks(prefix),
       ready    |-> ReadyIn(RebuiltTasks(prefix)),
       leases   |-> {row.id : row \in {row \in leases : IsCurrent(row)}},
       messages |-> {v.msg : v \in ToSet(prefix.events)} \ {Absent},
       ledger   |-> <<Last(prefix.ledgers).reserved, Last(prefix.ledgers).used>>,
       trees    |-> {<<t, trees[t]>> : t \in {t \in Tasks : trees[t] # "none"}},
       head     |-> n]

-----------------------------------------------------------------------------
\* Properties.

\* The four checks of SchedulerReplay are the only ones a legal schedule can
\* fail: what they let commit, the whole validation lets commit, row by row.
\* (Were it not so, a call would abort for ever on a store that is in order.)
Committing == tx.pc = "commit" /\ fault = "none"

CommitsReplay == Committing => StoreReplays(log, db)

\* No evidence row can vanish unnoticed: without any one message, Lease row,
\* worktree row or budget snapshot the evidence no longer replays.
EveryRowCounts ==
  Committing =>
    \A table \in {"mail", "leases", "trees", "ledgers"} :
      \A i \in DOMAIN log[table] :
        ~EvidenceReplays([log EXCEPT ![table] = RemoveAt(@, i)])

\* A recovery that publishes, publishes once and whole: the evidence of the
\* source as it is, and the mutable rows the scheduler itself had written.
PublishesLive ==
  output' # output =>
    /\ output = NoFile
    /\ output' = [evidence |-> kept, rows |-> RowsOf(disk)]
RecoveredIsLive == [][PublishesLive]_recoveryVars

\* The code does not keep this one: the two derivations of the head's
\* Scheduler State agree.
HeadIsStatus ==
  (tx = Idle) => Historical(kept, Len(kept.events)) = Status(kept, disk)
=============================================================================
