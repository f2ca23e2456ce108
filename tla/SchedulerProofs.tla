--------------------------- MODULE SchedulerProofs ---------------------------
(***************************************************************************)
(* The scheduler is type correct, and Authority and WorktreeExclusive hold *)
(* of every store: for every graph, budget, vocabulary and set of hosts    *)
(* that the ASSUMEs of SchedulerStore admit, and for any number of calls   *)
(* and crashes.                                                            *)
(***************************************************************************)
EXTENDS SchedulerSafety, TLAPS

USE DEF AttemptResources

-----------------------------------------------------------------------------
\* What the operators on stores return.

\* A reservation is read from a message only the scheduler writes.
LEMMA ReservedType ==
  ASSUME NEW d, StoreType(d), NEW id
  PROVE  /\ Reserved(d, id) \in [AttemptResources -> Int]
         /\ Outstanding(d, id) \in [AttemptResources -> Int]
<1>1. Reserved(d, id) \in [AttemptResources -> Int]
  <2>1. CASE ~Dispatched(d, id)
    BY <2>1 DEF Reserved, Nothing
  <2>2. CASE Dispatched(d, id)
    <3>1. PICK m \in Adopted(d, "dispatch_intent", id) :
            Reserved(d, id) = m.say.reservation
      BY <2>2 DEF Reserved, Dispatched
    <3>2. m \in Messages /\ m.say.type = "dispatch_intent"
      BY <3>1 DEF Adopted, StoreType
    <3>3. m.say \notin Vocabulary
      BY <3>2, VocabularyAssumption DEF HostTypes
    <3>4. m.say \in [type : {"dispatch_intent"},
                     reservation : [AttemptResources -> Int]]
      BY <3>2, <3>3 DEF Messages, Egress
    <3>. QED BY <3>1, <3>4
  <2>. QED BY <2>1, <2>2
<1>. QED BY <1>1 DEF Outstanding

\* What a dispatch books for a task (an amount of every attempt resource) is an integer per resource.
LEMMA ReservationType ==
  ASSUME NEW d, StoreType(d), NEW t \in Tasks
  PROVE  Reservation(d, t) \in [AttemptResources -> Int]
<1>1. /\ Limit["microunits"] \in Int
      /\ d.reserved["microunits"] \in Int
      /\ d.used["microunits"] \in Int
  BY BudgetAssumption DEF StoreType, Resources
<1>2. /\ Cost[t]["context_bytes"] \in Int
      /\ Cost[t]["tool_calls"] \in Int
  BY BudgetAssumption
<1>. QED BY <1>1, <1>2 DEF Reservation

\* Adding to and taking from the reservation table keeps it a table of integers.
LEMMA RaisedLowered ==
  ASSUME NEW f \in [Resources -> Int], NEW g \in [AttemptResources -> Int]
  PROVE  /\ Raised(f, g) \in [Resources -> Int]
         /\ Lowered(f, g) \in [Resources -> Int]
BY DEF Raised, Lowered, Resources

-----------------------------------------------------------------------------
\* The operators on stores keep every table well formed.

\* A task row written by the store's _transition is a well-formed row.
LEMMA MovedType ==
  ASSUME NEW d, StoreType(d), NEW t \in Tasks,
         NEW state \in States, NEW phase \in Phases, NEW outcome \in Outcomes,
         NEW blockers \in SUBSET Reasons
  PROVE  StoreType(Moved(d, t, state, phase, outcome, blockers))
<1>. DEFINE row == [d.task[t] EXCEPT !.state = state, !.phase = phase,
                                     !.outcome = outcome, !.blockers = blockers]
            e == Moved(d, t, state, phase, outcome, blockers)
<1>0. d.task[t] \in TaskRows
  BY DEF StoreType
<1>1. row \in TaskRows
  BY <1>0 DEF TaskRows
<1>2. e = [d EXCEPT !.task = [d.task EXCEPT ![t] = row]]
  BY DEF Moved, StoreType
<1>. HIDE DEF row
<1>3. [d.task EXCEPT ![t] = row] \in [Tasks -> TaskRows]
  BY <1>1 DEF StoreType
<1>. QED BY <1>2, <1>3 DEF StoreType

\* So is a row put into one of the states of the readiness computation.
LEMMA ReadiedType ==
  ASSUME NEW d, StoreType(d), NEW t \in Tasks, NEW state \in States,
         NEW blockers \in SUBSET Reasons
  PROVE  StoreType(Readied(d, t, state, blockers))
<1>. DEFINE row == [d.task[t] EXCEPT !.state = state, !.blockers = blockers]
<1>0. d.task[t] \in TaskRows
  BY DEF StoreType
<1>1. row \in TaskRows
  BY <1>0 DEF TaskRows
<1>2. Readied(d, t, state, blockers) =
        [d EXCEPT !.task = [d.task EXCEPT ![t] = row]]
  BY DEF Readied, StoreType
<1>. HIDE DEF row
<1>3. [d.task EXCEPT ![t] = row] \in [Tasks -> TaskRows]
  BY <1>1 DEF StoreType
<1>. QED BY <1>2, <1>3 DEF StoreType

\* Deleting a lease and settling its reservation keeps the tables well formed.
LEMMA ClosedType ==
  ASSUME NEW d, StoreType(d), NEW t \in Tasks,
         NEW charge \in [AttemptResources -> Int]
  PROVE  StoreType(Closed(d, t, charge))
<1>. DEFINE out == Outstanding(d, d.lease[t].id)
<1>1. out \in [AttemptResources -> Int]
  BY ReservedType
<1>2. SlotFreed(d) \in [Resources -> Int]
  BY DEF StoreType, Resources, SlotFreed
<1>3. Lowered(SlotFreed(d), out) \in [Resources -> Int]
  BY <1>1, <1>2, RaisedLowered
<1>4. Raised(d.used, charge) \in [Resources -> Int]
  BY RaisedLowered DEF StoreType
<1>. HIDE DEF out
<1>5. Closed(d, t, charge) =
        [d EXCEPT !.lease = [d.lease EXCEPT ![t] = NoLease],
                  !.tree = [d.tree EXCEPT ![t] = "none"],
                  !.reserved = Lowered(SlotFreed(d), out),
                  !.used = Raised(d.used, charge)]
  BY DEF Closed, StoreType, out
<1>. QED BY <1>3, <1>4, <1>5 DEF StoreType

\* So does opening the way to another attempt.
LEMMA RetriedType ==
  ASSUME NEW d, StoreType(d), NEW t \in Tasks, NEW reason \in Reasons
  PROVE  /\ StoreType(Retried(d, t, reason))
         /\ StoreType(Quarantined(d, t, reason))
<1>. DEFINE e == Moved(d, t, "ready", "not_dispatched", "failed", {reason})
<1>1. StoreType(e)
  BY MovedType DEF States, Phases, Outcomes
<1>. HIDE DEF e
<1>2. StoreType([e EXCEPT !.used["retries"] = @ + 1])
  BY <1>1 DEF StoreType, Resources
<1>3. StoreType(Retried(d, t, reason))
  BY <1>2 DEF Retried, e
<1>. QED BY <1>3, MovedType DEF Quarantined, States, Phases, Outcomes

\* So does granting a lease.
LEMMA LeasedType ==
  ASSUME NEW d, StoreType(d), NEW t \in Tasks,
         NEW id \in LeaseIds, NEW expires \in Nat
  PROVE  StoreType(Leased(d, t, id, expires))
<1>. DEFINE row == [id |-> id, expires |-> expires]
            task == [d.task[t] EXCEPT !.attempt = id.attempt, !.fence = id.fence]
<1>1. d.task[t] \in TaskRows /\ id.attempt \in Nat /\ id.fence \in Nat
  BY DEF StoreType, LeaseIds
<1>2. task \in TaskRows
  BY <1>1 DEF TaskRows
<1>3. row \in LeaseRows
  BY DEF LeaseRows
<1>. HIDE DEF row, task
<1>4. Leased(d, t, id, expires) =
        [d EXCEPT !.lease = [d.lease EXCEPT ![t] = row],
                  !.history = d.history \cup {row},
                  !.task = [d.task EXCEPT ![t] = task]]
  BY DEF Leased, StoreType, row, task
<1>. QED BY <1>2, <1>3, <1>4 DEF StoreType

\* Which approvals there are depends on the messages and on what is consumed.
LEMMA GrantsDepend ==
  ASSUME NEW d, NEW e, d.mail = e.mail, d.consumed = e.consumed,
         NEW t, NEW id, NEW stop
  PROVE  Grants(d, t, id, stop, now) = Grants(e, t, id, stop, now)
BY DEF Grants, Adopted

\* So does consuming the approval of a lease.
LEMMA ConsumedType ==
  ASSUME NEW d, StoreType(d), NEW t \in Tasks, NEW id, Approved(d, t, id, now)
  PROVE  StoreType(Consumed(d, t, id, now))
<1>. DEFINE new == {CHOOSE m \in Grants(d, t, id, stop, now) : TRUE :
                      stop \in ApprovalStops[t]}
<1>1. new \subseteq d.mail
  BY DEF Approved, Grants, Adopted
<1>. HIDE DEF new
<1>2. Consumed(d, t, id, now) = [d EXCEPT !.consumed = d.consumed \cup new]
  BY DEF Consumed, new
<1>. QED BY <1>1, <1>2 DEF StoreType

\* A message the scheduler sends is a well-formed message row.
LEMMA OutgoingType ==
  ASSUME NEW id \in LeaseIds, now \in Nat,
         NEW say \in Egress
  PROVE  Outgoing(say, id, now) \in Messages
BY DEF Outgoing, Messages

\* So is the store in which a dispatch intent was written to the outbox.
LEMMA IntentType ==
  ASSUME NEW d, StoreType(d), NEW t \in Tasks, NEW id \in LeaseIds, now \in Nat
  PROVE  StoreType(Intent(d, t, id, now))
<1>. DEFINE res == Reservation(d, t)
            m == Outgoing([type |-> "dispatch_intent", reservation |-> res], id, now)
<1>1. res \in [AttemptResources -> Int]
  BY ReservationType
<1>2. m \in Messages
  <2>1. [type |-> "dispatch_intent", reservation |-> res] \in Egress
    BY <1>1 DEF Egress
  <2>. QED BY <2>1, OutgoingType
<1>3. Raised(d.reserved, res) \in [Resources -> Int]
  BY <1>1, RaisedLowered DEF StoreType
<1>4. [d.used EXCEPT !["dispatches"] = @ + 1] \in [Resources -> Int]
  BY DEF StoreType, Resources
<1>. HIDE DEF res, m
<1>5. Intent(d, t, id, now) =
        [d EXCEPT !.mail = d.mail \cup {m},
                  !.reserved = Raised(d.reserved, res),
                  !.used = [d.used EXCEPT !["dispatches"] = @ + 1]]
  BY DEF Intent, StoreType, res, m
<1>. QED BY <1>2, <1>3, <1>4, <1>5 DEF StoreType

\* The lease of a task that holds one is a lease row with an identity.
LEMMA HeldType ==
  ASSUME NEW d, StoreType(d), NEW t \in Tasks, Held(d, t)
  PROVE  d.lease[t] \in LeaseRows /\ d.lease[t].id \in LeaseIds
BY DEF StoreType, Held, LeaseRows

\* Restarting the heartbeat deadline of a held lease keeps the tables well formed.
LEMMA ResumedType ==
  ASSUME NEW d, StoreType(d), NEW t \in Tasks, Held(d, t), now \in Nat
  PROVE  StoreType(Resumed(d, t, now))
<1>. DEFINE id == d.lease[t].id
            pending == [d EXCEPT !.task[t].phase = "intent_pending",
                                 !.task[t].blockers = {}]
<1>1. id \in LeaseIds
  BY HeldType
<1>2. CASE ~BudgetAllows(d, t, 0)
  <2>1. StoreType(Moved(d, t, "running", "not_dispatched", "none",
                        {"budget-exhausted"}))
    BY MovedType DEF States, Phases, Outcomes, Reasons
  <2>. QED BY <1>2, <2>1 DEF Resumed
<1>3. CASE BudgetAllows(d, t, 0) /\ ~Approved(d, t, id, now)
  <2>1. d.task[t] \in TaskRows
    BY DEF StoreType
  <2>2. [d.task[t] EXCEPT !.blockers = {"approval-required"}] \in TaskRows
    BY <2>1 DEF TaskRows, Reasons
  <2>3. StoreType([d EXCEPT !.task[t].blockers = {"approval-required"}])
    BY <2>2 DEF StoreType
  <2>. QED BY <1>3, <2>3 DEF Resumed
<1>4. CASE BudgetAllows(d, t, 0) /\ Approved(d, t, id, now)
  <2>1. d.task[t] \in TaskRows
    BY DEF StoreType
  <2>2. [d.task[t] EXCEPT !.phase = "intent_pending", !.blockers = {}] \in TaskRows
    BY <2>1 DEF TaskRows, Phases
  <2>3. pending = [d EXCEPT !.task = [d.task EXCEPT ![t] =
                     [d.task[t] EXCEPT !.phase = "intent_pending", !.blockers = {}]]]
    BY DEF StoreType
  <2>4. StoreType(pending) /\ pending.mail = d.mail /\ pending.consumed = d.consumed
    BY <2>2, <2>3 DEF StoreType
  <2>. HIDE DEF pending
  <2>5. Approved(pending, t, id, now)
    BY <1>4, <2>4, GrantsDepend DEF Approved
  <2>6. StoreType(Consumed(pending, t, id, now))
    BY <2>4, <2>5, ConsumedType
  <2>7. StoreType(Intent(Consumed(pending, t, id, now), t, id, now))
    BY <1>1, <2>6, IntentType
  <2>. QED BY <1>4, <2>7 DEF Resumed, pending
<1>. QED BY <1>2, <1>3, <1>4

\* So does writing a delivered message into the inbox.
LEMMA ReceivedType ==
  ASSUME NEW m \in Messages, StoreType(db)
  PROVE  StoreType(Received(m))
BY DEF Received, StoreType

\* So does withdrawing an attempt that was granted but never intended.
LEMMA WithdrawnType ==
  ASSUME NEW d, StoreType(d), NEW t \in Tasks, Held(d, t)
  PROVE  StoreType(Withdrawn(d, t))
<1>. DEFINE e == Moved(d, t, "ready", "not_dispatched", d.task[t].outcome, {})
            row == [e.task[t] EXCEPT !.attempt = d.lease[t].id.attempt - 1,
                                     !.fence = d.lease[t].id.fence - 1]
<1>1. d.task[t] \in TaskRows
  BY DEF StoreType
<1>2. d.task[t].outcome \in Outcomes
  BY <1>1 DEF TaskRows
<1>3. StoreType(e)
  BY <1>2, MovedType DEF States, Phases
<1>4. /\ d.lease[t].id.attempt - 1 \in Nat
      /\ d.lease[t].id.fence - 1 \in Nat
  <2>1. d.lease[t].id \in LeaseIds
    BY HeldType
  <2>. QED BY <2>1 DEF LeaseIds
<1>. HIDE DEF e
<1>5. e.task[t] \in TaskRows
  BY <1>3 DEF StoreType
<1>6. row \in TaskRows
  BY <1>4, <1>5 DEF TaskRows
<1>. HIDE DEF row
<1>7. Withdrawn(d, t) =
        [e EXCEPT !.lease = [e.lease EXCEPT ![t] = NoLease],
                  !.tree = [e.tree EXCEPT ![t] = "none"],
                  !.task = [e.task EXCEPT ![t] = row]]
  BY <1>3 DEF Withdrawn, StoreType, e, row
<1>. QED BY <1>3, <1>6, <1>7 DEF StoreType

-----------------------------------------------------------------------------
\* The inductive invariant: both stores are well formed, and a transaction
\* that is open was opened by a host and knows where its expiry pass leads.

TxOK ==
  /\ tx \in [pc : {"idle", "expire", "ingest", "refresh", "retry", "dispatch",
                   "cancel", "commit"},
             after : {"idle", "ingest", "cancel", "commit"},
             host : Hosts \cup {Scheduler}, target : SUBSET Tasks, i : Nat]
  /\ tx.pc # "idle" => tx.host \in Hosts /\ tx.after # "idle"

Faults == {"none", "transition", "readiness", "lease-authority", "rejection",
           "raised"}

TypeInv ==
  /\ StoreType(disk) /\ StoreType(db)
  /\ TxOK
  /\ fault \in Faults
  /\ now \in Nat

\* The invariant that is proved contains the one the runs check.
LEMMA TypeInvImplies == TypeInv => TypeOK
BY DEF TypeInv, TypeOK, TxOK, Faults, Everywhere

\* The transaction record of an idle store is well formed.
LEMMA IdleOK == Idle \in [pc : {"idle"}, after : {"idle"},
                         host : {Scheduler}, target : SUBSET Tasks, i : Nat]
BY DEF Idle

\* A freshly initialised store is well formed.
LEMMA TypeInit == Init => TypeInv
<1>. SUFFICES ASSUME Init PROVE TypeInv
  OBVIOUS
<1>1. StoreType(EmptyStore)
  <2>1. EmptyStore.task \in [Tasks -> TaskRows]
    BY DEF EmptyStore, TaskRows, States, Phases, Outcomes
  <2>. HIDE DEF TaskRows
  <2>. QED BY <2>1 DEF EmptyStore, StoreType
<1>2. TxOK
  BY IdleOK DEF Init, TxOK, Idle
<1>. QED BY <1>1, <1>2 DEF Init, TypeInv, Faults

\* Moving within a transaction.
LEMMA TxSteps ==
  ASSUME TxOK, tx.pc # "idle"
  PROVE  /\ \A pc \in {"expire", "ingest", "refresh", "retry", "dispatch",
                       "cancel", "commit"} : Goto(pc) => TxOK'
         /\ \A i \in Nat : tx' = [tx EXCEPT !.i = i + 1] => TxOK'
         /\ Advance => TxOK'
         /\ tx' = Idle => TxOK'
<1>1. ASSUME NEW pc \in {"expire", "ingest", "refresh", "retry",
                        "dispatch", "cancel", "commit"}, Goto(pc)
      PROVE  TxOK'
  BY <1>1 DEF TxOK, Goto
<1>2. ASSUME NEW i \in Nat, tx' = [tx EXCEPT !.i = i + 1]
      PROVE  TxOK'
  BY <1>2 DEF TxOK
<1>3. Advance => TxOK'
  BY <1>2 DEF Advance, TxOK
<1>4. tx' = Idle => TxOK'
  BY IdleOK DEF TxOK, Idle
<1>. QED BY <1>1, <1>2, <1>3, <1>4

\* The two orders in which the transactions visit the tasks are finite.
LEMMA OrdersType == Len(IdOrder) \in Nat /\ Len(DispatchOrder) \in Nat
BY OrderAssumption

\* Visiting a task of an order keeps the transaction record, and the task is one of those due.
LEMMA VisitSteps ==
  ASSUME TxOK, tx.pc # "idle", NEW CONSTANT order, Len(order) \in Nat,
         NEW CONSTANT t, NEW STATE due, Visit(order, t, due)
  PROVE  TxOK' /\ t \in due
<1>1. t \in due /\ \E i \in tx.i..Len(order) : tx' = [tx EXCEPT !.i = i + 1]
  BY DEF Visit
<1>2. \E i \in Nat : tx' = [tx EXCEPT !.i = i + 1]
  BY <1>1 DEF TxOK
<1>. QED BY <1>1, <1>2, TxSteps

\* Every message a tick can be given is a message.
LEMMA DeliverableType ==
  ASSUME StoreType(disk), now \in Nat
  PROVE  Deliverable \subseteq Messages
<1>1. Fresh \subseteq Messages
  <2>1. \A row \in disk.history : row.id \in LeaseIds
    BY DEF StoreType, LeaseRows
  <2>2. 0..now \subseteq Nat
    OBVIOUS
  <2>. QED BY <2>1, <2>2 DEF Fresh, Messages
<1>. QED BY <1>1 DEF Deliverable, StoreType

\* A message the open transaction adopts, other than an observation of
\* capabilities, is about the task's current Lease.
LEMMA AdoptingType ==
  ASSUME TypeInv, NEW m, Adopting(m)
  PROVE  /\ m \in Messages
         /\ StoreType(Received(m))
         /\ Capability(m) => m.sender \in Hosts
         /\ ~Capability(m) => /\ m.lid \in LeaseIds
                              /\ m.lid.task \in Tasks
                              /\ Held(db, m.lid.task)
                              /\ db.lease[m.lid.task].id = m.lid
                              /\ Held(Received(m), m.lid.task)
<1>. USE DEF TypeInv, Adopting, Delivering, InTx
<1>1. m \in Messages
  BY DeliverableType
<1>2. StoreType(Received(m))
  BY <1>1, ReceivedType
<1>3. Capability(m) => m.sender \in Hosts
  BY DEF Adoptable, TxOK
<1>4. ASSUME ~Capability(m)
      PROVE  Current(db, m)
  BY <1>4 DEF Adoptable, ReplyAdoptable, FromHolder
<1>5. ASSUME ~Capability(m)
      PROVE  m.lid \in LeaseIds /\ m.lid.task \in Tasks
  <2>1. m.lid \in LeaseIds
    BY <1>1, <1>4, <1>5 DEF Messages, Current
  <2>. QED BY <2>1 DEF LeaseIds
<1>6. ASSUME ~Capability(m)
      PROVE  /\ Held(db, m.lid.task) /\ db.lease[m.lid.task].id = m.lid
             /\ Held(Received(m), m.lid.task)
  BY <1>4, <1>6 DEF Current, Held, Received, StoreType
<1>. QED BY <1>1, <1>2, <1>3, <1>5, <1>6

-----------------------------------------------------------------------------
\* Every step preserves the invariant.

\* Time passing and opening a transaction keep the store well formed.
LEMMA OpenSteps ==
  ASSUME TypeInv
  PROVE  /\ AdvanceClock => TypeInv'
         /\ \A h \in Hosts : BeginTick(h) => TypeInv'
         /\ \A h \in Hosts, t \in Tasks :
              BeginCancelCheck(h, t) \/ BeginCancel(h, t) => TypeInv'
<1>. USE DEF TypeInv
<1>1. AdvanceClock => TypeInv'
  BY DEF AdvanceClock, StoreType, TxOK
<1>2. StoreType(Observed(disk))
  BY DEF Observed, StoreType, Resources
<1>3. ASSUME NEW h \in Hosts, NEW target \in SUBSET Tasks,
             NEW pc \in {"expire", "commit"},
             NEW after \in {"ingest", "cancel", "commit"},
             Begin(h, target, pc, after)
      PROVE  TypeInv'
  BY <1>2, <1>3 DEF Begin, TxOK
<1>. QED BY <1>1, <1>3 DEF BeginTick, BeginCancelCheck, BeginCancel

\* So does the expiry pass of a tick.
LEMMA ExpirySteps ==
  ASSUME TypeInv
  PROVE  /\ \A t \in Tasks : Expire(t) => TypeInv'
         /\ ExpiryDone => TypeInv'
<1>. USE DEF TypeInv, InTx
<1>1. ASSUME NEW t \in Tasks, ProposalExpires(t)
      PROVE  TypeInv'
  <2>1. Held(db, t)
    BY <1>1 DEF ProposalExpires, FirstExpired, Expired
  <2>2. StoreType(Withdrawn(db, t))
    BY <2>1, WithdrawnType
  <2>. QED BY <1>1, <2>2 DEF ProposalExpires, Record, Faults, TxOK
<1>2. ASSUME NEW t \in Tasks, LeaseExpires(t)
      PROVE  TypeInv'
  <2>. DEFINE closed == Closed(db, t, Outstanding(db, db.lease[t].id))
  <2>1. StoreType(closed)
    BY ReservedType, ClosedType
  <2>2. /\ StoreType(Retried(closed, t, "lease-expired-safe-retry"))
        /\ StoreType(Quarantined(closed, t, "lease-expired-ambiguous"))
    BY <2>1, RetriedType DEF Reasons
  <2>. QED BY <1>2, <2>2 DEF LeaseExpires, Record, Faults, TxOK
<1>3. ExpiryDone => TypeInv'
  <2>1. tx.pc = "expire" => tx.after \in {"ingest", "cancel", "commit"}
    BY DEF TxOK
  <2>. QED BY <2>1, TxSteps DEF ExpiryDone
<1>. QED BY <1>1, <1>2, <1>3 DEF Expire

\* What a host says is from the vocabulary.
LEMMA HostWords ==
  ASSUME NEW m \in Messages, m.say.type \in HostTypes
  PROVE  m.say \in Vocabulary
BY DEF Messages, Egress, HostTypes

\* So does adopting a host's answer.
LEMMA AdoptType ==
  ASSUME TypeInv, NEW m, Adopting(m), NEW t, NEW d, StoreType(d), NEW cause,
         Adopt(m, t, d, cause)
  PROVE  TypeInv'
BY TxSteps DEF TypeInv, Adopting, Delivering, InTx, Adopt, Faults

\* So do the messages that leave the task rows alone.
LEMMA AuditSteps ==
  ASSUME TypeInv, NEW m \in Deliverable
  PROVE  /\ Redelivered(m) => TypeInv'
         /\ Reject(m) => TypeInv'
         /\ CapabilityObserved(m) => TypeInv'
         /\ ApprovalReceived(m) => TypeInv'
<1>. USE TxSteps DEF TypeInv, Delivering, InTx, Faults
<1>1. m \in Messages
  BY DeliverableType
<1>2. Redelivered(m) => TypeInv'
  BY DEF Redelivered
<1>3. Reject(m) => TypeInv'
  <2>1. StoreType([db EXCEPT !.rejected = @ \cup {m}])
    BY <1>1 DEF StoreType
  <2>. QED BY <2>1 DEF Reject
<1>4. ASSUME CapabilityObserved(m)
      PROVE  TypeInv'
  <2>1. /\ StoreType(Received(m)) /\ m.sender \in Hosts
        /\ m.say.type = "capability_observation"
    BY <1>4, AdoptingType DEF CapabilityObserved, Capability
  <2>2. m.say.caps \in SUBSET Capabilities
    BY <1>1, <2>1, HostWords, VocabularyAssumption DEF HostTypes
  <2>. DEFINE r == Received(m)
              e == [r EXCEPT !.caps[m.sender] = m.say.caps,
                             !.registered = @ \cup {m.sender}]
  <2>. HIDE DEF r
  <2>3. StoreType(e)
    BY <2>1, <2>2 DEF StoreType, r
  <2>4. db' = e
    BY <1>4 DEF CapabilityObserved, r
  <2>. QED BY <1>4, <2>3, <2>4 DEF CapabilityObserved, Adopting
<1>5. ASSUME ApprovalReceived(m)
      PROVE  TypeInv'
  <2>1. /\ StoreType(Received(m)) /\ m.lid.task \in Tasks
        /\ Held(Received(m), m.lid.task)
    BY <1>5, AdoptingType DEF ApprovalReceived, Approval, Capability
  <2>2. StoreType(Resumed(Received(m), m.lid.task, now))
    BY <2>1, ResumedType
  <2>. QED BY <1>5, <2>1, <2>2 DEF ApprovalReceived, Adopting
<1>. QED BY <1>2, <1>3, <1>4, <1>5

\* So do the host's answers to a dispatch, to its heartbeat and to a cancellation.
LEMMA ReplySteps ==
  ASSUME TypeInv, NEW m \in Deliverable
  PROVE  /\ DispatchAccepted(m) => TypeInv'
         /\ DispatchRejected(m) => TypeInv'
         /\ Heartbeat(m) => TypeInv'
         /\ CancelAcknowledged(m) => TypeInv'
         /\ WorktreeObserved(m) => TypeInv'
<1>. DEFINE t == m.lid.task
            r == Received(m)
            out == Outstanding(db, m.lid)
<1>1. out \in [AttemptResources -> Int] /\ Nothing \in [AttemptResources -> Int]
  BY ReservedType DEF TypeInv, Nothing
<1>2. ASSUME Adopting(m), ~Capability(m)
      PROVE  /\ StoreType(r) /\ t \in Tasks /\ Held(r, t) /\ m.lid \in LeaseIds
             /\ StoreType(Closed(r, t, Nothing)) /\ StoreType(Closed(r, t, out))
  BY <1>1, <1>2, AdoptingType, ClosedType
<1>. HIDE DEF r, out
<1>3. ASSUME DispatchAccepted(m)
      PROVE  TypeInv'
  <2>1. Adopting(m) /\ ~Capability(m)
    BY <1>3 DEF DispatchAccepted, Capability
  <2>2. r.task[t] \in TaskRows
    BY <1>2, <2>1 DEF StoreType
  <2>3. [r.task[t] EXCEPT !.phase = "accepted"] \in TaskRows
    BY <2>2 DEF TaskRows, Phases
  <2>. DEFINE settled == out["context_bytes"]
              e == [r EXCEPT !.task[t].phase = "accepted",
                             !.reserved["context_bytes"] = @ - settled,
                             !.used["context_bytes"] = @ + settled]
  <2>4. settled \in Int
    BY <1>1
  <2>5. StoreType(e)
    BY <1>2, <2>1, <2>3, <2>4 DEF StoreType, Resources
  <2>6. Adopt(m, t, e, "dispatch-accepted")
    BY <1>3 DEF DispatchAccepted, r, out
  <2>. QED BY <2>1, <2>5, <2>6, AdoptType
<1>4. ASSUME DispatchRejected(m)
      PROVE  TypeInv'
  <2>1. Adopting(m) /\ ~Capability(m)
    BY <1>4 DEF DispatchRejected, Capability
  <2>. DEFINE c == Closed(r, t, Nothing)
  <2>2. /\ StoreType(Retried(c, t, "unambiguous-dispatch-rejection"))
        /\ StoreType(Quarantined(c, t, "dispatch-rejection-ambiguous"))
    BY <1>2, <2>1, RetriedType DEF Reasons
  <2>3. \E d : StoreType(d) /\ Adopt(m, t, d, "dispatch-rejected")
    BY <1>4, <2>2 DEF DispatchRejected, r
  <2>. QED BY <2>1, <2>3, AdoptType
<1>5. ASSUME Heartbeat(m)
      PROVE  TypeInv'
  <2>1. Adopting(m) /\ ~Capability(m)
    BY <1>5 DEF Heartbeat, Capability
  <2>. DEFINE row == [id |-> m.lid, expires |-> now + Ttl]
              e == [r EXCEPT !.lease[t] = row, !.history = @ \cup {row}]
  <2>2. row \in LeaseRows
    BY <1>2, <2>1, BudgetAssumption DEF LeaseRows, TypeInv
  <2>. HIDE DEF row
  <2>3. StoreType(e)
    BY <1>2, <2>1, <2>2 DEF StoreType
  <2>4. Adopt(m, t, e, "heartbeat")
    BY <1>5 DEF Heartbeat, r, row
  <2>. QED BY <2>1, <2>3, <2>4, AdoptType
<1>6. ASSUME CancelAcknowledged(m)
      PROVE  TypeInv'
  <2>1. Adopting(m) /\ ~Capability(m)
    BY <1>6 DEF CancelAcknowledged, Capability
  <2>. DEFINE c == Closed(r, t, out)
  <2>2. /\ StoreType(Moved(c, t, "superseded", "cancellation_acknowledged",
                           "cancelled", {"cancellation-acknowledged"}))
        /\ StoreType(Moved(c, t, "blocked", "cancellation_requested",
                           "unknown", {"cancellation-ambiguous"}))
    BY <1>2, <2>1, MovedType DEF Reasons, States, Phases, Outcomes
  <2>3. \E d : StoreType(d) /\ Adopt(m, t, d, "cancel-acknowledgement")
    BY <1>6, <2>2 DEF CancelAcknowledged, r, out
  <2>. QED BY <2>1, <2>3, AdoptType
<1>7. ASSUME WorktreeObserved(m)
      PROVE  TypeInv'
  <2>1. Adopting(m) /\ ~Capability(m)
    BY <1>7 DEF WorktreeObserved, Capability
  <2>. DEFINE c == Closed(r, t, Nothing)
              e == [r EXCEPT !.tree[t] = "observed"]
  <2>2. /\ StoreType(Quarantined(c, t, "ambiguous-worktree"))
        /\ StoreType(Quarantined(c, t, "worktree-already-integrated"))
    BY <1>2, <2>1, RetriedType DEF Reasons
  <2>3. StoreType(e) /\ Held(e, t)
    BY <1>2, <2>1 DEF StoreType, Held
  <2>4. StoreType(Resumed(e, t, now))
    BY <1>2, <2>1, <2>3, ResumedType DEF TypeInv
  <2>5. \E d : StoreType(d) /\ Adopt(m, t, d, "worktree-observed")
    BY <1>7, <2>2, <2>4 DEF WorktreeObserved, r
  <2>. QED BY <2>1, <2>5, AdoptType
<1>. QED BY <1>3, <1>4, <1>5, <1>6, <1>7

\* So do the three outcomes of a delivered result.
LEMMA ResultSteps ==
  ASSUME TypeInv, NEW m \in Deliverable
  PROVE  /\ ResultRaises(m) => TypeInv'
         /\ ResultSucceeded(m) => TypeInv'
         /\ ResultUnsuccessful(m) => TypeInv'
<1>. DEFINE t == m.lid.task
            r == Received(m)
            c == Closed(r, t, Charge(m))
<1>1. ResultRaises(m) => TypeInv'
  BY TxSteps DEF ResultRaises, TypeInv, Adopting, Delivering, InTx, Faults
<1>2. ASSUME Adopting(m), m.say.type = "task_result"
      PROVE  t \in Tasks /\ StoreType(c)
  <2>1. m \in Messages /\ StoreType(r) /\ t \in Tasks
    BY <1>2, AdoptingType DEF Capability
  <2>2. m.say.usage \in [AttemptResources -> Nat]
    BY <1>2, <2>1, HostWords, VocabularyAssumption DEF HostTypes
  <2>3. Outstanding(db, m.lid)["context_bytes"] \in Int
    BY ReservedType DEF TypeInv
  <2>4. Charge(m) \in [AttemptResources -> Int]
    BY <2>2, <2>3 DEF Charge
  <2>. QED BY <2>1, <2>4, ClosedType
<1>. HIDE DEF c
<1>3. ASSUME ResultSucceeded(m)
      PROVE  TypeInv'
  <2>1. StoreType(Verified(c, t, m))
    BY <1>2, <1>3, MovedType
       DEF ResultSucceeded, Verified, States, Phases, Outcomes, Reasons
  <2>2. Adopting(m) /\ Adopt(m, t, Verified(c, t, m), "result-received")
    BY <1>3 DEF ResultSucceeded, c
  <2>. QED BY <2>1, <2>2, AdoptType
<1>4. ASSUME ResultUnsuccessful(m)
      PROVE  TypeInv'
  <2>1. StoreType(c) /\ t \in Tasks
    BY <1>2, <1>4 DEF ResultUnsuccessful
  <2>2. /\ StoreType(Retried(c, t, "safe-read-only-retry"))
        /\ StoreType(Quarantined(c, t, "ambiguous-external-effect"))
    BY <2>1, RetriedType DEF Reasons
  <2>3. StoreType(Moved(c, t, "rejected", "not_dispatched", "failed",
                        {"unambiguous-failure"}))
    BY <2>1, MovedType DEF States, Phases, Outcomes, Reasons
  <2>4. \E d : StoreType(d) /\ Adopt(m, t, d, "result-terminal")
    BY <1>4, <2>2, <2>3 DEF ResultUnsuccessful, c
  <2>. QED BY <1>4, <2>4, AdoptType DEF ResultUnsuccessful
<1>. QED BY <1>1, <1>3, <1>4

\* So does whichever message a tick ingests.
LEMMA MailSteps ==
  ASSUME TypeInv
  PROVE  /\ \A m \in Deliverable : Ingest(m) => TypeInv'
         /\ IngestDone => TypeInv'
<1>1. IngestDone => TypeInv'
  BY TxSteps DEF IngestDone, TypeInv, InTx
<1>. QED BY <1>1, AuditSteps, ReplySteps, ResultSteps DEF Ingest

\* So does the readiness pass.
LEMMA RefreshSteps ==
  ASSUME TypeInv
  PROVE  /\ \A t \in Tasks : RefreshTask(t) \/ RetryWorktree(t) => TypeInv'
         /\ RefreshDone \/ RetryDone => TypeInv'
<1>. USE DEF TypeInv, InTx
<1>1. ASSUME NEW t \in Tasks, RefreshTask(t)
      PROVE  TypeInv'
  <2>1. Visit(IdOrder, t, RefreshChanges)
    BY <1>1 DEF RefreshTask
  <2>2. TxOK'
    BY <1>1, <2>1, VisitSteps, OrdersType DEF RefreshTask
  <2>3. LiveBlockers(db, t) \in SUBSET Reasons
    BY DEF LiveBlockers, Reasons
  <2>4. StoreType(Refreshed(db, t))
    BY <2>3, ReadiedType DEF Refreshed, States, Reasons
  <2>. QED BY <1>1, <2>2, <2>4 DEF RefreshTask, Faults
<1>2. ASSUME NEW t \in Tasks, RetryWorktree(t)
      PROVE  TypeInv'
  <2>1. Visit(DispatchOrder, t, BudgetBlockedWorktrees)
    BY <1>2 DEF RetryWorktree
  <2>2. TxOK' /\ t \in BudgetBlockedWorktrees
    BY <1>2, <2>1, VisitSteps, OrdersType DEF RetryWorktree
  <2>3. Held(db, t)
    BY <2>2 DEF BudgetBlockedWorktrees
  <2>4. StoreType(Resumed(db, t, now))
    BY <2>3, ResumedType
  <2>. QED BY <1>2, <2>2, <2>4 DEF RetryWorktree, Faults
<1>3. RefreshDone \/ RetryDone => TypeInv'
  BY TxSteps DEF RefreshDone, RetryDone
<1>. QED BY <1>1, <1>2, <1>3

\* The Lease a dispatch goes out under, new or already proposed.
LEMMA ProposedType ==
  ASSUME TypeInv, tx.pc # "idle", NEW t \in Tasks
  PROVE  /\ Proposed(db, t) \in LeaseRows
         /\ Proposed(db, t).id \in LeaseIds
         /\ StoreType(WithLease(db, t))
         /\ WithLease(db, t).mail = db.mail
         /\ WithLease(db, t).consumed = db.consumed
<1>. DEFINE id == [task |-> t, owner |-> tx.host,
                   attempt |-> db.task[t].attempt + 1,
                   fence |-> db.task[t].fence + 1, acquired |-> now]
<1>1. CASE Held(db, t)
  BY <1>1, HeldType DEF TypeInv, Proposed, WithLease
<1>2. CASE ~Held(db, t)
  <2>0. db.task[t] \in TaskRows
    BY DEF TypeInv, StoreType
  <2>1. db.task[t].attempt \in Nat /\ db.task[t].fence \in Nat
    BY <2>0 DEF TaskRows
  <2>2. id \in LeaseIds
    BY <2>1 DEF LeaseIds, TypeInv, TxOK
  <2>3. now + Ttl \in Nat
    BY BudgetAssumption DEF TypeInv
  <2>. HIDE DEF id
  <2>4. Proposed(db, t) = [id |-> id, expires |-> now + Ttl]
    BY <1>2 DEF Proposed, id
  <2>5. WithLease(db, t) = Leased(db, t, id, now + Ttl)
    BY <1>2, <2>4 DEF WithLease
  <2>6. StoreType(Leased(db, t, id, now + Ttl))
    BY <2>2, <2>3, LeasedType DEF TypeInv
  <2>7. /\ Leased(db, t, id, now + Ttl).mail = db.mail
        /\ Leased(db, t, id, now + Ttl).consumed = db.consumed
    BY DEF Leased, TypeInv, StoreType
  <2>. QED BY <2>2, <2>3, <2>4, <2>5, <2>6, <2>7 DEF LeaseRows
<1>. QED BY <1>1, <1>2

\* What one step writes is well formed, and the fault it raises, if any, is a known one.
LEMMA RecordType ==
  ASSUME TypeInv, NEW t, NEW d, StoreType(d), NEW cause, Record(t, d, cause)
  PROVE  StoreType(db') /\ fault' \in Faults
BY DEF Record, Faults

\* So does the dispatch pass.
LEMMA DispatchSteps ==
  ASSUME TypeInv
  PROVE  /\ \A t \in Tasks : DispatchReady(t) => TypeInv'
         /\ DispatchDone => TypeInv'
<1>1. ASSUME NEW t \in Tasks, Dispatching(t), NEW d, StoreType(d), NEW cause,
             Record(t, d, cause)
      PROVE  TypeInv'
  <2>1. Visit(DispatchOrder, t, Dispatchable)
    BY <1>1 DEF Dispatching
  <2>2. TxOK'
    BY <1>1, <2>1, VisitSteps, OrdersType DEF Dispatching, InTx, TypeInv
  <2>. QED BY <1>1, <2>2, RecordType DEF Dispatching, TypeInv
<1>2. ASSUME NEW t \in Tasks, BudgetBlocks(t) \/ WorktreeBlocks(t)
      PROVE  TypeInv'
  <2>1. /\ StoreType(Readied(db, t, "blocked", {"budget-exhausted"}))
        /\ StoreType(Readied(db, t, "blocked", {"worktree-unavailable"}))
    BY ReadiedType DEF TypeInv, States, Reasons
  <2>. QED BY <1>1, <1>2, <2>1 DEF BudgetBlocks, WorktreeBlocks
<1>3. ASSUME NEW t \in Tasks, Dispatching(t)
      PROVE  /\ Proposed(db, t).id \in LeaseIds
             /\ StoreType(WithLease(db, t))
             /\ WithLease(db, t).mail = db.mail
             /\ WithLease(db, t).consumed = db.consumed
  BY <1>3, ProposedType DEF Dispatching, InTx
<1>4. ASSUME NEW t \in Tasks, ApprovalBlocks(t)
      PROVE  TypeInv'
  <2>1. Dispatching(t)
    BY <1>4 DEF ApprovalBlocks
  <2>2. StoreType(Readied(WithLease(db, t), t, "blocked", {"approval-required"}))
    BY <1>3, <2>1, ReadiedType DEF States, Reasons
  <2>. QED BY <1>1, <1>4, <2>1, <2>2 DEF ApprovalBlocks
<1>5. ASSUME NEW t \in Tasks, RequestWorktree(t)
      PROVE  TypeInv'
  <2>. DEFINE id == Proposed(db, t).id
              d  == Moved(WithLease(db, t), t, "running", "not_dispatched",
                          "none", {})
              m  == Outgoing([type |-> "worktree_request"], id, now)
              e  == [d EXCEPT !.tree[t] = "requested",
                              !.reserved = SlotTaken(d),
                              !.mail = @ \cup {m}]
  <2>1. Dispatching(t)
    BY <1>5 DEF RequestWorktree
  <2>2. StoreType(d)
    BY <1>3, <2>1, MovedType DEF States, Phases, Outcomes
  <2>3. m \in Messages
    BY <1>3, <2>1, OutgoingType DEF TypeInv, Egress
  <2>4. SlotTaken(d) \in [Resources -> Int]
    BY <2>2 DEF SlotTaken, StoreType, Resources
  <2>5. Record(t, e, "worktree-request")
    BY <1>5 DEF RequestWorktree
  <2>. HIDE DEF d, m
  <2>6. StoreType(e)
    BY <2>2, <2>3, <2>4 DEF StoreType
  <2>. QED BY <1>1, <2>1, <2>5, <2>6
<1>6. ASSUME NEW t \in Tasks, Dispatch(t)
      PROVE  TypeInv'
  <2>. DEFINE id == Proposed(db, t).id
              d  == Moved(WithLease(db, t), t, "running", "intent_pending",
                          "none", {})
              e  == [d EXCEPT !.reserved = SlotTaken(d)]
  <2>1. Dispatching(t) /\ Cleared(t)
    BY <1>6 DEF Dispatch
  <2>2. StoreType(d)
    BY <1>3, <2>1, MovedType DEF States, Phases, Outcomes
  <2>3. d.mail = db.mail /\ d.consumed = db.consumed
    BY <1>3, <2>1 DEF Moved, StoreType
  <2>4. SlotTaken(d) \in [Resources -> Int]
    BY <2>2 DEF SlotTaken, StoreType, Resources
  <2>5. Record(t, Intent(Consumed(e, t, id, now), t, id, now), "dispatch-intent")
    BY <1>6 DEF Dispatch
  <2>. HIDE DEF d
  <2>6. StoreType(e) /\ e.mail = db.mail /\ e.consumed = db.consumed
    BY <2>2, <2>3, <2>4 DEF StoreType
  <2>. HIDE DEF e
  <2>7. Approved(e, t, id, now)
    BY <2>1, <2>6, GrantsDepend DEF Cleared, Approved
  <2>8. StoreType(Consumed(e, t, id, now))
    BY <2>6, <2>7, ConsumedType
  <2>9. StoreType(Intent(Consumed(e, t, id, now), t, id, now))
    BY <1>3, <2>1, <2>8, IntentType DEF TypeInv
  <2>. QED BY <1>1, <2>1, <2>5, <2>9
<1>7. DispatchDone => TypeInv'
  BY TxSteps DEF DispatchDone, TypeInv, InTx
<1>. QED BY <1>2, <1>4, <1>5, <1>6, <1>7 DEF DispatchReady

\* So does each branch of request_cancel.
LEMMA CancelSteps ==
  ASSUME TypeInv, NEW t \in Tasks
  PROVE  Cancel(t) => TypeInv'
<1>1. CancelRefused(t) => TypeInv'
  BY DEF CancelRefused, TypeInv, InTx, Faults, TxOK
<1>2. CancelRepeated(t) => TypeInv'
  BY TxSteps DEF CancelRepeated, TypeInv, InTx
<1>3. ASSUME CancelRequested(t)
      PROVE  TypeInv'
  <2>. DEFINE m == Outgoing([type |-> "cancel_request"], db.lease[t].id, now)
              row == [db.task[t] EXCEPT !.phase = "cancellation_requested"]
              d == [db EXCEPT !.mail = @ \cup {m},
                              !.task[t].phase = "cancellation_requested"]
  <2>1. m \in Messages
    BY <1>3, HeldType, OutgoingType
       DEF CancelRequested, HoldsLease, TypeInv, Egress
  <2>2. db.task[t] \in TaskRows
    BY DEF TypeInv, StoreType
  <2>3. row \in TaskRows
    BY <2>2 DEF TaskRows, Phases
  <2>4. d = [db EXCEPT !.mail = db.mail \cup {m},
                       !.task = [db.task EXCEPT ![t] = row]]
    BY DEF TypeInv, StoreType
  <2>5. Record(t, d, "cancel-request") /\ Goto("commit")
    BY <1>3 DEF CancelRequested
  <2>. HIDE DEF m, row, d
  <2>6. StoreType(d)
    BY <2>1, <2>3, <2>4 DEF TypeInv, StoreType
  <2>7. TxOK'
    BY <1>3, <2>5, TxSteps DEF CancelRequested, TypeInv, InTx
  <2>. QED BY <1>3, <2>5, <2>6, <2>7, RecordType DEF CancelRequested, TypeInv
<1>. QED BY <1>1, <1>2, <1>3 DEF Cancel

\* Commit, rollback and a crash leave a well-formed store behind.
LEMMA CloseSteps ==
  ASSUME TypeInv
  PROVE  /\ Commit => TypeInv'
         /\ Abort => TypeInv'
         /\ Crash => TypeInv'
<1>1. tx' = Idle => TxOK'
  BY IdleOK DEF TxOK, Idle
<1>. QED BY <1>1 DEF Commit, Abort, Crash, TypeInv, Faults

\* Every step of the scheduler keeps the store well formed.
LEMMA TypeStep == TypeInv /\ [Next]_vars => TypeInv'
<1>. SUFFICES ASSUME TypeInv, [Next]_vars
              PROVE  TypeInv'
  OBVIOUS
<1>1. CASE UNCHANGED vars
  BY <1>1 DEF vars, TypeInv, TxOK
<1>2. CASE Work
  BY <1>2, ExpirySteps, RefreshSteps, DispatchSteps, CancelSteps, MailSteps,
     CloseSteps DEF Work
<1>3. CASE Call
  BY <1>3, OpenSteps, MailSteps, CloseSteps DEF Call
<1>. QED BY <1>1, <1>2, <1>3 DEF Next

-----------------------------------------------------------------------------
\* TypeInv holds in every state a behaviour of the scheduler reaches.
THEOREM TypeInvariant == Spec => []TypeInv
BY TypeInit, TypeStep, PTL DEF Spec

\* Whatever the graph, the budgets and the hosts, and wherever a call crashes
\* or aborts: every table of the committed file and of the open transaction
\* holds rows of its own kind (the schema and _validate_connection).
THEOREM TypeCorrect == Spec => []TypeOK
BY TypeInvariant, TypeInvImplies, PTL

-----------------------------------------------------------------------------
\* Who may be running what.

\* What hosts were ever asked to do for task t.
Asked(d, t) == {m \in d.mail : /\ m.say.type \in {"dispatch_intent", "worktree_request"}
                               /\ m.lid \in LeaseIds
                               /\ m.lid.task = t}

\* Authority is not inductive: a new Lease must not find its own identity in
\* an old message.  Hence the last two conjuncts: whatever was asked for has an
\* attempt number the task has reached, and a pending proposal's is beyond.
AuthorityAt(d, t) ==
  /\ d.task[t].state = "running" <=>
       Held(d, t) /\ \E m \in Asked(d, t) : m.lid = d.lease[t].id
  /\ Held(d, t) => /\ d.lease[t].id.task = t
                   /\ d.lease[t].id.attempt = d.task[t].attempt
                   /\ d.lease[t].id.fence = d.task[t].fence
  /\ d.tree[t] # "none" =>
       /\ d.task[t].state = "running"
       /\ \E m \in Asked(d, t) : /\ m.say.type = "worktree_request"
                                 /\ m.lid = d.lease[t].id
  /\ \A m \in Asked(d, t) : m.lid.attempt <= d.task[t].attempt
  /\ Held(d, t) /\ d.task[t].state # "running" =>
       \A m \in Asked(d, t) : m.lid.attempt < d.task[t].attempt

Sound(d) ==
  /\ \A t \in Tasks : AuthorityAt(d, t)
  /\ WorktreeExclusiveIn(d)

AuthorityInv == TypeInv /\ Sound(disk) /\ Sound(db)

\* A held lease is activated when, and only when, a dispatch intent that names it was sent.
LEMMA ActivatedMeans ==
  ASSUME NEW d, StoreType(d), NEW t \in Tasks, Held(d, t),
         d.lease[t].id.task = t
  PROVE  Activated(d, d.lease[t].id) <=>
           \E m \in Asked(d, t) : m.lid = d.lease[t].id
<1>1. d.lease[t].id \in LeaseIds
  BY HeldType
<1>. QED BY <1>1 DEF Activated, Dispatched, Adopted, Asked

\* The invariant contains the agreement of rows, leases and worktrees that it is about.
LEMMA SoundImplies ==
  ASSUME NEW d, StoreType(d), Sound(d)
  PROVE  AuthorityOf(d)
<1>. SUFFICES ASSUME NEW t \in Tasks
              PROVE  /\ d.task[t].state = "running" <=>
                          Held(d, t) /\ Activated(d, d.lease[t].id)
                     /\ Held(d, t) => /\ d.lease[t].id.task = t
                                      /\ d.lease[t].id.attempt = d.task[t].attempt
                                      /\ d.lease[t].id.fence = d.task[t].fence
                     /\ d.tree[t] # "none" =>
                          /\ d.task[t].state = "running"
                          /\ Adopted(d, "worktree_request", d.lease[t].id) # {}
  BY DEF AuthorityOf
<1>1. AuthorityAt(d, t)
  BY DEF Sound
<1>2. d.tree[t] # "none" => Adopted(d, "worktree_request", d.lease[t].id) # {}
  BY <1>1 DEF AuthorityAt, Adopted, Asked
<1>. QED BY <1>1, <1>2, ActivatedMeans DEF AuthorityAt

-----------------------------------------------------------------------------
\* Changes that keep a store sound.

\* Nothing that bears on who may run u differs between d and e.
Same(d, e, u) ==
  /\ e.task[u].state = d.task[u].state
  /\ e.task[u].attempt = d.task[u].attempt
  /\ e.task[u].fence = d.task[u].fence
  /\ Held(e, u) <=> Held(d, u)
  /\ Held(d, u) => e.lease[u].id = d.lease[u].id
  /\ e.tree[u] # "none" <=> d.tree[u] # "none"
  /\ Asked(e, u) = Asked(d, u)

\* The attempt or the proposal of t is over.
Ended(d, e, t) ==
  /\ ~Held(e, t)
  /\ e.task[t].state # "running"
  /\ e.tree[t] = "none"
  /\ Asked(e, t) = Asked(d, t)
  /\ \/ e.task[t].attempt = d.task[t].attempt
     \/ /\ Held(d, t) /\ d.task[t].state # "running"
        /\ e.task[t].attempt = d.task[t].attempt - 1

\* It is a statement task by task: tasks whose rows are the same keep it.
LEMMA SameSound ==
  ASSUME NEW d, NEW e, Sound(d), StoreType(d), \A u \in Tasks : Same(d, e, u)
  PROVE  Sound(e)
<1>1. ASSUME NEW u \in Tasks
      PROVE  AuthorityAt(e, u)
  <2>1. AuthorityAt(d, u) /\ Same(d, e, u)
    BY DEF Sound
  <2>. QED BY <2>1 DEF AuthorityAt, Same
<1>2. WorktreeExclusiveIn(e)
  BY DEF Sound, WorktreeExclusiveIn, Same
<1>. QED BY <1>1, <1>2 DEF Sound

\* An attempt that ends leaves its task without lease and without worktree.
LEMMA EndedSound ==
  ASSUME NEW d, NEW e, Sound(d), StoreType(d), NEW t \in Tasks,
         \A u \in Tasks \ {t} : Same(d, e, u), Ended(d, e, t)
  PROVE  Sound(e)
<1>1. ASSUME NEW u \in Tasks \ {t}
      PROVE  AuthorityAt(e, u)
  <2>1. AuthorityAt(d, u) /\ Same(d, e, u)
    BY DEF Sound
  <2>. QED BY <2>1 DEF AuthorityAt, Same
<1>2. AuthorityAt(e, t)
  <2>1. AuthorityAt(d, t)
    BY DEF Sound
  <2>2. d.task[t] \in TaskRows
    BY DEF StoreType
  <2>3. \A m \in Asked(e, t) : m.lid.attempt \in Nat
    BY DEF Asked, LeaseIds
  <2>4. \A m \in Asked(e, t) : m.lid.attempt <= e.task[t].attempt
    BY <2>1, <2>2, <2>3 DEF AuthorityAt, Ended, TaskRows
  <2>. QED BY <2>4 DEF AuthorityAt, Ended
<1>3. WorktreeExclusiveIn(e)
  BY DEF Sound, WorktreeExclusiveIn, Same, Ended
<1>. QED BY <1>1, <1>2, <1>3 DEF Sound

-----------------------------------------------------------------------------
\* What the operators on stores change of this.

\* What a transition changes of a store and what it leaves alone.
LEMMA MovedParts ==
  ASSUME NEW d, StoreType(d), NEW t \in Tasks, NEW state, NEW phase,
         NEW outcome, NEW blockers, NEW e,
         e = Moved(d, t, state, phase, outcome, blockers)
  PROVE  /\ e.lease = d.lease /\ e.tree = d.tree /\ e.mail = d.mail
         /\ e.reserved = d.reserved
         /\ e.task[t].state = state
         /\ e.task[t].outcome = outcome
         /\ e.task[t].attempt = d.task[t].attempt
         /\ e.task[t].fence = d.task[t].fence
         /\ \A u \in Tasks \ {t} : e.task[u] = d.task[u]
<1>. DEFINE row == [d.task[t] EXCEPT !.state = state, !.phase = phase,
                                     !.outcome = outcome, !.blockers = blockers]
<1>1. d.task[t] \in TaskRows
  BY DEF StoreType
<1>2. /\ row.state = state
      /\ row.outcome = outcome
      /\ row.attempt = d.task[t].attempt
      /\ row.fence = d.task[t].fence
  BY <1>1 DEF TaskRows
<1>3. e = [d EXCEPT !.task = [d.task EXCEPT ![t] = row]]
  BY DEF Moved, StoreType
<1>. HIDE DEF row
<1>. QED BY <1>2, <1>3 DEF StoreType

\* What the readiness pass changes and what it leaves alone.
LEMMA ReadiedParts ==
  ASSUME NEW d, StoreType(d), NEW t \in Tasks, NEW state, NEW blockers, NEW e,
         e = Readied(d, t, state, blockers)
  PROVE  /\ e.lease = d.lease /\ e.tree = d.tree /\ e.mail = d.mail
         /\ e.reserved = d.reserved
         /\ e.task[t].state = state
         /\ e.task[t].outcome = d.task[t].outcome
         /\ e.task[t].attempt = d.task[t].attempt
         /\ e.task[t].fence = d.task[t].fence
         /\ \A u \in Tasks \ {t} : e.task[u] = d.task[u]
<1>. DEFINE row == [d.task[t] EXCEPT !.state = state, !.blockers = blockers]
<1>1. d.task[t] \in TaskRows
  BY DEF StoreType
<1>2. /\ row.state = state
      /\ row.outcome = d.task[t].outcome
      /\ row.attempt = d.task[t].attempt
      /\ row.fence = d.task[t].fence
  BY <1>1 DEF TaskRows
<1>3. e = [d EXCEPT !.task = [d.task EXCEPT ![t] = row]]
  BY DEF Readied, StoreType
<1>. HIDE DEF row
<1>. QED BY <1>2, <1>3 DEF StoreType

\* An attempt that is closed and moved to a state that does not run.
LEMMA ClosedSound ==
  ASSUME NEW d, StoreType(d), Sound(d), NEW t \in Tasks,
         NEW charge \in [AttemptResources -> Int],
         NEW e, NEW state, state # "running", NEW phase, NEW outcome, NEW blockers,
         \/ e = Moved(Closed(d, t, charge), t, state, phase, outcome, blockers)
         \/ \E reason : e = Retried(Closed(d, t, charge), t, reason)
         \/ \E reason : e = Quarantined(Closed(d, t, charge), t, reason)
  PROVE  Sound(e)
<1>. DEFINE c == Closed(d, t, charge)
<1>1. /\ c.task = d.task /\ c.mail = d.mail
      /\ c.lease = [d.lease EXCEPT ![t] = NoLease]
      /\ c.tree = [d.tree EXCEPT ![t] = "none"]
  BY DEF Closed, StoreType
<1>2. StoreType(c)
  BY ClosedType
<1>. HIDE DEF c
<1>3. \E s : /\ s # "running"
             /\ e.lease = c.lease /\ e.tree = c.tree /\ e.mail = c.mail
             /\ e.task[t].state = s
             /\ e.task[t].attempt = c.task[t].attempt
             /\ e.task[t].fence = c.task[t].fence
             /\ \A u \in Tasks \ {t} : e.task[u] = c.task[u]
  <2>1. CASE e = Moved(c, t, state, phase, outcome, blockers)
    BY <1>2, <2>1, MovedParts
  <2>2. ASSUME NEW reason, e = Retried(c, t, reason)
        PROVE  <1>3!:
    <3>. DEFINE f == Moved(c, t, "ready", "not_dispatched", "failed", {reason})
    <3>1. /\ f.lease = c.lease /\ f.tree = c.tree /\ f.mail = c.mail
          /\ f.task[t].state = "ready"
          /\ f.task[t].attempt = c.task[t].attempt
          /\ f.task[t].fence = c.task[t].fence
          /\ \A u \in Tasks \ {t} : f.task[u] = c.task[u]
      BY <1>2, MovedParts
    <3>2. e = [f EXCEPT !.used["retries"] = @ + 1]
      BY <2>2 DEF Retried
    <3>3. /\ e.lease = f.lease /\ e.tree = f.tree /\ e.mail = f.mail
          /\ e.task = f.task
      <4>1. DOMAIN f = DOMAIN c
        BY DEF Moved
      <4>. HIDE DEF f
      <4>. QED BY <1>2, <3>2, <4>1 DEF StoreType
    <3>. QED BY <3>1, <3>3
  <2>3. ASSUME NEW reason, e = Quarantined(c, t, reason)
        PROVE  <1>3!:
    BY <1>2, <2>3, MovedParts DEF Quarantined
  <2>. QED BY <2>1, <2>2, <2>3 DEF c
<1>4. Ended(d, e, t)
  BY <1>1, <1>3 DEF Ended, Held, Asked, StoreType
<1>5. \A u \in Tasks \ {t} : Same(d, e, u)
  BY <1>1, <1>3 DEF Same, Held, Asked, StoreType
<1>. QED BY <1>4, <1>5, EndedSound

\* A task that does not run is blocked, readied or planned.
LEMMA ReadiedSound ==
  ASSUME NEW d, StoreType(d), Sound(d), NEW t \in Tasks,
         d.task[t].state # "running",
         NEW state, state # "running", NEW blockers
  PROVE  Sound(Readied(d, t, state, blockers))
<1>. DEFINE e == Readied(d, t, state, blockers)
<1>1. /\ e.lease = d.lease /\ e.tree = d.tree /\ e.mail = d.mail
      /\ e.task[t].state = state
      /\ e.task[t].attempt = d.task[t].attempt
      /\ e.task[t].fence = d.task[t].fence
      /\ \A u \in Tasks \ {t} : e.task[u] = d.task[u]
  BY ReadiedParts
<1>. HIDE DEF e
<1>2. ASSUME NEW u \in Tasks
      PROVE  AuthorityAt(e, u)
  <2>1. AuthorityAt(d, u)
    BY DEF Sound
  <2>2. Asked(e, u) = Asked(d, u) /\ (Held(e, u) <=> Held(d, u))
    BY <1>1 DEF Asked, Held
  <2>. QED BY <1>1, <2>1, <2>2 DEF AuthorityAt
<1>3. WorktreeExclusiveIn(e)
  BY <1>1 DEF Sound, WorktreeExclusiveIn
<1>. QED BY <1>2, <1>3 DEF Sound, e

\* What granting a lease changes and what it leaves alone.
LEMMA LeasedParts ==
  ASSUME NEW d, StoreType(d), NEW t \in Tasks, NEW id \in LeaseIds,
         NEW expires \in Nat, NEW e, e = Leased(d, t, id, expires)
  PROVE  /\ e.lease[t] # NoLease /\ e.lease[t].id = id
         /\ e.tree = d.tree /\ e.mail = d.mail
         /\ e.reserved = d.reserved
         /\ e.task[t].state = d.task[t].state
         /\ e.task[t].outcome = d.task[t].outcome
         /\ e.task[t].attempt = id.attempt
         /\ e.task[t].fence = id.fence
         /\ \A u \in Tasks \ {t} : e.task[u] = d.task[u] /\ e.lease[u] = d.lease[u]
<1>. DEFINE row == [d.task[t] EXCEPT !.attempt = id.attempt, !.fence = id.fence]
            lease == [id |-> id, expires |-> expires]
<1>1. d.task[t] \in TaskRows
  BY DEF StoreType
<1>2. /\ row.state = d.task[t].state
      /\ row.outcome = d.task[t].outcome
      /\ row.attempt = id.attempt
      /\ row.fence = id.fence
  BY <1>1 DEF TaskRows
<1>3. lease # NoLease /\ lease.id = id
  BY NoLeaseAssumption DEF LeaseRows
<1>4. e = [d EXCEPT !.lease = [d.lease EXCEPT ![t] = lease],
                    !.history = d.history \cup {lease},
                    !.task = [d.task EXCEPT ![t] = row]]
  BY DEF Leased, StoreType
<1>. HIDE DEF row, lease
<1>5. /\ e.lease = [d.lease EXCEPT ![t] = lease]
      /\ e.tree = d.tree /\ e.mail = d.mail /\ e.reserved = d.reserved
      /\ e.task = [d.task EXCEPT ![t] = row]
  BY <1>4 DEF StoreType
<1>6. /\ e.task[t] = row /\ e.lease[t] = lease
      /\ \A u \in Tasks \ {t} : e.task[u] = d.task[u] /\ e.lease[u] = d.lease[u]
  BY <1>5 DEF StoreType
<1>. QED BY <1>2, <1>3, <1>5, <1>6

\* A proposal's identity is new: no message is about it.
LEMMA WithLeaseSound ==
  ASSUME TypeInv, Sound(db), tx.pc # "idle", NEW t \in Tasks,
         db.task[t].state # "running",
         NEW e, e = WithLease(db, t)
  PROVE  /\ Sound(e) /\ StoreType(e)
         /\ Held(e, t)
         /\ e.lease[t].id = Proposed(db, t).id
         /\ e.task[t].state = db.task[t].state
         /\ e.task[t].outcome = db.task[t].outcome
         /\ e.task[t].attempt = Proposed(db, t).id.attempt
         /\ e.task[t].fence = Proposed(db, t).id.fence
         /\ e.tree = db.tree /\ e.mail = db.mail /\ e.reserved = db.reserved
         /\ \A u \in Tasks \ {t} : e.task[u] = db.task[u] /\ e.lease[u] = db.lease[u]
<1>1. CASE Held(db, t)
  BY <1>1 DEF WithLease, Proposed, TypeInv, Sound, AuthorityAt
<1>2. CASE ~Held(db, t)
  <2>. DEFINE row == Proposed(db, t)
              id == row.id
  <2>1. /\ id \in LeaseIds /\ row \in LeaseRows /\ StoreType(e)
    BY ProposedType
  <2>2. /\ id.task = t
        /\ id.attempt = db.task[t].attempt + 1
        /\ id.fence = db.task[t].fence + 1
    BY <1>2 DEF Proposed
  <2>3. e = Leased(db, t, id, row.expires) /\ row.expires \in Nat
    BY <1>2, <2>1 DEF WithLease, LeaseRows
  <2>. HIDE DEF id, row
  <2>4. /\ e.lease[t] # NoLease /\ e.lease[t].id = id
        /\ e.tree = db.tree /\ e.mail = db.mail /\ e.reserved = db.reserved
        /\ e.task[t].state = db.task[t].state
        /\ e.task[t].outcome = db.task[t].outcome
        /\ e.task[t].attempt = id.attempt
        /\ e.task[t].fence = id.fence
        /\ \A u \in Tasks \ {t} : /\ e.task[u] = db.task[u]
                                   /\ e.lease[u] = db.lease[u]
    BY <2>1, <2>3, LeasedParts DEF TypeInv
  <2>5. \A u \in Tasks \ {t} : Same(db, e, u)
    BY <2>4 DEF Same, Held, Asked
  <2>6. AuthorityAt(e, t)
    <3>1. AuthorityAt(db, t)
      BY DEF Sound
    <3>2. Asked(e, t) = Asked(db, t)
      BY <2>4 DEF Asked
    <3>3. db.task[t].attempt \in Nat
      <4>1. db.task[t] \in TaskRows
        BY DEF TypeInv, StoreType
      <4>. QED BY <4>1 DEF TaskRows
    <3>4. \A m \in Asked(e, t) : m.lid.attempt < id.attempt
      <4>1. \A m \in Asked(e, t) : m.lid.attempt \in Nat
        BY DEF Asked, LeaseIds
      <4>. QED BY <2>2, <3>1, <3>2, <3>3, <4>1 DEF AuthorityAt
    <3>5. \A m \in Asked(e, t) : m.lid # id /\ m.lid.attempt <= id.attempt
      <4>1. id.attempt \in Nat
        BY <2>1 DEF LeaseIds
      <4>2. \A m \in Asked(e, t) : m.lid.attempt \in Nat
        BY DEF Asked, LeaseIds
      <4>. QED BY <3>4, <4>1, <4>2
    <3>. QED BY <2>2, <2>4, <3>1, <3>4, <3>5 DEF AuthorityAt, Held
  <2>7. Sound(e)
    <3>1. ASSUME NEW u \in Tasks \ {t}
          PROVE  AuthorityAt(e, u)
      <4>1. AuthorityAt(db, u) /\ Same(db, e, u)
        BY <2>5 DEF Sound
      <4>. QED BY <4>1 DEF AuthorityAt, Same
    <3>2. WorktreeExclusiveIn(e)
      BY <2>4 DEF Sound, WorktreeExclusiveIn
    <3>. QED BY <2>6, <3>1, <3>2 DEF Sound
  <2>. QED BY <2>1, <2>4, <2>7 DEF Held, id, row
<1>. QED BY <1>1, <1>2

\* A task that holds its Lease is asked to do something under it.  A worktree
\* becomes the task's own only when no other task has it.
LEMMA AskedSound ==
  ASSUME NEW d, StoreType(d), Sound(d), NEW t \in Tasks, Held(d, t),
         NEW m, m.say.type \in {"dispatch_intent", "worktree_request"},
         m.lid = d.lease[t].id,
         NEW e, e.lease = d.lease, e.mail = d.mail \cup {m},
         \A u \in Tasks \ {t} : e.task[u] = d.task[u] /\ e.tree[u] = d.tree[u],
         e.task[t].state = "running",
         e.task[t].attempt = d.task[t].attempt,
         e.task[t].fence = d.task[t].fence,
         \/ e.tree[t] = d.tree[t]
         \/ /\ m.say.type = "worktree_request"
            /\ Worktree[t] # NoWorktree
            /\ ~Occupied(d, t)
  PROVE  Sound(e)
<1>1. m.lid \in LeaseIds /\ m.lid.task = t /\ m.lid.attempt = d.task[t].attempt
  BY HeldType DEF Sound, AuthorityAt
<1>2. Asked(e, t) = Asked(d, t) \cup {m}
  BY <1>1 DEF Asked
<1>3. ASSUME NEW u \in Tasks \ {t}
      PROVE  AuthorityAt(e, u) /\ e.tree[u] = d.tree[u]
  <2>1. Asked(e, u) = Asked(d, u) /\ (Held(e, u) <=> Held(d, u))
    BY <1>1 DEF Asked, Held
  <2>2. AuthorityAt(d, u)
    BY DEF Sound
  <2>. QED BY <2>1, <2>2 DEF AuthorityAt
<1>4. AuthorityAt(e, t)
  <2>1. AuthorityAt(d, t)
    BY DEF Sound
  <2>2. d.task[t].attempt \in Nat
    <3>1. d.task[t] \in TaskRows
      BY DEF StoreType
    <3>. QED BY <3>1 DEF TaskRows
  <2>. QED BY <1>1, <1>2, <2>1, <2>2 DEF AuthorityAt, Held
<1>5. WorktreeExclusiveIn(e)
  BY <1>3 DEF Sound, WorktreeExclusiveIn, Occupied
<1>. QED BY <1>3, <1>4, <1>5 DEF Sound

\* What sending a dispatch intent changes and what it leaves alone.
LEMMA IntentParts ==
  ASSUME NEW d, StoreType(d), NEW t, NEW id, NEW e, e = Intent(d, t, id, now)
  PROVE  /\ e.task = d.task /\ e.lease = d.lease /\ e.tree = d.tree
         /\ e.reserved["concurrency"] = d.reserved["concurrency"]
         /\ \E m : /\ e.mail = d.mail \cup {m}
                   /\ m.say.type = "dispatch_intent" /\ m.lid = id
<1>. DEFINE m == Outgoing([type |-> "dispatch_intent",
                           reservation |-> Reservation(d, t)], id, now)
<1>1. m.say.type = "dispatch_intent" /\ m.lid = id
  BY DEF Outgoing
<1>2. e = [d EXCEPT !.mail = d.mail \cup {m},
                    !.reserved = Raised(d.reserved, Reservation(d, t)),
                    !.used = [d.used EXCEPT !["dispatches"] = @ + 1]]
  BY DEF Intent, StoreType
<1>4. Raised(d.reserved, Reservation(d, t))["concurrency"] = d.reserved["concurrency"]
  BY DEF Raised, Resources, AttemptResources
<1>. HIDE DEF m
<1>3. /\ e.task = d.task /\ e.lease = d.lease /\ e.tree = d.tree
      /\ e.mail = d.mail \cup {m}
      /\ e.reserved = Raised(d.reserved, Reservation(d, t))
  BY <1>2 DEF StoreType
<1>. QED BY <1>1, <1>3, <1>4

\* Consuming an approval touches nothing the invariant speaks of.
LEMMA ConsumedParts ==
  ASSUME NEW d, StoreType(d), NEW t, NEW id, NEW e, e = Consumed(d, t, id, now)
  PROVE  /\ e.task = d.task /\ e.lease = d.lease /\ e.tree = d.tree
         /\ e.mail = d.mail /\ e.reserved = d.reserved
<1>. DEFINE new == {CHOOSE m \in Grants(d, t, id, stop, now) : TRUE :
                      stop \in ApprovalStops[t]}
<1>1. e = [d EXCEPT !.consumed = d.consumed \cup new]
  BY DEF Consumed
<1>. HIDE DEF new
<1>. QED BY <1>1 DEF StoreType

\* A task that runs under its Lease and waits to be dispatched still does, or
\* is dispatched.
LEMMA ResumedSound ==
  ASSUME NEW d, StoreType(d), Sound(d), NEW t \in Tasks, Held(d, t),
         d.task[t].state = "running", now \in Nat
  PROVE  Sound(Resumed(d, t, now))
<1>. DEFINE id == d.lease[t].id
            e == Resumed(d, t, now)
            pending == [d EXCEPT !.task[t].phase = "intent_pending",
                                 !.task[t].blockers = {}]
<1>0. d.task[t] \in TaskRows
  BY DEF StoreType
<1>1. CASE ~BudgetAllows(d, t, 0)
  <2>1. e = Moved(d, t, "running", "not_dispatched", "none", {"budget-exhausted"})
    BY <1>1 DEF Resumed
  <2>. HIDE DEF e
  <2>2. \A u \in Tasks : Same(d, e, u)
    BY <2>1, MovedParts DEF Same, Held, Asked
  <2>. QED BY <2>2, SameSound DEF e
<1>2. CASE BudgetAllows(d, t, 0) /\ ~Approved(d, t, id, now)
  <2>. DEFINE row == [d.task[t] EXCEPT !.blockers = {"approval-required"}]
  <2>1. e = [d EXCEPT !.task = [d.task EXCEPT ![t] = row]]
    BY <1>2 DEF Resumed, StoreType
  <2>2. /\ row.state = d.task[t].state
        /\ row.attempt = d.task[t].attempt
        /\ row.fence = d.task[t].fence
    BY <1>0 DEF TaskRows
  <2>. HIDE DEF e, row
  <2>3. \A u \in Tasks : Same(d, e, u)
    BY <2>1, <2>2 DEF Same, Held, Asked, StoreType
  <2>. QED BY <2>3, SameSound DEF e
<1>3. CASE BudgetAllows(d, t, 0) /\ Approved(d, t, id, now)
  <2>. DEFINE row == [d.task[t] EXCEPT !.phase = "intent_pending", !.blockers = {}]
              c == Consumed(pending, t, id, now)
  <2>1. e = Intent(c, t, id, now)
    BY <1>3 DEF Resumed
  <2>2. /\ row.state = d.task[t].state
        /\ row.attempt = d.task[t].attempt
        /\ row.fence = d.task[t].fence
        /\ row \in TaskRows
    BY <1>0 DEF TaskRows, Phases
  <2>3. pending = [d EXCEPT !.task = [d.task EXCEPT ![t] = row]]
    BY DEF StoreType
  <2>. HIDE DEF e, row, pending, id
  <2>4. /\ StoreType(pending) /\ pending.task = [d.task EXCEPT ![t] = row]
        /\ pending.lease = d.lease /\ pending.tree = d.tree
        /\ pending.mail = d.mail /\ pending.consumed = d.consumed
    BY <2>2, <2>3 DEF StoreType
  <2>5. Approved(pending, t, id, now)
    BY <1>3, <2>4, GrantsDepend DEF Approved
  <2>6. /\ StoreType(c) /\ c.task = pending.task /\ c.lease = d.lease
        /\ c.tree = d.tree /\ c.mail = d.mail
    BY <2>4, <2>5, ConsumedType, ConsumedParts
  <2>. HIDE DEF c
  <2>7. /\ e.task = pending.task /\ e.lease = d.lease /\ e.tree = d.tree
        /\ \E m : /\ e.mail = d.mail \cup {m}
                  /\ m.say.type = "dispatch_intent" /\ m.lid = id
    BY <2>1, <2>6, IntentParts
  <2>8. /\ e.task[t] = row
        /\ \A u \in Tasks \ {t} : e.task[u] = d.task[u]
    BY <2>4, <2>7 DEF StoreType
  <2>9. Sound(e)
    BY <2>2, <2>7, <2>8, AskedSound DEF id
  <2>. QED BY <2>9 DEF e
<1>. QED BY <1>1, <1>2, <1>3

\* What hosts and owners say gives nobody authority.
LEMMA ReceivedSame ==
  ASSUME TypeInv, NEW m, m.say.type \in HostTypes
  PROVE  \A u \in Tasks : Same(db, Received(m), u)
<1>1. /\ Received(m).task = db.task /\ Received(m).lease = db.lease
      /\ Received(m).tree = db.tree /\ Received(m).mail = db.mail \cup {m}
  BY DEF Received, TypeInv, StoreType
<1>2. \A u \in Tasks : Asked(Received(m), u) = Asked(db, u)
  BY <1>1 DEF Asked, HostTypes
<1>. QED BY <1>1, <1>2 DEF Same, Held

-----------------------------------------------------------------------------
\* Every step keeps both stores sound.

\* A freshly initialised store has no lease at all.
LEMMA AuthorityInit == Init => Sound(disk) /\ Sound(db)
<1>. SUFFICES ASSUME Init
              PROVE  Sound(EmptyStore)
  BY DEF Init
<1>. DEFINE e == EmptyStore
<1>1. ASSUME NEW t \in Tasks
      PROVE  /\ e.task[t].state # "running" /\ e.task[t].attempt = 0
             /\ e.lease[t] = NoLease /\ e.tree[t] = "none"
  BY DEF EmptyStore
<1>2. e.mail = {}
  BY DEF EmptyStore
<1>. HIDE DEF e
<1>3. ASSUME NEW t \in Tasks
      PROVE  AuthorityAt(e, t)
  BY <1>1, <1>2 DEF AuthorityAt, Asked, Held
<1>4. WorktreeExclusiveIn(e)
  BY <1>1 DEF WorktreeExclusiveIn
<1>5. Sound(e)
  BY <1>3, <1>4 DEF Sound
<1>. QED BY <1>5 DEF e

\* Time passing and opening a transaction keep the invariant.
LEMMA OpenSound ==
  ASSUME AuthorityInv
  PROVE  /\ AdvanceClock => Sound(disk') /\ Sound(db')
         /\ \A h, target, pc, after :
              Begin(h, target, pc, after) => Sound(disk') /\ Sound(db')
<1>1. ASSUME AdvanceClock
      PROVE  Sound(disk') /\ Sound(db')
  <2>. DEFINE e == [disk EXCEPT !.spoke = Scheduler]
  <2>1. \A u \in Tasks : Same(disk, e, u)
    BY DEF AuthorityInv, TypeInv, StoreType, Same, Held, Asked
  <2>. HIDE DEF e
  <2>2. Sound(e)
    BY <2>1, SameSound DEF AuthorityInv, TypeInv
  <2>. QED BY <1>1, <2>2 DEF AdvanceClock, e
<1>2. ASSUME NEW h, NEW target, NEW pc, NEW after, Begin(h, target, pc, after)
      PROVE  Sound(disk') /\ Sound(db')
  <2>. DEFINE e == Observed(disk)
  <2>1. \A u \in Tasks : Same(disk, e, u)
    BY DEF AuthorityInv, TypeInv, StoreType, Same, Held, Asked, Observed
  <2>. HIDE DEF e
  <2>2. Sound(e)
    BY <2>1, SameSound DEF AuthorityInv, TypeInv
  <2>. QED BY <1>2, <2>2 DEF Begin, AuthorityInv, e
<1>. QED BY <1>1, <1>2

\* What withdrawing an attempt that was never intended changes and what it leaves alone.
LEMMA WithdrawnParts ==
  ASSUME NEW d, StoreType(d), NEW t \in Tasks, NEW e, e = Withdrawn(d, t)
  PROVE  /\ e.mail = d.mail /\ e.reserved = d.reserved
         /\ e.lease[t] = NoLease /\ e.tree[t] = "none"
         /\ e.task[t].state = "ready"
         /\ e.task[t].outcome = d.task[t].outcome
         /\ e.task[t].attempt = d.lease[t].id.attempt - 1
         /\ e.task[t].fence = d.lease[t].id.fence - 1
         /\ \A u \in Tasks \ {t} : /\ e.task[u] = d.task[u]
                                   /\ e.lease[u] = d.lease[u]
                                   /\ e.tree[u] = d.tree[u]
<1>. DEFINE f == Moved(d, t, "ready", "not_dispatched", d.task[t].outcome, {})
            row == [f.task[t] EXCEPT !.attempt = d.lease[t].id.attempt - 1,
                                     !.fence = d.lease[t].id.fence - 1]
<1>1. d.task[t] \in TaskRows
  BY DEF StoreType
<1>2. d.task[t].outcome \in Outcomes
  BY <1>1 DEF TaskRows
<1>3. StoreType(f)
  BY <1>2, MovedType DEF States, Phases
<1>4. /\ f.lease = d.lease /\ f.tree = d.tree /\ f.mail = d.mail
      /\ f.reserved = d.reserved
      /\ f.task[t].state = "ready" /\ f.task[t].outcome = d.task[t].outcome
      /\ \A u \in Tasks \ {t} : f.task[u] = d.task[u]
  BY MovedParts
<1>. HIDE DEF f
<1>5. f.task[t] \in TaskRows
  BY <1>3 DEF StoreType
<1>6. /\ row.state = "ready" /\ row.outcome = d.task[t].outcome
      /\ row.attempt = d.lease[t].id.attempt - 1
      /\ row.fence = d.lease[t].id.fence - 1
  BY <1>4, <1>5 DEF TaskRows
<1>7. e = [f EXCEPT !.lease = [f.lease EXCEPT ![t] = NoLease],
                    !.tree = [f.tree EXCEPT ![t] = "none"],
                    !.task = [f.task EXCEPT ![t] = row]]
  BY <1>3 DEF Withdrawn, StoreType, f
<1>. HIDE DEF row
<1>. QED BY <1>3, <1>4, <1>6, <1>7 DEF StoreType

\* The expiry pass keeps the invariant, for each of its three treatments of a lease.
LEMMA ExpirySound ==
  ASSUME AuthorityInv, NEW t \in Tasks, Expire(t)
  PROVE  Sound(db')
<1>. USE DEF AuthorityInv, TypeInv
<1>1. Held(db, t) /\ AuthorityAt(db, t)
  BY DEF Expire, ProposalExpires, LeaseExpires, FirstExpired, Expired, Sound
<1>2. CASE ProposalExpires(t)
  <2>. DEFINE e == Withdrawn(db, t)
  <2>1. db.task[t].state # "running"
    BY <1>1, <1>2, ActivatedMeans DEF ProposalExpires, AuthorityAt
  <2>2. /\ e.mail = db.mail
        /\ e.lease[t] = NoLease /\ e.tree[t] = "none"
        /\ e.task[t].state = "ready"
        /\ e.task[t].attempt = db.lease[t].id.attempt - 1
        /\ \A u \in Tasks \ {t} : /\ e.task[u] = db.task[u]
                                  /\ e.lease[u] = db.lease[u]
                                  /\ e.tree[u] = db.tree[u]
    BY WithdrawnParts
  <2>3. db' = e
    BY <1>2 DEF ProposalExpires, Record
  <2>. HIDE DEF e
  <2>4. Ended(db, e, t)
    BY <1>1, <2>1, <2>2 DEF Ended, Held, Asked, AuthorityAt
  <2>5. \A u \in Tasks \ {t} : Same(db, e, u)
    BY <2>2 DEF Same, Held, Asked
  <2>. QED BY <2>3, <2>4, <2>5, EndedSound
<1>3. CASE LeaseExpires(t)
  <2>. DEFINE out == Outstanding(db, db.lease[t].id)
  <2>1. out \in [AttemptResources -> Int]
    BY ReservedType
  <2>2. \E reason : \/ db' = Retried(Closed(db, t, out), t, reason)
                    \/ db' = Quarantined(Closed(db, t, out), t, reason)
    BY <1>3 DEF LeaseExpires, Record
  <2>. HIDE DEF out
  <2>3. \A e, reason : \/ e = Retried(Closed(db, t, out), t, reason)
                       \/ e = Quarantined(Closed(db, t, out), t, reason)
                       => Sound(e)
    <3>. TAKE e, reason
    <3>1. "ready" # "running"
      OBVIOUS
    <3>. QED BY <2>1, <3>1, ClosedSound
  <2>. QED BY <2>2, <2>3
<1>. QED BY <1>2, <1>3 DEF Expire

\* A closed attempt, in whatever way it ends.
LEMMA EndingSound ==
  ASSUME NEW d, StoreType(d), Sound(d), NEW t \in Tasks,
         NEW charge \in [AttemptResources -> Int], NEW e,
         \/ \E reason : \/ e = Retried(Closed(d, t, charge), t, reason)
                        \/ e = Quarantined(Closed(d, t, charge), t, reason)
         \/ \E state, phase, outcome, blockers :
              /\ state # "running"
              /\ e = Moved(Closed(d, t, charge), t, state, phase, outcome, blockers)
  PROVE  Sound(e)
<1>1. CASE \E reason : \/ e = Retried(Closed(d, t, charge), t, reason)
                       \/ e = Quarantined(Closed(d, t, charge), t, reason)
  <2>1. "ready" # "running"
    OBVIOUS
  <2>. QED BY <1>1, <2>1, ClosedSound
<1>2. ASSUME NEW state, NEW phase, NEW outcome, NEW blockers, state # "running",
             e = Moved(Closed(d, t, charge), t, state, phase, outcome, blockers)
      PROVE  Sound(e)
  BY <1>2, ClosedSound
<1>. QED BY <1>1, <1>2

\* So does every delivered message, of whichever kind and whatever its verdict.
LEMMA IngestSound ==
  ASSUME AuthorityInv, NEW m \in Deliverable, Ingest(m)
  PROVE  Sound(db')
<1>. DEFINE t == m.lid.task
            r == Received(m)
            out == Outstanding(db, m.lid)
<1>. USE DEF AuthorityInv
<1>1. ASSUME Adopting(m), m.say.type \in HostTypes, ~Capability(m)
      PROVE  /\ StoreType(r) /\ Sound(r) /\ t \in Tasks /\ Held(r, t)
             /\ Held(db, t) /\ db.lease[t].id = m.lid
             /\ \A u \in Tasks : Same(db, r, u)
  BY <1>1, AdoptingType, ReceivedSame, SameSound DEF TypeInv
<1>2. out \in [AttemptResources -> Int] /\ Nothing \in [AttemptResources -> Int]
  BY ReservedType DEF TypeInv, Nothing
<1>3. r.task = db.task /\ r.tree = db.tree /\ r.lease = db.lease
  BY DEF Received, TypeInv, StoreType
<1>. HIDE DEF r, out
<1>4. CASE Redelivered(m) \/ ResultRaises(m)
  BY <1>4 DEF Redelivered, ResultRaises
<1>5. CASE Reject(m)
  <2>. DEFINE e == [db EXCEPT !.rejected = @ \cup {m}]
  <2>1. \A u \in Tasks : Same(db, e, u)
    BY DEF TypeInv, StoreType, Same, Held, Asked
  <2>2. db' = e
    BY <1>5 DEF Reject
  <2>. HIDE DEF e
  <2>. QED BY <2>1, <2>2, SameSound DEF TypeInv
<1>6. CASE CapabilityObserved(m)
  <2>. DEFINE e == [r EXCEPT !.caps[m.sender] = m.say.caps,
                             !.registered = @ \cup {m.sender}]
  <2>1. m.say.type \in HostTypes /\ StoreType(r)
    BY <1>6, AdoptingType DEF CapabilityObserved, Capability, HostTypes, r
  <2>2. Sound(r)
    BY <2>1, ReceivedSame, SameSound DEF TypeInv, r
  <2>3. db' = e
    BY <1>6 DEF CapabilityObserved, r
  <2>4. \A u \in Tasks : Same(r, e, u)
    BY <2>1 DEF StoreType, Same, Held, Asked
  <2>. HIDE DEF e
  <2>. QED BY <2>1, <2>2, <2>3, <2>4, SameSound
<1>7. CASE ApprovalReceived(m)
  <2>1. /\ Adopting(m) /\ m.say.type \in HostTypes /\ ~Capability(m)
        /\ db' = IF r.tree[t] = "observed" /\ r.task[t].phase = "not_dispatched"
                   THEN Resumed(r, t, now) ELSE r
    BY <1>7 DEF ApprovalReceived, Approval, Capability, HostTypes, r
  <2>2. r.tree[t] = "observed" => r.task[t].state = "running"
    BY <1>1, <2>1 DEF Sound, AuthorityAt
  <2>. QED BY <1>1, <2>1, <2>2, ResumedSound DEF TypeInv
<1>8. CASE DispatchAccepted(m)
  <2>. DEFINE row == [r.task[t] EXCEPT !.phase = "accepted"]
              e == [r EXCEPT !.task[t].phase = "accepted",
                             !.reserved["context_bytes"] =
                                @ - out["context_bytes"],
                             !.used["context_bytes"] =
                                @ + out["context_bytes"]]
  <2>1. Adopting(m) /\ m.say.type \in HostTypes /\ ~Capability(m)
    BY <1>8 DEF DispatchAccepted, Capability, HostTypes
  <2>2. db' = e
    BY <1>8 DEF DispatchAccepted, Adopt, r, out
  <2>3. r.task[t] \in TaskRows
    BY <1>1, <2>1 DEF StoreType
  <2>4. /\ row.state = r.task[t].state
        /\ row.attempt = r.task[t].attempt
        /\ row.fence = r.task[t].fence
    BY <2>3 DEF TaskRows
  <2>5. /\ e.task = [r.task EXCEPT ![t] = row]
        /\ e.lease = r.lease /\ e.tree = r.tree /\ e.mail = r.mail
    BY <1>1, <2>1 DEF StoreType
  <2>. HIDE DEF e, row
  <2>6. \A u \in Tasks : Same(r, e, u)
    BY <1>1, <2>1, <2>4, <2>5 DEF Same, Held, Asked, StoreType
  <2>. QED BY <1>1, <2>1, <2>2, <2>6, SameSound
<1>9. CASE Heartbeat(m)
  <2>. DEFINE row == [id |-> m.lid, expires |-> now + Ttl]
              e == [r EXCEPT !.lease[t] = row, !.history = @ \cup {row}]
  <2>1. Adopting(m) /\ m.say.type \in HostTypes /\ ~Capability(m)
    BY <1>9 DEF Heartbeat, Capability, HostTypes
  <2>2. db' = e
    BY <1>9 DEF Heartbeat, Adopt, r
  <2>3. m.lid \in LeaseIds
    BY <2>1, AdoptingType
  <2>4. row # NoLease /\ row.id = m.lid
    BY <2>3, NoLeaseAssumption, BudgetAssumption DEF LeaseRows, TypeInv
  <2>. HIDE DEF row
  <2>5. /\ e.lease = [r.lease EXCEPT ![t] = row]
        /\ e.task = r.task /\ e.tree = r.tree /\ e.mail = r.mail
    BY <1>1, <2>1 DEF StoreType
  <2>. HIDE DEF e
  <2>6. \A u \in Tasks : Same(r, e, u)
    BY <1>1, <1>3, <2>1, <2>4, <2>5 DEF Same, Held, Asked, StoreType
  <2>. QED BY <1>1, <2>1, <2>2, <2>6, SameSound
<1>10. CASE DispatchRejected(m)
  <2>1. /\ Adopting(m) /\ m.say.type \in HostTypes /\ ~Capability(m)
        /\ \E reason : \/ db' = Retried(Closed(r, t, Nothing), t, reason)
                       \/ db' = Quarantined(Closed(r, t, Nothing), t, reason)
    BY <1>10 DEF DispatchRejected, Capability, HostTypes, Adopt, r
  <2>2. \A e : (\E reason : \/ e = Retried(Closed(r, t, Nothing), t, reason)
                            \/ e = Quarantined(Closed(r, t, Nothing), t, reason))
               => Sound(e)
    BY <1>1, <1>2, <2>1, EndingSound
  <2>. QED BY <2>1, <2>2
<1>11. CASE CancelAcknowledged(m)
  <2>1. /\ Adopting(m) /\ m.say.type \in HostTypes /\ ~Capability(m)
        /\ \/ db' = Moved(Closed(r, t, out), t, "superseded",
                          "cancellation_acknowledged", "cancelled",
                          {"cancellation-acknowledged"})
           \/ db' = Moved(Closed(r, t, out), t, "blocked",
                          "cancellation_requested", "unknown",
                          {"cancellation-ambiguous"})
    BY <1>11 DEF CancelAcknowledged, Capability, HostTypes, Adopt, r, out
  <2>2. \A e, state, phase, outcome, blockers :
          state # "running" /\ e = Moved(Closed(r, t, out), t, state, phase,
                                         outcome, blockers)
          => Sound(e)
    BY <1>1, <1>2, <2>1, EndingSound
  <2>. QED BY <2>1, <2>2
<1>12. CASE WorktreeObserved(m)
  <2>. DEFINE e == [r EXCEPT !.tree[t] = "observed"]
  <2>1. Adopting(m) /\ m.say.type = "worktree_observation"
    BY <1>12 DEF WorktreeObserved
  <2>2. m.say.type \in HostTypes /\ ~Capability(m) /\ ~Approval(m)
    BY <2>1 DEF HostTypes, Capability, Approval
  <2>3. db.tree[t] # "none" /\ db.task[t].state = "running"
    BY <2>1, <2>2 DEF Adopting, Adoptable, ReplyAdoptable
  <2>4. \/ \E reason : db' = Quarantined(Closed(r, t, Nothing), t, reason)
        \/ db' = Resumed(e, t, now)
    BY <1>12 DEF WorktreeObserved, Adopt, r
  <2>5. /\ e.tree = [r.tree EXCEPT ![t] = "observed"]
        /\ e.task = r.task /\ e.lease = r.lease /\ e.mail = r.mail
        /\ StoreType(e)
    BY <1>1, <2>1, <2>2 DEF StoreType
  <2>. HIDE DEF e
  <2>6. \A u \in Tasks : Same(r, e, u)
    BY <1>1, <1>3, <2>1, <2>2, <2>3, <2>5 DEF Same, Held, Asked, StoreType
  <2>7. Sound(e)
    BY <1>1, <2>1, <2>2, <2>6, SameSound
  <2>8. Sound(Resumed(e, t, now))
    BY <1>1, <1>3, <2>1, <2>2, <2>3, <2>5, <2>7, ResumedSound DEF Held, TypeInv
  <2>9. \A x, reason : x = Quarantined(Closed(r, t, Nothing), t, reason) => Sound(x)
    BY <1>1, <1>2, <2>1, <2>2, EndingSound
  <2>. QED BY <2>4, <2>8, <2>9
<1>13. ASSUME ResultSucceeded(m) \/ ResultUnsuccessful(m)
       PROVE  Sound(db')
  <2>1. Adopting(m) /\ m.say.type = "task_result" /\ m \in Messages
    BY <1>13, AdoptingType DEF ResultSucceeded, ResultUnsuccessful
  <2>2. m.say.type \in HostTypes /\ ~Capability(m)
    BY <2>1 DEF HostTypes, Capability
  <2>3. m.say.usage \in [AttemptResources -> Nat]
    BY <2>1, <2>2, HostWords, VocabularyAssumption
  <2>4. Charge(m) \in [AttemptResources -> Int]
    <3>. HIDE DEF AuthorityInv
    <3>1. Outstanding(db, m.lid)["context_bytes"] \in Int
      BY <1>2 DEF out, AttemptResources
    <3>. QED BY <2>3, <3>1 DEF Charge, AttemptResources
  <2>. DEFINE c == Closed(r, t, Charge(m))
  <2>5. ASSUME NEW x
        PROVE  /\ \A reason : \/ x = Retried(c, t, reason)
                              \/ x = Quarantined(c, t, reason)
                              => Sound(x)
               /\ \A state, phase, outcome, blockers :
                    /\ state # "running"
                    /\ x = Moved(c, t, state, phase, outcome, blockers)
                    => Sound(x)
    BY <1>1, <2>1, <2>2, <2>4, EndingSound
  <2>. HIDE DEF c
  <2>6. CASE ResultSucceeded(m)
    <3>1. db' = Verified(c, t, m)
      BY <2>6 DEF ResultSucceeded, Adopt, r, c
    <3>. QED BY <2>5, <3>1 DEF Verified
  <2>7. CASE ResultUnsuccessful(m)
    <3>1. \/ \E reason : \/ db' = Retried(c, t, reason)
                         \/ db' = Quarantined(c, t, reason)
          \/ db' = Moved(c, t, "rejected", "not_dispatched", "failed",
                         {"unambiguous-failure"})
      BY <2>7 DEF ResultUnsuccessful, Adopt, r, c
    <3>. QED BY <2>5, <3>1
  <2>. QED BY <1>13, <2>6, <2>7
<1>. QED BY <1>4, <1>5, <1>6, <1>7, <1>8, <1>9, <1>10, <1>11, <1>12, <1>13 DEF Ingest

\* So does the readiness pass, with its retry of a failed worktree.
LEMMA RefreshSound ==
  ASSUME AuthorityInv, NEW t \in Tasks, RefreshTask(t) \/ RetryWorktree(t)
  PROVE  Sound(db')
<1>. USE DEF AuthorityInv, TypeInv
<1>1. CASE RefreshTask(t)
  <2>1. Visit(IdOrder, t, RefreshChanges) /\ db' = Refreshed(db, t)
    BY <1>1 DEF RefreshTask
  <2>2. db.task[t].state # "running"
    BY <2>1 DEF Visit, RefreshChanges, Refreshable, Readiness
  <2>3. \A state, blockers : state # "running" => Sound(Readied(db, t, state, blockers))
    BY <2>2, ReadiedSound
  <2>. QED BY <2>1, <2>3 DEF Refreshed
<1>2. CASE RetryWorktree(t)
  <2>1. Visit(DispatchOrder, t, BudgetBlockedWorktrees)
    BY <1>2 DEF RetryWorktree
  <2>2. Held(db, t) /\ db.task[t].state = "running"
    BY <2>1 DEF Visit, BudgetBlockedWorktrees
  <2>3. db' = Resumed(db, t, now) \/ db' = db
    BY <1>2 DEF RetryWorktree
  <2>. QED BY <2>2, <2>3, ResumedSound
<1>. QED BY <1>1, <1>2

\* So does each outcome of dispatching a ready task.
LEMMA DispatchSound ==
  ASSUME AuthorityInv, NEW t \in Tasks, DispatchReady(t)
  PROVE  Sound(db')
<1>. USE DEF AuthorityInv
<1>. DEFINE w == WithLease(db, t)
<1>1. Dispatching(t)
  BY DEF DispatchReady, BudgetBlocks, ApprovalBlocks, WorktreeBlocks,
         RequestWorktree, Dispatch
<1>2. db.task[t].state = "ready" /\ tx.pc # "idle"
  BY <1>1 DEF Dispatching, Visit, Dispatchable, InTx
<1>3. /\ Sound(w) /\ StoreType(w)
      /\ Held(w, t)
      /\ w.lease[t].id = Proposed(db, t).id
      /\ w.task[t].state = "ready"
      /\ w.tree = db.tree /\ w.mail = db.mail
  BY <1>2, WithLeaseSound
<1>4. w.consumed = db.consumed /\ Proposed(db, t).id \in LeaseIds
  BY <1>2, ProposedType
<1>. HIDE DEF w
<1>5. CASE BudgetBlocks(t) \/ WorktreeBlocks(t)
  <2>1. \A blockers : Sound(Readied(db, t, "blocked", blockers))
    BY <1>2, ReadiedSound DEF TypeInv
  <2>. QED BY <1>5, <2>1 DEF BudgetBlocks, WorktreeBlocks, Record
<1>6. CASE ApprovalBlocks(t)
  <2>1. \A blockers : Sound(Readied(w, t, "blocked", blockers))
    BY <1>3, ReadiedSound
  <2>. QED BY <1>6, <2>1 DEF ApprovalBlocks, Record, w
<1>7. CASE RequestWorktree(t)
  <2>. DEFINE id == Proposed(db, t).id
              d  == Moved(w, t, "running", "not_dispatched", "none", {})
              m  == Outgoing([type |-> "worktree_request"], id, now)
              e  == [d EXCEPT !.tree[t] = "requested",
                              !.reserved = SlotTaken(d),
                              !.mail = @ \cup {m}]
  <2>1. /\ Worktree[t] # NoWorktree /\ ~Occupied(db, t)
        /\ db' = e
    BY <1>7 DEF RequestWorktree, Record, w
  <2>2. m.say.type = "worktree_request" /\ m.lid = w.lease[t].id
    BY <1>3 DEF Outgoing
  <2>3. ~Occupied(w, t)
    BY <1>3, <2>1 DEF Occupied
  <2>4. /\ StoreType(d)
        /\ d.lease = w.lease /\ d.tree = w.tree /\ d.mail = w.mail
        /\ d.task[t].state = "running"
        /\ d.task[t].attempt = w.task[t].attempt
        /\ d.task[t].fence = w.task[t].fence
        /\ \A u \in Tasks \ {t} : d.task[u] = w.task[u]
    BY <1>3, MovedType, MovedParts DEF States, Phases, Outcomes
  <2>. HIDE DEF d, m
  <2>5. /\ e.lease = w.lease /\ e.mail = w.mail \cup {m} /\ e.task = d.task
        /\ e.tree = [w.tree EXCEPT ![t] = "requested"]
    BY <2>4 DEF StoreType
  <2>. HIDE DEF e
  <2>6. \A u \in Tasks \ {t} : e.task[u] = w.task[u] /\ e.tree[u] = w.tree[u]
    BY <1>3, <2>4, <2>5 DEF StoreType
  <2>7. /\ e.task[t].state = "running"
        /\ e.task[t].attempt = w.task[t].attempt
        /\ e.task[t].fence = w.task[t].fence
    BY <2>4, <2>5
  <2>8. Sound(e)
    <3>1. /\ m.say.type \in {"dispatch_intent", "worktree_request"}
          /\ m.say.type = "worktree_request"
          /\ m.lid = w.lease[t].id
          /\ e.lease = w.lease /\ e.mail = w.mail \cup {m}
          /\ Worktree[t] # NoWorktree /\ ~Occupied(w, t)
      BY <2>1, <2>2, <2>3, <2>5
    <3>. HIDE DEF AuthorityInv
    <3>. QED BY <1>3, <2>6, <2>7, <3>1, AskedSound
  <2>. QED BY <2>1, <2>8
<1>8. CASE Dispatch(t)
  <2>. DEFINE id == Proposed(db, t).id
              d  == Moved(w, t, "running", "intent_pending", "none", {})
              e  == [d EXCEPT !.reserved = SlotTaken(d)]
              c  == Consumed(e, t, id, now)
              f  == Intent(c, t, id, now)
  <2>1. Cleared(t) /\ db' = f
    BY <1>8 DEF Dispatch, Record, w
  <2>2. /\ StoreType(d)
        /\ d.lease = w.lease /\ d.tree = w.tree /\ d.mail = w.mail
        /\ d.task[t].state = "running"
        /\ d.task[t].attempt = w.task[t].attempt
        /\ d.task[t].fence = w.task[t].fence
        /\ \A u \in Tasks \ {t} : d.task[u] = w.task[u]
    BY <1>3, MovedType, MovedParts DEF States, Phases, Outcomes
  <2>3. d.consumed = db.consumed
    BY <1>3, <1>4 DEF Moved, StoreType
  <2>4. SlotTaken(d) \in [Resources -> Int]
    BY <2>2 DEF SlotTaken, StoreType, Resources
  <2>. HIDE DEF d
  <2>5. /\ StoreType(e) /\ e.task = d.task /\ e.lease = d.lease
        /\ e.tree = d.tree /\ e.mail = db.mail /\ e.consumed = db.consumed
    BY <1>3, <2>2, <2>3, <2>4 DEF StoreType
  <2>. HIDE DEF e, id
  <2>6. Approved(e, t, id, now)
    BY <2>1, <2>5, GrantsDepend DEF Cleared, Approved, id
  <2>7. /\ StoreType(c) /\ c.task = d.task /\ c.lease = d.lease
        /\ c.tree = d.tree /\ c.mail = db.mail
    BY <2>5, <2>6, ConsumedType, ConsumedParts
  <2>. HIDE DEF c
  <2>8. /\ f.task = d.task /\ f.lease = d.lease /\ f.tree = d.tree
        /\ \E m : /\ f.mail = db.mail \cup {m}
                  /\ m.say.type = "dispatch_intent" /\ m.lid = id
    BY <2>7, IntentParts
  <2>. HIDE DEF f
  <2>9. Sound(f)
    BY <1>3, <2>2, <2>8, AskedSound DEF id
  <2>. QED BY <2>1, <2>9
<1>. QED BY <1>5, <1>6, <1>7, <1>8 DEF DispatchReady

\* So does each branch of request_cancel.
LEMMA CancelSound ==
  ASSUME AuthorityInv, NEW t \in Tasks, Cancel(t)
  PROVE  Sound(db')
<1>. USE DEF AuthorityInv, TypeInv
<1>1. CASE CancelRefused(t) \/ CancelRepeated(t)
  BY <1>1 DEF CancelRefused, CancelRepeated
<1>2. CASE CancelRequested(t)
  <2>. DEFINE m == Outgoing([type |-> "cancel_request"], db.lease[t].id, now)
              row == [db.task[t] EXCEPT !.phase = "cancellation_requested"]
              e == [db EXCEPT !.mail = @ \cup {m},
                              !.task[t].phase = "cancellation_requested"]
  <2>1. db' = e
    BY <1>2 DEF CancelRequested, Record
  <2>2. db.task[t] \in TaskRows
    BY DEF StoreType
  <2>3. /\ row.state = db.task[t].state
        /\ row.attempt = db.task[t].attempt
        /\ row.fence = db.task[t].fence
    BY <2>2 DEF TaskRows
  <2>4. m.say.type = "cancel_request"
    BY DEF Outgoing
  <2>5. /\ e.task = [db.task EXCEPT ![t] = row]
        /\ e.lease = db.lease /\ e.tree = db.tree /\ e.mail = db.mail \cup {m}
    BY DEF StoreType
  <2>. HIDE DEF m, row, e
  <2>6. \A u \in Tasks : Same(db, e, u)
    BY <2>3, <2>4, <2>5 DEF Same, Held, Asked, StoreType
  <2>. QED BY <2>1, <2>6, SameSound
<1>. QED BY <1>1, <1>2 DEF Cancel

\* Every step of the scheduler keeps the invariant.
LEMMA AuthorityStep == AuthorityInv /\ [Next]_vars => AuthorityInv'
<1>. SUFFICES ASSUME AuthorityInv, [Next]_vars
              PROVE  Sound(disk') /\ Sound(db')
  BY TypeStep DEF AuthorityInv
<1>1. CASE UNCHANGED vars
  BY <1>1 DEF vars, AuthorityInv
<1>2. CASE AdvanceClock \/ \E h \in Hosts : BeginTick(h)
  BY <1>2, OpenSound DEF BeginTick
<1>3. CASE \E h \in Hosts, t \in Tasks : BeginCancelCheck(h, t) \/ BeginCancel(h, t)
  BY <1>3, OpenSound DEF BeginCancelCheck, BeginCancel
<1>4. CASE \E t \in Tasks : Expire(t) \/ RefreshTask(t) \/ RetryWorktree(t)
                            \/ DispatchReady(t) \/ Cancel(t)
  <2>. PICK t \in Tasks : \/ Expire(t) \/ RefreshTask(t) \/ RetryWorktree(t)
                          \/ DispatchReady(t) \/ Cancel(t)
    BY <1>4
  <2>1. disk' = disk
    BY DEF Expire, ProposalExpires, LeaseExpires, RefreshTask, RetryWorktree,
           DispatchReady, Dispatching, BudgetBlocks, ApprovalBlocks, WorktreeBlocks,
           RequestWorktree, Dispatch, Cancel, CancelRefused, CancelRepeated,
           CancelRequested
  <2>2. Sound(db')
    BY ExpirySound, RefreshSound, DispatchSound, CancelSound
  <2>. QED BY <2>1, <2>2 DEF AuthorityInv
<1>5. CASE \E m \in Deliverable : Ingest(m)
  <2>. PICK m \in Deliverable : Ingest(m)
    BY <1>5
  <2>1. disk' = disk
    BY DEF Ingest, Redelivered, Reject, CapabilityObserved, ApprovalReceived,
           DispatchAccepted, DispatchRejected, Heartbeat, ResultRaises,
           ResultSucceeded, ResultUnsuccessful, CancelAcknowledged,
           WorktreeObserved, Adopt
  <2>2. Sound(db')
    BY IngestSound
  <2>. QED BY <2>1, <2>2 DEF AuthorityInv
<1>6. CASE ExpiryDone \/ IngestDone \/ RefreshDone \/ RetryDone \/ DispatchDone
  BY <1>6 DEF ExpiryDone, IngestDone, RefreshDone, RetryDone, DispatchDone,
              AuthorityInv
<1>7. CASE Commit \/ Abort \/ Crash
  BY <1>7 DEF Commit, Abort, Crash, AuthorityInv
<1>. QED BY <1>1, <1>2, <1>3, <1>4, <1>5, <1>6, <1>7 DEF Next, Work, Call

-----------------------------------------------------------------------------
\* The inductive invariant holds in every state a behaviour reaches.
THEOREM AuthorityInvariant == Spec => []AuthorityInv
<1>1. Init => AuthorityInv
  BY TypeInit, AuthorityInit DEF AuthorityInv
<1>. QED BY <1>1, AuthorityStep, PTL DEF Spec

\* For every graph, budget, vocabulary and set of hosts, and across every crash
\* and abort: a task is running exactly when its current Lease was activated,
\* lease and task rows carry the same numbers, and a worktree row exists only
\* under a running Lease that asked for it (_expire_leases, _apply_* and
\* _dispatch_ready each keep these three tables in step).
THEOREM AuthorityHolds == Spec => []Authority
<1>1. AuthorityInv => Authority
  BY SoundImplies DEF AuthorityInv, TypeInv, Authority, Everywhere
<1>. QED BY <1>1, AuthorityInvariant, PTL

\* No two tasks ever hold the same worktree, in the committed file or in an
\* open transaction: the occupancy test of _dispatch_ready suffices because
\* every path that ends an attempt removes its worktree row.
THEOREM WorktreesAreExclusive == Spec => []WorktreeExclusive
<1>1. AuthorityInv => WorktreeExclusive
  BY DEF AuthorityInv, Sound, WorktreeExclusive, Everywhere
<1>. QED BY <1>1, AuthorityInvariant, PTL
=============================================================================
