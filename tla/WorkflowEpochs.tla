--------------------------- MODULE WorkflowEpochs ---------------------------
(***************************************************************************)
(* The workflow-epoch half of SQLiteSchedulerStore (schema 2).  One Plan   *)
(* is one epoch: an append-only chain of WorkflowEpochEvents and the head  *)
(* reduced from it.  Every call is one BEGIN IMMEDIATE transaction, so     *)
(* every call is one step.                                                 *)
(*                                                                         *)
(* The scheduler's own authority - the triple (state id, sequence, event   *)
(* head) that a request pins - is `sched`, the sequence of the last        *)
(* scheduler event: the other two are functions of it, because scheduler   *)
(* evidence is append-only and the state is derived from it.  A head's     *)
(* current_event_head_id is likewise (plan, n): chains do not fork.        *)
(***************************************************************************)
EXTENDS Naturals, Sequences, FiniteSets

CONSTANTS
  Plans,        \* integrated Plan identities
  Names,        \* contents an artifact of each type may have
  Slots,        \* output locations, each with room for one file of each type
  Keys,         \* idempotency keys
  Producers,    \* producing operations
  MaxTicks,     \* scheduler events the model lets a host append
  MaxTime,      \* last reading of the clock
  Room,         \* epoch events the model lets each Plan's chain hold
  None          \* SQL NULL / Python None

ASSUME EpochBounds == MaxTicks \in Nat /\ MaxTime \in Nat /\ Room \in [Plans -> Nat]
ASSUME NoneIsNone ==
  None \notin Plans \cup Names \cup Nat \cup {"state", "outcome"} \X Names

VARIABLES
  sched,        \* sequence of the scheduler's last event
  epochs,       \* workflow_epoch_events, in order of their global sequence
  heads         \* current_workflow_epoch_heads: Plan -> head or NoHead

store == <<sched, epochs, heads>>

Phases == {"OPEN", "TRANSITION_RESERVED", "ACTIVE", "TERMINAL_RESERVED",
           "TERMINAL_CONFIRMED"}
Terminal == {"TERMINAL_RESERVED", "TERMINAL_CONFIRMED"}
Times == 0 .. MaxTime

\* A WorkflowArtifactReceipt without its status: an artifact of one type, with
\* the identity its content (a name) gives it, at a path.  A head's receipts map
\* each artifact to its status.
ArtifactOf(type, name, slot, producer) ==
  [type |-> type, id |-> <<type, name>>, path |-> <<type, slot>>, producer |-> producer]
Reserved(S) == [a \in S |-> "RESERVED"]
NoArtifact == [type |-> "none", id |-> None, path |-> None, producer |-> None]
AllConfirmed(receipts) == \A a \in DOMAIN receipts : receipts[a] = "CONFIRMED"

\* The head of a Plan that has no epoch: no row.
NoHead ==
  [plan |-> None, pred |-> None, n |-> 0, phase |-> "ABSENT", sched |-> 0, key |-> None,
   producer |-> None, source |-> None, event |-> NoArtifact, state |-> NoArtifact,
   outcome |-> NoArtifact, receipts |-> Reserved({}), at |-> 0, terminal_at |-> None]
Opened(p) == heads[p] # NoHead

\* What a request pins: the epoch's current heads when the caller looked.
HeadN(p) == heads[p].n
RoomIn(p) == HeadN(p) < Room[p]

\* What each operation reserves: open_workflow_epoch the Plan itself,
\* reserve_workflow_transition an Event and a State, reserve_workflow_terminal an
\* Event, a State and an Outcome.
OutputTypes(cause) ==
  CASE cause = "EPOCH_OPENED" -> {"plan"}
    [] cause = "TRANSITION_RESERVED" -> {"event", "state"}
    [] cause = "TERMINAL_RESERVED" -> {"event", "state", "outcome"}
Outputs(cause, r) == {ArtifactOf(t, r.name, r.slot, r.producer) : t \in OutputTypes(cause)}

----------------------------------------------------------------------------
(* Pure rules over heads, events and receipts *)

\* Additions may repeat an exact receipt; a path or an id may not be re-bound.
M_Mergeable(existing, adds) ==
  \A a \in adds, b \in existing \cup adds : a.path = b.path => a = b
Mergeable(existing, adds) ==
  \A a \in adds, b \in existing \cup adds :
     /\ a.path = b.path => a = b
     /\ a.id = b.id => a.path = b.path
Merged(receipts, adds) ==
  [a \in DOMAIN receipts \cup adds |-> IF a \in DOMAIN receipts THEN receipts[a] ELSE "RESERVED"]

\* A retry: the very request whose reservation the head still carries.
SameRequest(h, cause, r) ==
  /\ h.sched = r.sched /\ h.key = r.key
  /\ h.producer = r.producer /\ h.source = r.source
  /\ Outputs(cause, r) \subseteq DOMAIN h.receipts

\* The latest event, state and outcome: the newly added receipt of the type wins.
ArtifactHead(prior, receipts, type) ==
  LET new == {a \in DOMAIN receipts \ DOMAIN prior.receipts : a.type = type}
  IN  IF new # {} THEN CHOOSE a \in new : TRUE ELSE prior[type]

Added(prior, e) == DOMAIN e.receipts \ DOMAIN prior.receipts
AddsReserved(prior, e, types) ==
  /\ {a.type : a \in Added(prior, e)} = types
  /\ \A a \in Added(prior, e) : e.receipts[a] = "RESERVED"
SameAuthority(prior, e) ==
  /\ e.key = prior.key /\ e.producer = prior.producer
  /\ e.source = prior.source /\ e.sched = prior.sched
  /\ DOMAIN e.receipts = DOMAIN prior.receipts

\* An epoch's first event: opens it with its own Plan's receipt, reserved.
RootEvent(e) ==
  /\ e.cause = "EPOCH_OPENED"
  /\ e.n = 1 /\ e.source = None
  /\ \E a \in DOMAIN e.receipts :
        /\ DOMAIN e.receipts = {a}
        /\ a.type = "plan" /\ a.id = <<"plan", e.plan>> /\ e.receipts[a] = "RESERVED"

\* Every later event: extends the chain in time and keeps every receipt.
Continues(prior, e) ==
  /\ e.plan = prior.plan /\ e.pred = prior.pred
  /\ e.n = prior.n + 1 /\ e.previous = prior.n
  /\ e.at >= prior.at
  /\ DOMAIN prior.receipts \subseteq DOMAIN e.receipts

\* What each cause may do to the head it finds.
M_TransitionEvent(prior, e) ==
  /\ e.cause = "TRANSITION_RESERVED"
  /\ prior.phase \in {"OPEN", "ACTIVE"}
  /\ AddsReserved(prior, e, {"event", "state"})
TransitionEvent(prior, e) ==
  /\ e.cause = "TRANSITION_RESERVED"
  /\ prior.phase \in {"OPEN", "ACTIVE"}
  /\ e.source = prior.state.id
  /\ AddsReserved(prior, e, {"event", "state"})
ConfirmationEvent(prior, e) ==
  /\ e.cause = "ARTIFACT_CONFIRMED"
  /\ SameAuthority(prior, e)
  /\ \E a \in DOMAIN prior.receipts :
        /\ prior.receipts[a] = "RESERVED"
        /\ e.receipts = [prior.receipts EXCEPT ![a] = "CONFIRMED"]
TerminalEvent(prior, e) ==
  /\ e.cause = "TERMINAL_RESERVED"
  /\ prior.phase \in {"OPEN", "ACTIVE"}
  /\ prior.state # NoArtifact /\ e.source = prior.state.id
  /\ AddsReserved(prior, e, {"event", "state", "outcome"})
ClosingEvent(prior, e) ==
  /\ e.cause = "TERMINAL_CONFIRMED"
  /\ prior.phase = "TERMINAL_RESERVED"
  /\ e.at = prior.terminal_at
  /\ SameAuthority(prior, e)
  /\ AllConfirmed(e.receipts)

\* _reduce_workflow_event: the checks, then the new head.
Reducible(prior, e) ==
  /\ IF prior = NoHead
     THEN RootEvent(e)
     ELSE /\ Continues(prior, e)
          /\ \/ TransitionEvent(prior, e)
             \/ ConfirmationEvent(prior, e)
             \/ TerminalEvent(prior, e)
             \/ ClosingEvent(prior, e)
  /\ \A type \in {"event", "state", "outcome"} :
        e[type] = ArtifactHead(prior, e.receipts, type)
M_PhaseAfter(prior, e) ==
  CASE e.cause = "EPOCH_OPENED" -> "OPEN"
    [] e.cause = "ARTIFACT_CONFIRMED" ->
         IF AllConfirmed(e.receipts) THEN "ACTIVE" ELSE prior.phase
    [] OTHER -> e.cause
PhaseAfter(prior, e) ==
  CASE e.cause = "EPOCH_OPENED" -> "OPEN"
    [] e.cause = "ARTIFACT_CONFIRMED" ->
         IF prior.phase # "TERMINAL_RESERVED" /\ AllConfirmed(e.receipts)
         THEN "ACTIVE" ELSE prior.phase
    [] OTHER -> e.cause
Reduced(prior, e) ==
  [plan |-> e.plan, pred |-> e.pred, n |-> e.n, phase |-> PhaseAfter(prior, e),
   sched |-> e.sched, key |-> e.key, producer |-> e.producer, source |-> e.source,
   event |-> e.event, state |-> e.state, outcome |-> e.outcome,
   receipts |-> e.receipts, at |-> e.at,
   terminal_at |-> CASE e.cause = "TERMINAL_RESERVED" -> e.at
                     [] e.cause = "EPOCH_OPENED" -> None
                     [] OTHER -> prior.terminal_at]

\* _replay_workflow_epochs: the heads after the first k events of the log.
Replay ==
  LET after[k \in 0 .. Len(epochs)] ==
        IF k = 0 THEN [p \in Plans |-> NoHead]
        ELSE [after[k - 1] EXCEPT ![epochs[k].plan] = Reduced(@, epochs[k])]
  IN  after[Len(epochs)]

\* _validate_workflow_epoch_evidence: run at the end of every transaction.
Pending(hs) == {p \in Plans : hs[p].phase = "TERMINAL_RESERVED"}
EvidenceValid(hs, s) ==
  /\ \A p \in Plans : hs[p].sched <= s
  /\ \A p, q \in Pending(hs) : p = q
  /\ \A p \in Pending(hs) : hs[p].sched = s

----------------------------------------------------------------------------
(* The store's calls.  Each has the predicates on which the code branches  *)
(* and the action; a caller for which neither branch holds is refused and  *)
(* nothing changes.                                                        *)

SchedulerHead(r) == r.sched = sched
OnlyPending(p) == Pending(heads) \subseteq {p}

EpochEvent(p, cause, r, receipts) ==
  LET prior == heads[p]
  IN  [plan |-> p, cause |-> cause, n |-> HeadN(p) + 1, previous |-> HeadN(p),
       pred |-> IF prior = NoHead THEN r.pred ELSE prior.pred,
       sched |-> r.sched, key |-> r.key, producer |-> r.producer, source |-> r.source,
       event |-> ArtifactHead(prior, receipts, "event"),
       state |-> ArtifactHead(prior, receipts, "state"),
       outcome |-> ArtifactHead(prior, receipts, "outcome"),
       receipts |-> receipts, at |-> r.at]
\* _append_workflow_event, with the reduction and the validation it must pass.
Appendable(p, e) ==
  /\ Reducible(heads[p], e)
  /\ EvidenceValid([heads EXCEPT ![p] = Reduced(heads[p], e)], sched)
M_AppendEvent(p, e) ==
  /\ Appendable(p, e)
  /\ epochs' = Append(epochs, e)
  /\ heads' = [heads EXCEPT ![p] =
       IF @ = NoHead THEN Reduced(@, e)
       ELSE [@ EXCEPT !.n = e.n, !.phase = PhaseAfter(heads[p], e)]]
  /\ UNCHANGED sched
AppendEvent(p, e) ==
  /\ Appendable(p, e)
  /\ epochs' = Append(epochs, e)
  /\ heads' = [heads EXCEPT ![p] = Reduced(@, e)]
  /\ UNCHANGED sched

\* open_workflow_epoch
OpenEvent(p, r) == EpochEvent(p, "EPOCH_OPENED", r, Reserved(Outputs("EPOCH_OPENED", r)))
Reopens(p, r) ==
  /\ Pending(heads) = {}
  /\ Opened(p) /\ SameRequest(heads[p], "EPOCH_OPENED", r) /\ heads[p].pred = r.pred
Opens(p, r) ==
  /\ Pending(heads) = {}
  /\ ~Opened(p)
  /\ SchedulerHead(r) /\ Appendable(p, OpenEvent(p, r))
OpenEpoch(p, r) == Opens(p, r) /\ AppendEvent(p, OpenEvent(p, r))

\* _reserve_workflow_change
ChangeEvent(p, cause, r) == EpochEvent(p, cause, r, Merged(heads[p].receipts, Outputs(cause, r)))
M_ScopeAllows(p, cause) == TRUE
ScopeAllows(p, cause) ==
  Pending(heads) # {} => cause = "TERMINAL_RESERVED" /\ OnlyPending(p)
Repeats(p, cause, r) ==
  /\ ScopeAllows(p, cause)
  /\ Opened(p) /\ SameRequest(heads[p], cause, r)
  /\ \/ cause = "TERMINAL_RESERVED" /\ heads[p].phase \in Terminal
        /\ heads[p].terminal_at = r.at
     \/ cause = "TRANSITION_RESERVED"
        /\ heads[p].phase \in {"TRANSITION_RESERVED", "ACTIVE"}
Reserves(p, cause, r) ==
  /\ ScopeAllows(p, cause) /\ ~Repeats(p, cause, r)
  /\ heads[p].phase \in {"OPEN", "ACTIVE"}
  /\ r.expected = HeadN(p)
  /\ SchedulerHead(r)
  /\ Mergeable(DOMAIN heads[p].receipts, Outputs(cause, r))
  /\ Appendable(p, ChangeEvent(p, cause, r))
Reserve(p, cause, r) == Reserves(p, cause, r) /\ AppendEvent(p, ChangeEvent(p, cause, r))

\* confirm_workflow_artifact: the receipt is named whole, as every caller does.
ConfirmEvent(p, a, at) ==
  EpochEvent(p, "ARTIFACT_CONFIRMED",
             [sched |-> heads[p].sched, key |-> heads[p].key, producer |-> heads[p].producer,
              source |-> heads[p].source, at |-> at],
             [heads[p].receipts EXCEPT ![a] = "CONFIRMED"])
Matches(p, a, key) ==
  /\ Opened(p) /\ OnlyPending(p)
  /\ a \in DOMAIN heads[p].receipts /\ heads[p].key = key
Reconfirms(p, a, key) == Matches(p, a, key) /\ heads[p].receipts[a] = "CONFIRMED"
Confirms(p, a, key, expected, at) ==
  /\ Matches(p, a, key) /\ heads[p].receipts[a] = "RESERVED"
  /\ HeadN(p) = expected
  /\ heads[p].sched = sched
  /\ Appendable(p, ConfirmEvent(p, a, at))
ConfirmArtifact(p, a, key, expected, at) ==
  Confirms(p, a, key, expected, at) /\ AppendEvent(p, ConfirmEvent(p, a, at))

\* confirm_workflow_terminal
CloseEvent(p, at) ==
  EpochEvent(p, "TERMINAL_CONFIRMED",
             [sched |-> heads[p].sched, key |-> heads[p].key, producer |-> heads[p].producer,
              source |-> heads[p].source, at |-> at], heads[p].receipts)
Closable(p, key, producer, at) ==
  /\ Opened(p) /\ OnlyPending(p)
  /\ heads[p].key = key /\ heads[p].producer = producer /\ heads[p].terminal_at = at
Recloses(p, key, producer, at) ==
  Closable(p, key, producer, at) /\ heads[p].phase = "TERMINAL_CONFIRMED"
Closes(p, key, producer, expected, at) ==
  /\ Closable(p, key, producer, at) /\ heads[p].phase = "TERMINAL_RESERVED"
  /\ HeadN(p) = expected
  /\ AllConfirmed(heads[p].receipts)
  /\ heads[p].sched = sched
  /\ Appendable(p, CloseEvent(p, at))
ConfirmTerminal(p, key, producer, expected, at) ==
  Closes(p, key, producer, expected, at) /\ AppendEvent(p, CloseEvent(p, at))

\* authenticate_workflow_artifact
Authentic(p, a) == a \in DOMAIN heads[p].receipts /\ heads[p].receipts[a] = "CONFIRMED"

\* Any other transaction of the store: a tick or a cancellation appends
\* scheduler events.  _transaction refuses it while a terminal is pending.
MayMutate == Pending(heads) = {}
HostTick ==
  /\ sched < MaxTicks
  /\ MayMutate
  /\ EvidenceValid(heads, sched + 1)
  /\ sched' = sched + 1
  /\ UNCHANGED <<epochs, heads>>

InitStore ==
  /\ sched = 0
  /\ epochs = <<>>
  /\ heads = [p \in Plans |-> NoHead]

----------------------------------------------------------------------------
(* The store under callers that may send anything: any key, content, slot, *)
(* source, clock reading, a pinned scheduler head that is current or not,  *)
(* an expected epoch head that is current or not.                          *)

Requests(p) ==
  [sched : 0 .. sched, key : Keys, producer : Producers, at : Times, pred : {None},
   source : {None} \cup {<<"state", i>> : i \in Names}, expected : {0, HeadN(p)},
   name : Names \cup {p}, slot : Slots]

OpenAny == \E p \in Plans : RoomIn(p) /\ \E r \in Requests(p) :
  r.source = None /\ r.name = p /\ OpenEpoch(p, r)
TransitionAny == \E p \in Plans : RoomIn(p) /\ \E r \in Requests(p) :
  r.name # p /\ Reserve(p, "TRANSITION_RESERVED", r)
TerminalAny == \E p \in Plans : RoomIn(p) /\ \E r \in Requests(p) :
  r.name # p /\ Reserve(p, "TERMINAL_RESERVED", r)

\* Every caller confirms Event, State and Outcome in that order, as it wrote them;
\* the Plan's own receipt may come at any point.
NextToConfirm(p) ==
  LET open == {a \in DOMAIN heads[p].receipts : heads[p].receipts[a] = "RESERVED"}
      types == {a.type : a \in open}
  IN  {a \in open : /\ a.type = "state" => "event" \notin types
                    /\ a.type = "outcome" => types \cap {"event", "state"} = {}}
ConfirmAny == \E p \in Plans : RoomIn(p) /\ Opened(p) /\
  \E a \in NextToConfirm(p), k \in Keys, t \in Times, n \in {0, HeadN(p)} :
    ConfirmArtifact(p, a, k, n, t)
CloseAny == \E p \in Plans : RoomIn(p) /\
  \E k \in Keys, d \in Producers, t \in Times, n \in {0, HeadN(p)} :
    ConfirmTerminal(p, k, d, n, t)

NextStore == HostTick \/ OpenAny \/ TransitionAny \/ TerminalAny \/ ConfirmAny \/ CloseAny
SpecStore == InitStore /\ [][NextStore]_store
=============================================================================
