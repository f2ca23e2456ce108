--------------------------- MODULE WorkflowProofs ---------------------------
(***************************************************************************)
(* Proofs about the workflow epochs and their publication, for any Plans,  *)
(* callers, contents, keys and histories.  The store's invariant is proved *)
(* from the five shapes an epoch event may have, so it holds whoever calls: *)
(* the arbitrary callers of SpecStore and the services of Safety.          *)
(***************************************************************************)
EXTENDS WorkflowEpochSafety, WorkflowPublicationSafety, SumProofs, TLAPS

----------------------------------------------------------------------------
(* The shapes of a step of the store *)

\* What every appended event has in common (_append_workflow_event).
Recorded(p, e) ==
  /\ p \in Plans
  /\ AppendEvent(p, e)
  /\ e.plan = p /\ e.n = heads[p].n + 1
  /\ e.state = ArtifactHead(heads[p], e.receipts, "state")
  /\ e.event = ArtifactHead(heads[p], e.receipts, "event")
  /\ e.outcome = ArtifactHead(heads[p], e.receipts, "outcome")

OpeningStep(p, e) ==
  /\ Recorded(p, e) /\ ~Opened(p) /\ Pending(heads) = {}
  /\ e.cause = "EPOCH_OPENED"
  /\ e.receipts = Reserved(DOMAIN e.receipts)
ReservingStep(p, e, adds) ==
  /\ Recorded(p, e) /\ Opened(p)
  /\ heads[p].phase \in {"OPEN", "ACTIVE"}
  /\ e.cause \in {"TRANSITION_RESERVED", "TERMINAL_RESERVED"}
  /\ ScopeAllows(p, e.cause) /\ e.sched = sched
  /\ Mergeable(DOMAIN heads[p].receipts, adds)
  /\ e.receipts = Merged(heads[p].receipts, adds)
ConfirmingStep(p, e, a) ==
  /\ Recorded(p, e) /\ Opened(p) /\ OnlyPending(p)
  /\ e.cause = "ARTIFACT_CONFIRMED"
  /\ heads[p].sched = sched /\ e.sched = sched
  /\ a \in DOMAIN heads[p].receipts /\ heads[p].receipts[a] = "RESERVED"
  /\ e.receipts = [heads[p].receipts EXCEPT ![a] = "CONFIRMED"]
EndingStep(p, e) ==
  /\ Recorded(p, e) /\ Opened(p) /\ OnlyPending(p)
  /\ e.cause = "TERMINAL_CONFIRMED"
  /\ heads[p].phase = "TERMINAL_RESERVED"
  /\ heads[p].sched = sched /\ e.sched = sched
  /\ AllConfirmed(heads[p].receipts) /\ e.receipts = heads[p].receipts
EventStep(p, e) ==
  \/ OpeningStep(p, e)
  \/ \E adds : ReservingStep(p, e, adds)
  \/ \E a : ConfirmingStep(p, e, a)
  \/ EndingStep(p, e)
StoreStep == UNCHANGED store \/ HostTick \/ \E p \in Plans : \E e : EventStep(p, e)

\* Every call of the store that changes it is one of those steps: what the calls

\* check beyond that (keys, producers, expected heads, retries) is theirs to refuse by.
LEMMA OpenStep ==
  ASSUME NEW p \in Plans, NEW r, OpenEpoch(p, r)
  PROVE  OpeningStep(p, OpenEvent(p, r))
<1> DEFINE e == OpenEvent(p, r)
<1>1. e.plan = p /\ e.n = heads[p].n + 1 /\ e.cause = "EPOCH_OPENED"
  BY DEF OpenEvent, EpochEvent, HeadN
<1>2. e.receipts = Reserved(Outputs("EPOCH_OPENED", r))
  BY DEF OpenEvent, EpochEvent
<1>3. e.receipts = Reserved(DOMAIN e.receipts)
  BY <1>2 DEF Reserved
<1>4. /\ e.state = ArtifactHead(heads[p], e.receipts, "state")
      /\ e.event = ArtifactHead(heads[p], e.receipts, "event")
      /\ e.outcome = ArtifactHead(heads[p], e.receipts, "outcome")
  BY DEF OpenEvent, EpochEvent
<1>5. AppendEvent(p, e) /\ ~Opened(p) /\ Pending(heads) = {}
  BY DEF OpenEpoch, Opens
<1> QED BY <1>1, <1>3, <1>4, <1>5 DEF OpeningStep, Recorded

\* Reserving outputs records one event of the reserving shape.
LEMMA ReserveStep ==
  ASSUME NEW p \in Plans, NEW cause \in {"TRANSITION_RESERVED", "TERMINAL_RESERVED"},
         NEW r, Reserve(p, cause, r)
  PROVE  ReservingStep(p, ChangeEvent(p, cause, r), Outputs(cause, r))
<1> DEFINE e == ChangeEvent(p, cause, r)
<1>1. /\ e.plan = p /\ e.n = heads[p].n + 1 /\ e.cause = cause /\ e.sched = r.sched
      /\ e.receipts = Merged(heads[p].receipts, Outputs(cause, r))
  BY DEF ChangeEvent, EpochEvent, HeadN
<1>2. /\ e.state = ArtifactHead(heads[p], e.receipts, "state")
      /\ e.event = ArtifactHead(heads[p], e.receipts, "event")
      /\ e.outcome = ArtifactHead(heads[p], e.receipts, "outcome")
  BY DEF ChangeEvent, EpochEvent
<1>3. /\ AppendEvent(p, e) /\ ScopeAllows(p, cause)
      /\ heads[p].phase \in {"OPEN", "ACTIVE"} /\ r.sched = sched
      /\ Mergeable(DOMAIN heads[p].receipts, Outputs(cause, r))
  BY DEF Reserve, Reserves, SchedulerHead
<1>4. Opened(p)
  BY <1>3 DEF Opened, NoHead
<1> QED BY <1>1, <1>2, <1>3, <1>4 DEF ReservingStep, Recorded

\* Confirming a file records one event of the confirming shape.
LEMMA ConfirmStep ==
  ASSUME NEW p \in Plans, NEW a, NEW key, NEW expected, NEW at,
         ConfirmArtifact(p, a, key, expected, at)
  PROVE  ConfirmingStep(p, ConfirmEvent(p, a, at), a)
<1> DEFINE e == ConfirmEvent(p, a, at)
<1>1. /\ e.plan = p /\ e.n = heads[p].n + 1 /\ e.cause = "ARTIFACT_CONFIRMED"
      /\ e.sched = heads[p].sched
      /\ e.receipts = [heads[p].receipts EXCEPT ![a] = "CONFIRMED"]
  BY DEF ConfirmEvent, EpochEvent, HeadN
<1>2. /\ e.state = ArtifactHead(heads[p], e.receipts, "state")
      /\ e.event = ArtifactHead(heads[p], e.receipts, "event")
      /\ e.outcome = ArtifactHead(heads[p], e.receipts, "outcome")
  BY DEF ConfirmEvent, EpochEvent
<1>3. /\ AppendEvent(p, e) /\ Opened(p) /\ OnlyPending(p) /\ heads[p].sched = sched
      /\ a \in DOMAIN heads[p].receipts /\ heads[p].receipts[a] = "RESERVED"
  BY DEF ConfirmArtifact, Confirms, Matches
<1> QED BY <1>1, <1>2, <1>3 DEF ConfirmingStep, Recorded

\* Confirming the closure of a terminal epoch records one event of the ending shape.
LEMMA CloseStep ==
  ASSUME NEW p \in Plans, NEW key, NEW producer, NEW expected, NEW at,
         ConfirmTerminal(p, key, producer, expected, at)
  PROVE  EndingStep(p, CloseEvent(p, at))
<1> DEFINE e == CloseEvent(p, at)
<1>1. /\ e.plan = p /\ e.n = heads[p].n + 1 /\ e.cause = "TERMINAL_CONFIRMED"
      /\ e.sched = heads[p].sched /\ e.receipts = heads[p].receipts
  BY DEF CloseEvent, EpochEvent, HeadN
<1>2. /\ e.state = ArtifactHead(heads[p], e.receipts, "state")
      /\ e.event = ArtifactHead(heads[p], e.receipts, "event")
      /\ e.outcome = ArtifactHead(heads[p], e.receipts, "outcome")
  BY DEF CloseEvent, EpochEvent
<1>3. /\ AppendEvent(p, e) /\ Opened(p) /\ OnlyPending(p) /\ heads[p].sched = sched
      /\ heads[p].phase = "TERMINAL_RESERVED" /\ AllConfirmed(heads[p].receipts)
  BY DEF ConfirmTerminal, Closes, Closable
<1> QED BY <1>1, <1>2, <1>3 DEF EndingStep, Recorded

\* The steps of arbitrary callers.
LEMMA AnyStep == NextStore => StoreStep
<1> SUFFICES ASSUME NextStore PROVE StoreStep
  OBVIOUS
<1>1. CASE HostTick
  BY <1>1 DEF StoreStep
<1>2. CASE OpenAny
  <2>1. PICK p \in Plans : \E r \in Requests(p) : OpenEpoch(p, r)
    BY <1>2 DEF OpenAny
  <2> QED BY <2>1, OpenStep DEF StoreStep, EventStep
<1>3. CASE TransitionAny
  <2>1. PICK p \in Plans : \E r \in Requests(p) : Reserve(p, "TRANSITION_RESERVED", r)
    BY <1>3 DEF TransitionAny
  <2> QED BY <2>1, ReserveStep DEF StoreStep, EventStep
<1>4. CASE TerminalAny
  <2>1. PICK p \in Plans : \E r \in Requests(p) : Reserve(p, "TERMINAL_RESERVED", r)
    BY <1>4 DEF TerminalAny
  <2> QED BY <2>1, ReserveStep DEF StoreStep, EventStep
<1>5. CASE ConfirmAny
  <2>1. PICK p \in Plans : \E a \in NextToConfirm(p), k \in Keys, t \in Times,
                                 n \in {0, HeadN(p)} : ConfirmArtifact(p, a, k, n, t)
    BY <1>5 DEF ConfirmAny
  <2> QED BY <2>1, ConfirmStep DEF StoreStep, EventStep
<1>6. CASE CloseAny
  <2>1. PICK p \in Plans : \E k \in Keys, d \in Producers, t \in Times,
                                 n \in {0, HeadN(p)} : ConfirmTerminal(p, k, d, n, t)
    BY <1>6 DEF CloseAny
  <2> QED BY <2>1, CloseStep DEF StoreStep, EventStep
<1> QED BY <1>1, <1>2, <1>3, <1>4, <1>5, <1>6 DEF NextStore

----------------------------------------------------------------------------
(* What a head is, and what one event makes of it *)

ArtifactIn(h, a, type) == a = NoArtifact \/ (a \in DOMAIN h.receipts /\ a.type = type)
\* A row of current_workflow_epoch_heads.
Row(p, h) ==
  /\ h.plan = p /\ h.n \in Nat \ {0} /\ h.phase \in Phases
  /\ h.receipts \in [DOMAIN h.receipts -> {"RESERVED", "CONFIRMED"}]
  /\ ArtifactIn(h, h.event, "event")
  /\ ArtifactIn(h, h.state, "state")
  /\ ArtifactIn(h, h.outcome, "outcome")
  /\ h.phase \in Terminal <=> h.outcome # NoArtifact
  /\ h.phase = "TERMINAL_CONFIRMED" => AllConfirmed(h.receipts)
  /\ \A a, b \in DOMAIN h.receipts : a.path = b.path <=> a.id = b.id
StoreTyped ==
  /\ sched \in Nat
  /\ \E S : epochs \in Seq(S)
  /\ heads = [p \in Plans |-> heads[p]]
  /\ \A k \in DOMAIN epochs : epochs[k].plan \in Plans
  /\ \A p \in Plans : Opened(p) => Row(p, heads[p])

\* No row: an absent head has no receipt, no artifact and no phase.
LEMMA NoRow ==
  /\ DOMAIN NoHead.receipts = {} /\ NoHead.n = 0 /\ NoHead.phase = "ABSENT"
  /\ NoHead.state = NoArtifact /\ NoHead.event = NoArtifact /\ NoHead.outcome = NoArtifact
  /\ NoHead.sched = 0 /\ NoHead.receipts = Reserved({}) /\ NoArtifact.id = None
  /\ NoArtifact.type = "none"
BY DEF NoHead, NoArtifact, Reserved

\* An artifact head is the prior one, unless a receipt of its type was added.
LEMMA ArtifactHeads ==
  ASSUME NEW h, NEW receipts, NEW type
  PROVE  LET a == ArtifactHead(h, receipts, type)
             new == DOMAIN receipts \ DOMAIN h.receipts
         IN  \/ a \in new /\ a.type = type
             \/ a = h[type] /\ \A b \in new : b.type # type
<1> DEFINE new == {b \in DOMAIN receipts \ DOMAIN h.receipts : b.type = type}
<1>1. CASE new = {}
  BY <1>1 DEF ArtifactHead
<1>2. CASE new # {}
  <2>1. ArtifactHead(h, receipts, type) = CHOOSE b \in new : TRUE
    BY <1>2 DEF ArtifactHead
  <2>2. (CHOOSE b \in new : TRUE) \in new
    BY <1>2
  <2> QED BY <2>1, <2>2
<1> QED BY <1>1, <1>2

\* The fields of a reduced head.
LEMMA ReducedIs ==
  ASSUME NEW h, NEW e
  PROVE  LET g == Reduced(h, e)
         IN  /\ g.plan = e.plan /\ g.n = e.n /\ g.phase = PhaseAfter(h, e) /\ g.sched = e.sched
             /\ g.key = e.key /\ g.producer = e.producer
             /\ g.event = e.event /\ g.state = e.state /\ g.outcome = e.outcome
             /\ g.receipts = e.receipts
BY DEF Reduced

\* Appending to the log.
LEMMA Appended ==
  ASSUME NEW S, NEW log \in Seq(S), NEW e
  PROVE  LET longer == Append(log, e)
         IN  /\ longer \in Seq(S \cup {e})
             /\ Len(log) \in Nat /\ Len(longer) = Len(log) + 1
             /\ DOMAIN log = 1 .. Len(log) /\ DOMAIN longer = 1 .. Len(log) + 1
             /\ \A k \in DOMAIN log : longer[k] = log[k]
             /\ longer[Len(log) + 1] = e
OBVIOUS

\* What an event leaves as it was, and what it moves.
LEMMA HeadMoved ==
  ASSUME StoreTyped, NEW p, NEW e, Recorded(p, e)
  PROVE  /\ p \in Plans /\ sched' = sched
         /\ heads' = [q \in Plans |-> heads'[q]]
         /\ heads'[p] = Reduced(heads[p], e)
         /\ \A q \in Plans \ {p} : heads'[q] = heads[q]
         /\ \E S : epochs' \in Seq(S)
         /\ Len(epochs) \in Nat /\ Len(epochs') = Len(epochs) + 1
         /\ DOMAIN epochs = 1 .. Len(epochs) /\ DOMAIN epochs' = 1 .. Len(epochs) + 1
         /\ \A k \in DOMAIN epochs : epochs'[k] = epochs[k]
         /\ epochs'[Len(epochs) + 1] = e
<1>1. PICK S : epochs \in Seq(S)
  BY DEF StoreTyped
<1>2. p \in Plans /\ epochs' = Append(epochs, e) /\ sched' = sched
  BY DEF Recorded, AppendEvent
<1>3. heads' = [heads EXCEPT ![p] = Reduced(heads[p], e)]
  BY DEF Recorded, AppendEvent
<1>4. heads = [q \in Plans |-> heads[q]]
  BY DEF StoreTyped
<1>5. /\ heads' = [q \in Plans |-> heads'[q]]
      /\ heads'[p] = Reduced(heads[p], e)
      /\ \A q \in Plans \ {p} : heads'[q] = heads[q]
  <2> HIDE DEF Reduced
  <2> QED BY <1>2, <1>3, <1>4
<1>6. /\ epochs' \in Seq(S \cup {e})
      /\ Len(epochs) \in Nat /\ Len(epochs') = Len(epochs) + 1
      /\ DOMAIN epochs = 1 .. Len(epochs) /\ DOMAIN epochs' = 1 .. Len(epochs) + 1
      /\ \A k \in DOMAIN epochs : epochs'[k] = epochs[k]
      /\ epochs'[Len(epochs) + 1] = e
  BY <1>1, <1>2, Appended
<1>7. \E T : epochs' \in Seq(T)
  BY <1>6
<1> HIDE DEF Reduced
<1> QED BY <1>2, <1>5, <1>6, <1>7

\* The receipts an event carries: it keeps those of the head it extends.
LEMMA ReceiptsMoved ==
  ASSUME StoreTyped, NEW p, NEW e, EventStep(p, e)
  PROVE  /\ DOMAIN heads[p].receipts \subseteq DOMAIN e.receipts
         /\ e.receipts \in [DOMAIN e.receipts -> {"RESERVED", "CONFIRMED"}]
         /\ \A a \in DOMAIN heads[p].receipts :
              heads[p].receipts[a] = "CONFIRMED" => e.receipts[a] = "CONFIRMED"
<1>1. p \in Plans
  BY DEF EventStep, OpeningStep, ReservingStep, ConfirmingStep, EndingStep, Recorded
<1>2. CASE OpeningStep(p, e)
  <2>1. DOMAIN heads[p].receipts = {}
    BY <1>2, NoRow DEF OpeningStep, Opened
  <2> QED BY <1>2, <2>1 DEF OpeningStep, Reserved
<1>3. ASSUME Opened(p) PROVE heads[p].receipts \in [DOMAIN heads[p].receipts -> {"RESERVED", "CONFIRMED"}]
  BY <1>1, <1>3 DEF StoreTyped, Row
<1>4. ASSUME NEW adds, ReservingStep(p, e, adds) PROVE
         /\ DOMAIN heads[p].receipts \subseteq DOMAIN e.receipts
         /\ e.receipts \in [DOMAIN e.receipts -> {"RESERVED", "CONFIRMED"}]
         /\ \A a \in DOMAIN heads[p].receipts : e.receipts[a] = heads[p].receipts[a]
  BY <1>3, <1>4 DEF ReservingStep, Merged
<1>5. ASSUME NEW a, ConfirmingStep(p, e, a) PROVE
         /\ DOMAIN heads[p].receipts = DOMAIN e.receipts
         /\ e.receipts \in [DOMAIN e.receipts -> {"RESERVED", "CONFIRMED"}]
         /\ \A b \in DOMAIN heads[p].receipts :
              heads[p].receipts[b] = "CONFIRMED" => e.receipts[b] = "CONFIRMED"
  BY <1>3, <1>5 DEF ConfirmingStep
<1>6. CASE EndingStep(p, e)
  BY <1>3, <1>6 DEF EndingStep
<1> QED BY <1>2, <1>4, <1>5, <1>6 DEF EventStep

\* What the reduction checked of the event, by its cause (_reduce_workflow_event).
LEMMA Checked ==
  ASSUME NEW p, NEW e, Recorded(p, e)
  PROVE  /\ ~Opened(p) => RootEvent(e)
         /\ Opened(p) => /\ e.cause = "TRANSITION_RESERVED" => TransitionEvent(heads[p], e)
                         /\ e.cause = "TERMINAL_RESERVED" => TerminalEvent(heads[p], e)
<1>1. Reducible(heads[p], e)
  BY DEF Recorded, AppendEvent, Appendable
<1>2. CASE ~Opened(p)
  BY <1>1, <1>2 DEF Reducible, Opened
<1>3. CASE Opened(p)
  <2>1. \/ TransitionEvent(heads[p], e)
        \/ ConfirmationEvent(heads[p], e)
        \/ TerminalEvent(heads[p], e)
        \/ ClosingEvent(heads[p], e)
    BY <1>1, <1>3 DEF Reducible, Opened
  <2>2. ConfirmationEvent(heads[p], e) => e.cause = "ARTIFACT_CONFIRMED"
    BY DEF ConfirmationEvent
  <2>3. ClosingEvent(heads[p], e) => e.cause = "TERMINAL_CONFIRMED"
    BY DEF ClosingEvent
  <2>4. TransitionEvent(heads[p], e) => e.cause = "TRANSITION_RESERVED"
    BY DEF TransitionEvent
  <2>5. TerminalEvent(heads[p], e) => e.cause = "TERMINAL_RESERVED"
    BY DEF TerminalEvent
  <2> QED BY <1>3, <2>1, <2>2, <2>3, <2>4, <2>5
<1> QED BY <1>2, <1>3

\* The artifact heads of an event stay among its receipts.
LEMMA ArtifactsMoved ==
  ASSUME StoreTyped, NEW p, NEW e, EventStep(p, e)
  PROVE  /\ ArtifactIn(e, e.event, "event")
         /\ ArtifactIn(e, e.state, "state")
         /\ ArtifactIn(e, e.outcome, "outcome")
<1>1. Recorded(p, e)
  BY DEF EventStep, OpeningStep, ReservingStep, ConfirmingStep, EndingStep
<1>2. DOMAIN heads[p].receipts \subseteq DOMAIN e.receipts
  BY ReceiptsMoved
<1>3. /\ ArtifactIn(heads[p], heads[p].event, "event")
      /\ ArtifactIn(heads[p], heads[p].state, "state")
      /\ ArtifactIn(heads[p], heads[p].outcome, "outcome")
  <2>1. CASE Opened(p)
    BY <1>1, <2>1 DEF StoreTyped, Row, Recorded
  <2>2. CASE ~Opened(p)
    BY <2>2, NoRow DEF Opened, ArtifactIn
  <2> QED BY <2>1, <2>2
<1>4. ArtifactIn(e, e.event, "event")
  <2>1. e.event = ArtifactHead(heads[p], e.receipts, "event")
    BY <1>1 DEF Recorded
  <2> QED BY <1>2, <1>3, <2>1, ArtifactHeads DEF ArtifactIn
<1>5. ArtifactIn(e, e.state, "state")
  <2>1. e.state = ArtifactHead(heads[p], e.receipts, "state")
    BY <1>1 DEF Recorded
  <2> QED BY <1>2, <1>3, <2>1, ArtifactHeads DEF ArtifactIn
<1>6. ArtifactIn(e, e.outcome, "outcome")
  <2>1. e.outcome = ArtifactHead(heads[p], e.receipts, "outcome")
    BY <1>1 DEF Recorded
  <2> QED BY <1>2, <1>3, <2>1, ArtifactHeads DEF ArtifactIn
<1> QED BY <1>4, <1>5, <1>6

\* What the states and outcomes of an event are: a reservation's own, or the head's.
LEMMA OpeningArtifacts ==
  ASSUME NEW p, NEW e, OpeningStep(p, e)
  PROVE  e.state = NoArtifact /\ e.outcome = NoArtifact
<1>1. RootEvent(e) /\ Recorded(p, e) /\ heads[p] = NoHead
  BY Checked DEF OpeningStep, Opened
<1>2. \A a \in DOMAIN e.receipts : a.type = "plan"
  BY <1>1 DEF RootEvent
<1>3. e.state = NoHead["state"] /\ e.outcome = NoHead["outcome"]
  BY <1>1, <1>2, ArtifactHeads DEF Recorded
<1> QED BY <1>3 DEF NoHead

\* A reserved transition names a new State and keeps the Outcome.
LEMMA TransitionArtifacts ==
  ASSUME NEW p, NEW e, NEW adds, ReservingStep(p, e, adds), e.cause = "TRANSITION_RESERVED"
  PROVE  /\ e.outcome = heads[p].outcome
         /\ e.state \in DOMAIN e.receipts \ DOMAIN heads[p].receipts /\ e.state.type = "state"
         /\ e.source = heads[p].state.id
<1>1. TransitionEvent(heads[p], e) /\ Recorded(p, e)
  BY Checked DEF ReservingStep
<1>2. {a.type : a \in Added(heads[p], e)} = {"event", "state"}
  BY <1>1 DEF TransitionEvent, AddsReserved
<1>3. PICK a \in Added(heads[p], e) : a.type = "state"
  BY <1>2
<1>4. \A b \in Added(heads[p], e) : b.type # "outcome"
  BY <1>2
<1>5. e.outcome = heads[p]["outcome"]
  BY <1>1, <1>4, ArtifactHeads DEF Recorded, Added
<1>6. e.state \in DOMAIN e.receipts \ DOMAIN heads[p].receipts /\ e.state.type = "state"
  BY <1>1, <1>3, ArtifactHeads DEF Recorded, Added
<1> QED BY <1>1, <1>5, <1>6 DEF TransitionEvent

\* A reserved ending names a new State and a new Outcome.
LEMMA TerminalArtifacts ==
  ASSUME NEW p, NEW e, NEW adds, ReservingStep(p, e, adds), e.cause = "TERMINAL_RESERVED"
  PROVE  /\ e.outcome \in DOMAIN e.receipts /\ e.outcome.type = "outcome"
         /\ e.state \in DOMAIN e.receipts \ DOMAIN heads[p].receipts /\ e.state.type = "state"
         /\ e.outcome \notin DOMAIN heads[p].receipts
         /\ heads[p].state # NoArtifact /\ e.source = heads[p].state.id
<1>1. TerminalEvent(heads[p], e) /\ Recorded(p, e)
  BY Checked DEF ReservingStep
<1>2. {a.type : a \in Added(heads[p], e)} = {"event", "state", "outcome"}
  BY <1>1 DEF TerminalEvent, AddsReserved
<1>3. PICK a \in Added(heads[p], e) : a.type = "state"
  BY <1>2
<1>4. PICK b \in Added(heads[p], e) : b.type = "outcome"
  BY <1>2
<1>5. /\ e.outcome \in DOMAIN e.receipts \ DOMAIN heads[p].receipts
      /\ e.outcome.type = "outcome"
  BY <1>1, <1>4, ArtifactHeads DEF Recorded, Added
<1>6. e.state \in DOMAIN e.receipts \ DOMAIN heads[p].receipts /\ e.state.type = "state"
  BY <1>1, <1>3, ArtifactHeads DEF Recorded, Added
<1> QED BY <1>1, <1>5, <1>6 DEF TerminalEvent

\* An event that reserves nothing keeps the State and the Outcome of its Plan.
LEMMA KeptArtifacts ==
  ASSUME NEW p, NEW e, Recorded(p, e), DOMAIN e.receipts = DOMAIN heads[p].receipts
  PROVE  e.state = heads[p].state /\ e.outcome = heads[p].outcome
<1>1. e.state = heads[p]["state"] /\ e.outcome = heads[p]["outcome"]
  BY ArtifactHeads DEF Recorded
<1> QED BY <1>1

\* Within the receipts of an event a path still stands for one artifact.
LEMMA BindingsMoved ==
  ASSUME StoreTyped, NEW p, NEW e, EventStep(p, e),
         NEW a \in DOMAIN e.receipts, NEW b \in DOMAIN e.receipts
  PROVE  a.path = b.path <=> a.id = b.id
<1>1. p \in Plans
  BY DEF EventStep, OpeningStep, ReservingStep, ConfirmingStep, EndingStep, Recorded
<1>2. ASSUME Opened(p), a \in DOMAIN heads[p].receipts, b \in DOMAIN heads[p].receipts
      PROVE  a.path = b.path <=> a.id = b.id
  BY <1>1, <1>2 DEF StoreTyped, Row
<1>3. CASE OpeningStep(p, e)
  <2>1. RootEvent(e)
    BY <1>3, Checked DEF OpeningStep
  <2> QED BY <2>1 DEF RootEvent
<1>4. ASSUME NEW adds, ReservingStep(p, e, adds)
      PROVE  a.path = b.path <=> a.id = b.id
  <2>1. DOMAIN e.receipts = DOMAIN heads[p].receipts \cup adds
    BY <1>4 DEF ReservingStep, Merged
  <2>2. \A c \in adds, d \in DOMAIN heads[p].receipts \cup adds :
          (c.path = d.path => c = d) /\ (c.id = d.id => c.path = d.path)
    BY <1>4 DEF ReservingStep, Mergeable
  <2>3. Opened(p)
    BY <1>4 DEF ReservingStep
  <2> QED BY <1>2, <2>1, <2>2, <2>3
<1>5. ASSUME NEW c, ConfirmingStep(p, e, c)
      PROVE  a.path = b.path <=> a.id = b.id
  BY <1>2, <1>5 DEF ConfirmingStep
<1>6. CASE EndingStep(p, e)
  BY <1>2, <1>6 DEF EndingStep
<1> QED BY <1>3, <1>4, <1>5, <1>6 DEF EventStep

\* The phase an event leaves its epoch in.
LEMMA PhaseMoved ==
  ASSUME StoreTyped, NEW p, NEW e, EventStep(p, e)
  PROVE  LET h == heads'[p]
         IN  /\ h.phase \in Phases
             /\ h.phase \in Terminal <=> h.outcome # NoArtifact
             /\ h.phase = "TERMINAL_CONFIRMED" => AllConfirmed(h.receipts)
             /\ e.cause = "TERMINAL_RESERVED" => h.phase = "TERMINAL_RESERVED"
             /\ e.cause = "TERMINAL_CONFIRMED" <=> h.phase = "TERMINAL_CONFIRMED"
             /\ heads[p].phase \in Terminal => h.phase \in Terminal
             /\ heads[p].phase = "TERMINAL_RESERVED" /\ e.cause # "TERMINAL_CONFIRMED"
                  => h.phase = "TERMINAL_RESERVED"
             /\ h.phase = "TERMINAL_RESERVED"
                  => e.cause = "TERMINAL_RESERVED" \/ heads[p].phase = "TERMINAL_RESERVED"
<1>1. Recorded(p, e) /\ p \in Plans
  BY DEF EventStep, OpeningStep, ReservingStep, ConfirmingStep, EndingStep, Recorded
<1>2. heads'[p] = Reduced(heads[p], e)
  BY <1>1, HeadMoved
<1>3. /\ heads'[p].phase = PhaseAfter(heads[p], e)
      /\ heads'[p].outcome = e.outcome /\ heads'[p].receipts = e.receipts
  BY <1>2, ReducedIs
<1>4. Opened(p) => Row(p, heads[p])
  BY <1>1 DEF StoreTyped
<1>5. CASE OpeningStep(p, e)
  <2>1. e.outcome = NoArtifact
    BY <1>5, OpeningArtifacts
  <2>2. heads'[p].phase = "OPEN"
    BY <1>3, <1>5 DEF OpeningStep, PhaseAfter
  <2>3. heads[p].phase = "ABSENT"
    BY <1>5, NoRow DEF OpeningStep, Opened
  <2>4. e.cause = "EPOCH_OPENED"
    BY <1>5 DEF OpeningStep
  <2> QED BY <1>3, <2>1, <2>2, <2>3, <2>4 DEF Phases, Terminal
<1>6. ASSUME NEW adds, ReservingStep(p, e, adds), e.cause = "TRANSITION_RESERVED"
      PROVE  /\ heads'[p].phase = "TRANSITION_RESERVED" /\ heads'[p].outcome = NoArtifact
             /\ heads[p].phase \notin Terminal
  <2>1. e.outcome = heads[p].outcome
    BY <1>6, TransitionArtifacts
  <2>2. heads'[p].phase = "TRANSITION_RESERVED"
    BY <1>3, <1>6 DEF PhaseAfter
  <2>3. Opened(p) /\ heads[p].phase \in {"OPEN", "ACTIVE"}
    BY <1>6 DEF ReservingStep
  <2>4. heads[p].outcome = NoArtifact /\ heads[p].phase \notin Terminal
    BY <1>4, <2>3 DEF Row, Terminal
  <2> QED BY <1>3, <2>1, <2>2, <2>4
<1>7. ASSUME NEW adds, ReservingStep(p, e, adds), e.cause = "TERMINAL_RESERVED"
      PROVE  heads'[p].phase = "TERMINAL_RESERVED" /\ heads'[p].outcome # NoArtifact
  <2>1. e.outcome.type = "outcome"
    BY <1>7, TerminalArtifacts
  <2>2. heads'[p].phase = "TERMINAL_RESERVED"
    BY <1>3, <1>7 DEF PhaseAfter
  <2> QED BY <1>3, <2>1, <2>2, NoRow
<1>8. ASSUME NEW a, ConfirmingStep(p, e, a)
      PROVE  /\ heads'[p].outcome = heads[p].outcome
             /\ heads'[p].phase \in Phases
             /\ heads'[p].phase \in Terminal <=> heads[p].phase \in Terminal
             /\ heads'[p].phase # "TERMINAL_CONFIRMED"
             /\ heads[p].phase = "TERMINAL_RESERVED" <=> heads'[p].phase = "TERMINAL_RESERVED"
  <2>1. Opened(p) /\ e.cause = "ARTIFACT_CONFIRMED" /\ a \in DOMAIN heads[p].receipts
        /\ heads[p].receipts[a] = "RESERVED"
    BY <1>8 DEF ConfirmingStep
  <2>2. DOMAIN e.receipts = DOMAIN heads[p].receipts
    BY <1>8 DEF ConfirmingStep
  <2>3. heads'[p].outcome = heads[p].outcome
    BY <1>1, <1>3, <2>2, KeptArtifacts
  <2>4. heads[p].phase \in Phases /\ heads[p].phase # "TERMINAL_CONFIRMED"
    BY <1>4, <2>1 DEF Row, AllConfirmed
  <2>5. heads'[p].phase = IF heads[p].phase # "TERMINAL_RESERVED" /\ AllConfirmed(e.receipts)
                          THEN "ACTIVE" ELSE heads[p].phase
    BY <1>3, <2>1 DEF PhaseAfter
  <2> QED BY <2>3, <2>4, <2>5 DEF Phases, Terminal
<1>9. CASE EndingStep(p, e)
  <2>1. heads'[p].phase = "TERMINAL_CONFIRMED"
    BY <1>3, <1>9 DEF EndingStep, PhaseAfter
  <2>2. e.outcome = heads[p].outcome
    BY <1>1, <1>9, KeptArtifacts DEF EndingStep
  <2>3. heads[p].outcome # NoArtifact
    BY <1>4, <1>9 DEF EndingStep, Row, Terminal
  <2> QED BY <1>3, <1>9, <2>1, <2>2, <2>3 DEF EndingStep, Phases, Terminal
<1>10. ASSUME NEW adds, ReservingStep(p, e, adds)
       PROVE e.cause \in {"TRANSITION_RESERVED", "TERMINAL_RESERVED"} /\ heads[p].phase \in {"OPEN", "ACTIVE"}
  BY <1>10 DEF ReservingStep
<1>11. ASSUME NEW a, ConfirmingStep(p, e, a)
       PROVE  e.cause = "ARTIFACT_CONFIRMED" /\ (heads[p].phase \in Terminal <=> heads[p].outcome # NoArtifact)
  BY <1>4, <1>11 DEF ConfirmingStep, Row
<1> HIDE DEF PhaseAfter
<1>12. CASE \E adds : ReservingStep(p, e, adds)
  <2>1. PICK adds : ReservingStep(p, e, adds)
    BY <1>12
  <2>2. CASE e.cause = "TRANSITION_RESERVED"
    BY <1>6, <1>10, <2>1, <2>2 DEF Phases, Terminal
  <2>3. CASE e.cause = "TERMINAL_RESERVED"
    BY <1>7, <1>10, <2>1, <2>3 DEF Phases, Terminal
  <2> QED BY <1>10, <2>1, <2>2, <2>3
<1>13. CASE \E a : ConfirmingStep(p, e, a)
  <2>1. PICK a : ConfirmingStep(p, e, a)
    BY <1>13
  <2> QED BY <1>8, <1>11, <2>1
<1> QED BY <1>5, <1>9, <1>12, <1>13 DEF EventStep

\* An event leaves a row.
LEMMA RowMoved ==
  ASSUME StoreTyped, NEW p, NEW e, EventStep(p, e)
  PROVE  Row(p, heads'[p]) /\ heads'[p] # NoHead
<1> DEFINE h == heads'[p]
<1>1. Recorded(p, e) /\ p \in Plans
  BY DEF EventStep, OpeningStep, ReservingStep, ConfirmingStep, EndingStep, Recorded
<1>2. h = Reduced(heads[p], e)
  BY <1>1, HeadMoved
<1>3. /\ h.plan = e.plan /\ h.n = e.n /\ h.receipts = e.receipts
      /\ h.event = e.event /\ h.state = e.state /\ h.outcome = e.outcome
  BY <1>2, ReducedIs
<1>4. heads[p].n \in Nat
  BY <1>1, NoRow DEF StoreTyped, Row, Opened
<1>5. h.plan = p /\ h.n \in Nat \ {0}
  BY <1>1, <1>3, <1>4 DEF Recorded
<1>6. h.receipts \in [DOMAIN h.receipts -> {"RESERVED", "CONFIRMED"}]
  BY <1>3, ReceiptsMoved
<1>7. /\ ArtifactIn(h, h.event, "event")
      /\ ArtifactIn(h, h.state, "state")
      /\ ArtifactIn(h, h.outcome, "outcome")
  BY <1>3, ArtifactsMoved DEF ArtifactIn
<1>8. \A a, b \in DOMAIN h.receipts : a.path = b.path <=> a.id = b.id
  BY <1>3, BindingsMoved
<1>9. /\ h.phase \in Phases
      /\ h.phase \in Terminal <=> h.outcome # NoArtifact
      /\ h.phase = "TERMINAL_CONFIRMED" => AllConfirmed(h.receipts)
  BY PhaseMoved
<1>10. h # NoHead
  BY <1>5, NoRow
<1> HIDE DEF h
<1>11. Row(p, h)
  BY <1>5, <1>6, <1>7, <1>8, <1>9 DEF Row
<1> QED BY <1>10, <1>11 DEF h

----------------------------------------------------------------------------
(* The invariants of the store *)

\* Where the log stands with each Plan: its current State is the one its last
\* reservation built, every State ever built has its receipt, and a terminal
\* reservation leaves a terminal phase.
LogKept(p) ==
  /\ Builds(p) = {} => heads[p].state = NoArtifact
  /\ \A k \in Builds(p) :
       /\ epochs[k].state \in DOMAIN heads[p].receipts
       /\ (\A j \in Builds(p) : j <= k) => heads[p].state = epochs[k].state
       /\ epochs[k].cause = "TERMINAL_RESERVED" => heads[p].phase \in Terminal
\* What the log says is pending, the head of that Plan is, at the same scheduler.
StillOpen(k) ==
  \A j \in k .. Len(epochs) : ~(epochs[j].plan = epochs[k].plan
                                /\ epochs[j].cause = "TERMINAL_CONFIRMED")
HeldAt(k) ==
  (epochs[k].cause = "TERMINAL_RESERVED" /\ StillOpen(k)) =>
    /\ heads[epochs[k].plan].phase = "TERMINAL_RESERVED"
    /\ heads[epochs[k].plan].sched = epochs[k].sched
\* The projection is reached by reducing the log event by event.
Reduces(h) ==
  /\ h[0] = [p \in Plans |-> NoHead]
  /\ \A k \in 1 .. Len(epochs) :
       h[k] = [h[k - 1] EXCEPT ![epochs[k].plan] = Reduced(h[k - 1][epochs[k].plan], epochs[k])]
  /\ h[Len(epochs)] = heads
Projected == \E h : Reduces(h)

StoreInv ==
  /\ StoreTyped
  /\ EvidenceValid(heads, sched)
  /\ \A p \in Plans : LogKept(p)
  /\ \A k \in DOMAIN epochs : HeldAt(k)
  /\ LinearHistory
  /\ Isolated
  /\ Projected

\* The empty store satisfies the invariant.
LEMMA StoreStarts == InitStore => StoreInv
<1> SUFFICES ASSUME InitStore PROVE StoreInv
  OBVIOUS
<1>1. sched = 0 /\ epochs = <<>> /\ heads = [p \in Plans |-> NoHead]
  BY DEF InitStore
<1>2. epochs \in Seq({}) /\ Len(epochs) = 0 /\ DOMAIN epochs = {}
  BY <1>1
<1>3. \A p \in Plans : heads[p] = NoHead
  BY <1>1
<1>4. heads = [p \in Plans |-> heads[p]]
  BY <1>1
<1>5. StoreTyped
  <2>1. \E S : epochs \in Seq(S)
    BY <1>2
  <2>2. sched \in Nat
    BY <1>1
  <2> QED BY <1>2, <1>3, <1>4, <2>1, <2>2 DEF StoreTyped, Opened
<1>6. EvidenceValid(heads, sched)
  <2>1. Pending(heads) = {}
    BY <1>3, NoRow DEF Pending
  <2> QED BY <1>1, <1>3, <2>1, NoRow DEF EvidenceValid
<1>7. \A p \in Plans : Builds(p) = {} /\ LogKept(p)
  BY <1>2, <1>3, NoRow DEF LogKept, Builds
<1>8. LinearHistory
  BY <1>7 DEF LinearHistory
<1>9. Isolated
  BY <1>2 DEF Isolated
<1>10. Projected
  <2> DEFINE h == [k \in {0} |-> heads]
  <2>1. h[0] = heads /\ h[Len(epochs)] = heads
    BY <1>2
  <2>2. 1 .. Len(epochs) = {}
    BY <1>2
  <2> HIDE DEF h
  <2>3. Reduces(h)
    BY <1>1, <2>1, <2>2 DEF Reduces
  <2> QED BY <2>3 DEF Projected
<1> QED BY <1>2, <1>5, <1>6, <1>7, <1>8, <1>9, <1>10 DEF StoreInv

\* A step that moves the log keeps its rows.
LEMMA TypedKept ==
  ASSUME StoreTyped, NEW p, NEW e, EventStep(p, e)
  PROVE  StoreTyped'
<1>1. Recorded(p, e)
  BY DEF EventStep, OpeningStep, ReservingStep, ConfirmingStep, EndingStep
<1>2. /\ p \in Plans /\ sched' = sched
      /\ heads' = [q \in Plans |-> heads'[q]]
      /\ \A q \in Plans \ {p} : heads'[q] = heads[q]
      /\ \E S : epochs' \in Seq(S)
      /\ Len(epochs) \in Nat
      /\ DOMAIN epochs = 1 .. Len(epochs) /\ DOMAIN epochs' = 1 .. Len(epochs) + 1
      /\ \A k \in DOMAIN epochs : epochs'[k] = epochs[k]
      /\ epochs'[Len(epochs) + 1] = e
  BY <1>1, HeadMoved
<1>3. e.plan = p
  BY <1>1 DEF Recorded
<1>4. \A k \in DOMAIN epochs' : epochs'[k].plan \in Plans
  <2> TAKE k \in DOMAIN epochs'
  <2>1. CASE k = Len(epochs) + 1
    BY <1>2, <1>3, <2>1
  <2>2. CASE k # Len(epochs) + 1
    <3>1. k \in DOMAIN epochs
      BY <1>2, <2>2
    <3> QED BY <1>2, <3>1 DEF StoreTyped
  <2> QED BY <2>1, <2>2
<1>5. \A q \in Plans : Opened(q)' => Row(q, heads[q])'
  <2> TAKE q \in Plans
  <2>1. CASE q = p
    BY <2>1, RowMoved
  <2>2. CASE q # p
    <3>1. heads'[q] = heads[q]
      BY <1>2, <2>2
    <3> QED BY <3>1 DEF StoreTyped, Opened
  <2> QED BY <2>1, <2>2
<1> QED BY <1>2, <1>4, <1>5 DEF StoreTyped

\* ... and validates what it leaves.
LEMMA EvidenceKept ==
  ASSUME StoreTyped, NEW p, NEW e, EventStep(p, e)
  PROVE  EvidenceValid(heads, sched)'
<1>1. Recorded(p, e)
  BY DEF EventStep, OpeningStep, ReservingStep, ConfirmingStep, EndingStep
<1>2. EvidenceValid([heads EXCEPT ![p] = Reduced(heads[p], e)], sched)
  BY <1>1 DEF Recorded, AppendEvent, Appendable
<1>3. heads' = [heads EXCEPT ![p] = Reduced(heads[p], e)] /\ sched' = sched
  BY <1>1 DEF Recorded, AppendEvent
<1>4. EvidenceValid(heads', sched')
  BY <1>2, <1>3
<1> QED BY <1>4 DEF EvidenceValid, Pending

Reservations == {"TRANSITION_RESERVED", "TERMINAL_RESERVED"}

\* What an event adds to the reservations of each Plan.
LEMMA BuildsMoved ==
  ASSUME StoreTyped, NEW p, NEW e, EventStep(p, e), NEW q
  PROVE  /\ Builds(q) \subseteq 1 .. Len(epochs)
         /\ q = p /\ e.cause \in Reservations => Builds(q)' = Builds(q) \cup {Len(epochs) + 1}
         /\ ~(q = p /\ e.cause \in Reservations) => Builds(q)' = Builds(q)
         /\ \A k \in Builds(q) : epochs'[k] = epochs[k]
<1>1. Recorded(p, e)
  BY DEF EventStep, OpeningStep, ReservingStep, ConfirmingStep, EndingStep
<1>2. /\ Len(epochs) \in Nat
      /\ DOMAIN epochs = 1 .. Len(epochs) /\ DOMAIN epochs' = 1 .. Len(epochs) + 1
      /\ \A k \in DOMAIN epochs : epochs'[k] = epochs[k]
      /\ epochs'[Len(epochs) + 1] = e
  BY <1>1, HeadMoved
<1>3. e.plan = p
  BY <1>1 DEF Recorded
<1>4. Builds(q) \subseteq DOMAIN epochs
  BY DEF Builds
<1>5. ASSUME NEW k PROVE k \in Builds(q)' <=>
        k \in Builds(q) \/ (k = Len(epochs) + 1 /\ q = p /\ e.cause \in Reservations)
  <2>1. k \in Builds(q)' <=> /\ k \in DOMAIN epochs' /\ epochs'[k].plan = q
                             /\ epochs'[k].cause \in Reservations
    BY DEF Builds, Reservations
  <2>2. k \in Builds(q) <=> /\ k \in DOMAIN epochs /\ epochs[k].plan = q
                            /\ epochs[k].cause \in Reservations
    BY DEF Builds, Reservations
  <2>3. CASE k = Len(epochs) + 1
    <3>1. k \in DOMAIN epochs' /\ epochs'[k] = e /\ k \notin DOMAIN epochs
      BY <1>2, <2>3
    <3> QED BY <1>3, <2>1, <2>2, <2>3, <3>1
  <2>4. CASE k # Len(epochs) + 1
    <3>1. k \in DOMAIN epochs' <=> k \in DOMAIN epochs
      BY <1>2, <2>4
    <3>2. k \in DOMAIN epochs => epochs'[k] = epochs[k]
      BY <1>2
    <3> QED BY <2>1, <2>2, <2>4, <3>1, <3>2
  <2> QED BY <2>3, <2>4
<1> QED BY <1>2, <1>4, <1>5

\* The State of an event that reserves nothing is the head's.
LEMMA StateMoved ==
  ASSUME StoreTyped, NEW p, NEW e, EventStep(p, e)
  PROVE  /\ heads'[p].state = e.state /\ heads'[p].receipts = e.receipts
         /\ e.cause \notin Reservations => e.state = heads[p].state
         /\ e.cause \in Reservations =>
              /\ e.state \in DOMAIN e.receipts \ DOMAIN heads[p].receipts
              /\ e.state.type = "state" /\ e.source = heads[p].state.id
              /\ heads[p].phase \notin Terminal /\ Opened(p)
              /\ \A b \in DOMAIN heads[p].receipts : b.id # e.state.id
<1>1. Recorded(p, e)
  BY DEF EventStep, OpeningStep, ReservingStep, ConfirmingStep, EndingStep
<1>2. heads'[p] = Reduced(heads[p], e)
  BY <1>1, HeadMoved
<1>3. heads'[p].state = e.state /\ heads'[p].receipts = e.receipts
  BY <1>2, ReducedIs
<1>4. CASE OpeningStep(p, e)
  BY <1>3, <1>4, OpeningArtifacts, NoRow DEF OpeningStep, Opened, Reservations
<1>5. ASSUME NEW adds, ReservingStep(p, e, adds)
      PROVE  /\ e.cause \in Reservations
             /\ e.state \in DOMAIN e.receipts \ DOMAIN heads[p].receipts
             /\ e.state.type = "state" /\ e.source = heads[p].state.id
             /\ heads[p].phase \notin Terminal /\ Opened(p)
             /\ \A b \in DOMAIN heads[p].receipts : b.id # e.state.id
  <2>1. /\ e.cause \in {"TRANSITION_RESERVED", "TERMINAL_RESERVED"}
        /\ heads[p].phase \in {"OPEN", "ACTIVE"} /\ Opened(p)
    BY <1>5 DEF ReservingStep
  <2> DEFINE built == /\ e.state \in DOMAIN e.receipts \ DOMAIN heads[p].receipts
                      /\ e.state.type = "state" /\ e.source = heads[p].state.id
  <2>2. e.cause = "TRANSITION_RESERVED" => built
    BY <1>5, TransitionArtifacts
  <2>3. e.cause = "TERMINAL_RESERVED" => built
    BY <1>5, TerminalArtifacts
  <2>4. DOMAIN e.receipts = DOMAIN heads[p].receipts \cup adds
    BY <1>5 DEF ReservingStep, Merged
  <2>5. \A c \in adds, b \in DOMAIN heads[p].receipts \cup adds :
          (c.path = b.path => c = b) /\ (c.id = b.id => c.path = b.path)
    BY <1>5 DEF ReservingStep, Mergeable
  <2>6. e.state \in DOMAIN e.receipts \ DOMAIN heads[p].receipts
    BY <2>1, <2>2, <2>3
  <2>7. \A b \in DOMAIN heads[p].receipts : b.id # e.state.id
    BY <2>4, <2>5, <2>6
  <2> QED BY <2>1, <2>2, <2>3, <2>7 DEF Terminal, Reservations
<1>6. ASSUME NEW a, ConfirmingStep(p, e, a)
      PROVE  e.cause \notin Reservations /\ e.state = heads[p].state
  <2>1. DOMAIN e.receipts = DOMAIN heads[p].receipts /\ e.cause = "ARTIFACT_CONFIRMED"
    BY <1>6 DEF ConfirmingStep
  <2> QED BY <1>1, <2>1, KeptArtifacts DEF Reservations
<1>7. CASE EndingStep(p, e)
  <2>1. DOMAIN e.receipts = DOMAIN heads[p].receipts /\ e.cause = "TERMINAL_CONFIRMED"
    BY <1>7 DEF EndingStep
  <2> QED BY <1>1, <1>3, <2>1, KeptArtifacts DEF Reservations
<1> QED BY <1>3, <1>4, <1>5, <1>6, <1>7 DEF EventStep

\* An event leaves the log of every Plan in step with its row.
LEMMA LogMoved ==
  ASSUME StoreTyped, NEW p, NEW e, EventStep(p, e), \A q \in Plans : LogKept(q),
         NEW q \in Plans
  PROVE  LogKept(q)'
<1>1. Recorded(p, e)
  BY DEF EventStep, OpeningStep, ReservingStep, ConfirmingStep, EndingStep
<1>2. /\ p \in Plans /\ Len(epochs) \in Nat
      /\ \A r \in Plans \ {p} : heads'[r] = heads[r]
      /\ epochs'[Len(epochs) + 1] = e
  BY <1>1, HeadMoved
<1>3. CASE q # p
  <2>1. Builds(q)' = Builds(q) /\ \A k \in Builds(q) : epochs'[k] = epochs[k]
    BY <1>3, BuildsMoved
  <2>2. heads'[q] = heads[q]
    BY <1>2, <1>3
  <2>3. LogKept(q)
    OBVIOUS
  <2> QED BY <2>1, <2>2, <2>3 DEF LogKept
<1>4. CASE q = p /\ e.cause \notin Reservations
  <2>1. Builds(p)' = Builds(p) /\ \A k \in Builds(p) : epochs'[k] = epochs[k]
    BY <1>4, BuildsMoved
  <2>2. heads'[p].state = heads[p].state
    BY <1>4, StateMoved
  <2>3. DOMAIN heads[p].receipts \subseteq DOMAIN heads'[p].receipts
    BY StateMoved, ReceiptsMoved
  <2>4. heads[p].phase \in Terminal => heads'[p].phase \in Terminal
    BY PhaseMoved
  <2>5. LogKept(p)
    BY <1>4
  <2>6. LogKept(p)'
    BY <2>1, <2>2, <2>3, <2>4, <2>5 DEF LogKept
  <2> QED BY <1>4, <2>6
<1>5. CASE q = p /\ e.cause \in Reservations
  <2> DEFINE n == Len(epochs) + 1
  <2>1. /\ Builds(p)' = Builds(p) \cup {n} /\ Builds(p) \subseteq 1 .. Len(epochs)
        /\ \A k \in Builds(p) : epochs'[k] = epochs[k]
    BY <1>5, BuildsMoved
  <2>2. heads'[p].state = e.state /\ e.state \in DOMAIN heads'[p].receipts
    BY <1>5, StateMoved
  <2>3. DOMAIN heads[p].receipts \subseteq DOMAIN heads'[p].receipts
    BY StateMoved, ReceiptsMoved
  <2>4. /\ heads[p].phase \in Terminal => heads'[p].phase \in Terminal
        /\ e.cause = "TERMINAL_RESERVED" => heads'[p].phase \in Terminal
    BY PhaseMoved DEF Terminal
  <2>5. LogKept(p)
    BY <1>5
  <2>6. \A k \in Builds(p) : ~(n <= k) /\ k <= n
    BY <1>2, <2>1
  <2>7. n \in Builds(p)' /\ epochs'[n] = e
    BY <1>2, <2>1
  <2>8. ASSUME NEW k \in Builds(p)'
        PROVE  /\ epochs'[k].state \in DOMAIN heads'[p].receipts
               /\ (\A j \in Builds(p)' : j <= k) => heads'[p].state = epochs'[k].state
               /\ epochs'[k].cause = "TERMINAL_RESERVED" => heads'[p].phase \in Terminal
    <3> HIDE DEF n
    <3>1. CASE k = n
      BY <2>2, <2>4, <2>7, <3>1
    <3>2. CASE k \in Builds(p)
      BY <2>1, <2>3, <2>4, <2>5, <2>6, <2>7, <3>2 DEF LogKept
    <3> QED BY <2>1, <2>8, <3>1, <3>2
  <2>9. LogKept(p)'
    <3> HIDE DEF n
    <3> QED BY <2>7, <2>8 DEF LogKept
  <2> QED BY <1>5, <2>9
<1> QED BY <1>3, <1>4, <1>5

\* An event extends the history at its end and nowhere else.
LEMMA HistoryMoved ==
  ASSUME StoreTyped, NEW p, NEW e, EventStep(p, e), \A q \in Plans : LogKept(q), LinearHistory
  PROVE  LinearHistory'
<1>1. Recorded(p, e)
  BY DEF EventStep, OpeningStep, ReservingStep, ConfirmingStep, EndingStep
<1>2. p \in Plans /\ Len(epochs) \in Nat /\ epochs'[Len(epochs) + 1] = e
  BY <1>1, HeadMoved
<1> DEFINE n == Len(epochs) + 1
<1> SUFFICES ASSUME NEW q \in Plans, NEW k \in Builds(q)'
             PROVE  LET earlier == {j \in Builds(q)' : j < k}
                    IN  /\ earlier = {} => epochs'[k].source = None
                        /\ \A j \in earlier :
                             /\ (\A i \in earlier : i <= j) => epochs'[k].source = epochs'[j].state.id
                             /\ epochs'[j].cause # "TERMINAL_RESERVED"
                             /\ epochs'[j].state.id # epochs'[k].state.id
  BY DEF LinearHistory
<1>3. Builds(q) \subseteq 1 .. Len(epochs) /\ \A j \in Builds(q) : epochs'[j] = epochs[j]
  BY BuildsMoved
<1>4. CASE k \in Builds(q)
  <2>1. {j \in Builds(q)' : j < k} = {j \in Builds(q) : j < k}
    <3>1. ~(n < k)
      BY <1>2, <1>3, <1>4
    <3>2. Builds(q)' = Builds(q) \/ Builds(q)' = Builds(q) \cup {n}
      BY BuildsMoved
    <3> HIDE DEF n
    <3> QED BY <3>1, <3>2
  <2>2. \A j \in {i \in Builds(q) : i < k} : epochs'[j] = epochs[j]
    BY <1>3
  <2>3. epochs'[k] = epochs[k]
    BY <1>3, <1>4
  <2> QED BY <1>4, <2>1, <2>2, <2>3 DEF LinearHistory
<1>5. CASE k \notin Builds(q)
  <2>1. q = p /\ e.cause \in Reservations /\ Builds(q)' = Builds(q) \cup {n} /\ k = n
    BY <1>5, BuildsMoved
  <2>2. {j \in Builds(q)' : j < k} = Builds(q)
    BY <1>2, <1>3, <2>1
  <2>3. epochs'[k] = e
    BY <1>2, <2>1
  <2>4. /\ e.source = heads[q].state.id /\ heads[q].phase \notin Terminal
        /\ e.state \in DOMAIN e.receipts \ DOMAIN heads[q].receipts
    BY <2>1, StateMoved
  <2>5. LogKept(q)
    OBVIOUS
  <2>6. Builds(q) = {} => e.source = None
    BY <2>4, <2>5, NoRow DEF LogKept
  <2>7. ASSUME NEW j \in Builds(q)
        PROVE  /\ (\A i \in Builds(q) : i <= j) => e.source = epochs[j].state.id
               /\ epochs[j].cause # "TERMINAL_RESERVED"
               /\ epochs[j].state.id # e.state.id
    <3>1. epochs[j].state \in DOMAIN heads[q].receipts
      BY <2>5 DEF LogKept
    <3>2. epochs[j].state.id # e.state.id
      BY <2>1, <3>1, StateMoved
    <3> QED BY <2>4, <2>5, <3>2 DEF LogKept
  <2> QED BY <1>3, <2>2, <2>3, <2>6, <2>7
<1> QED BY <1>4, <1>5

\* While a terminal publication is pending, the only events are its own

\* confirmations, at the scheduler it was reserved for (_require_pending_scope).
LEMMA WhilePending ==
  ASSUME EvidenceValid(heads, sched), NEW p, NEW e, EventStep(p, e),
         NEW q \in Plans, heads[q].phase = "TERMINAL_RESERVED"
  PROVE  /\ p = q /\ heads[q].sched = sched /\ e.sched = sched
         /\ e.cause \in {"ARTIFACT_CONFIRMED", "TERMINAL_CONFIRMED"}
<1>1. q \in Pending(heads)
  BY DEF Pending
<1>2. heads[q].sched = sched
  BY <1>1 DEF EvidenceValid
<1>3. ~OpeningStep(p, e)
  BY <1>1 DEF OpeningStep
<1>4. ASSUME NEW adds, ReservingStep(p, e, adds) PROVE FALSE
  <2>1. p = q
    BY <1>1, <1>4 DEF ReservingStep, ScopeAllows, OnlyPending
  <2> QED BY <1>4, <2>1 DEF ReservingStep
<1>5. ASSUME NEW a, ConfirmingStep(p, e, a)
      PROVE  p = q /\ e.sched = sched /\ e.cause = "ARTIFACT_CONFIRMED"
  BY <1>1, <1>5 DEF ConfirmingStep, OnlyPending
<1>6. CASE EndingStep(p, e)
  BY <1>1, <1>2, <1>6 DEF EndingStep, OnlyPending
<1> QED BY <1>2, <1>3, <1>4, <1>5, <1>6 DEF EventStep

\* The positions of the longer log.
LEMMA Positions ==
  ASSUME StoreTyped, NEW p, NEW e, EventStep(p, e)
  PROVE  /\ Len(epochs) \in Nat /\ Len(epochs') = Len(epochs) + 1
         /\ DOMAIN epochs = 1 .. Len(epochs) /\ DOMAIN epochs' = 1 .. Len(epochs) + 1
         /\ \A k \in 1 .. Len(epochs) : epochs'[k] = epochs[k]
         /\ epochs'[Len(epochs) + 1] = e /\ e.plan = p /\ sched' = sched
         /\ p \in Plans /\ heads'[p].sched = e.sched
<1>1. Recorded(p, e)
  BY DEF EventStep, OpeningStep, ReservingStep, ConfirmingStep, EndingStep
<1>2. e.plan = p
  BY <1>1 DEF Recorded
<1>3. heads'[p] = Reduced(heads[p], e)
  BY <1>1, HeadMoved
<1>4. heads'[p].sched = e.sched
  BY <1>3, ReducedIs
<1> QED BY <1>1, <1>2, <1>4, HeadMoved

\* An epoch still open in the longer log was open in the log.
LEMMA OpenBefore ==
  ASSUME StoreTyped, NEW p, NEW e, EventStep(p, e), NEW k \in 1 .. Len(epochs)
  PROVE  /\ StillOpen(k)' => StillOpen(k)
         /\ StillOpen(k)' => ~(e.plan = epochs[k].plan /\ e.cause = "TERMINAL_CONFIRMED")
<1> SUFFICES ASSUME StillOpen(k)'
             PROVE  StillOpen(k) /\ ~(e.plan = epochs[k].plan /\ e.cause = "TERMINAL_CONFIRMED")
  OBVIOUS
<1>1. /\ Len(epochs) \in Nat /\ Len(epochs') = Len(epochs) + 1
      /\ \A j \in 1 .. Len(epochs) : epochs'[j] = epochs[j]
      /\ epochs'[Len(epochs) + 1] = e
  BY Positions
<1>2. \A j \in k .. Len(epochs) + 1 : ~(epochs'[j].plan = epochs[k].plan
                                        /\ epochs'[j].cause = "TERMINAL_CONFIRMED")
  BY <1>1 DEF StillOpen
<1>3. \A j \in k .. Len(epochs) : j \in k .. Len(epochs) + 1 /\ j \in 1 .. Len(epochs)
  BY <1>1
<1>4. Len(epochs) + 1 \in k .. Len(epochs) + 1
  BY <1>1
<1> QED BY <1>1, <1>2, <1>3, <1>4 DEF StillOpen

\* An event leaves every recorded event held by the rows and the audit log.
LEMMA HeldMoved ==
  ASSUME StoreTyped, EvidenceValid(heads, sched), NEW p, NEW e, EventStep(p, e),
         \A k \in DOMAIN epochs : HeldAt(k), NEW k \in DOMAIN epochs'
  PROVE  HeldAt(k)'
<1>1. /\ Len(epochs) \in Nat /\ Len(epochs') = Len(epochs) + 1
      /\ DOMAIN epochs = 1 .. Len(epochs) /\ DOMAIN epochs' = 1 .. Len(epochs) + 1
      /\ \A j \in 1 .. Len(epochs) : epochs'[j] = epochs[j]
      /\ epochs'[Len(epochs) + 1] = e /\ e.plan = p /\ p \in Plans /\ heads'[p].sched = e.sched
  BY Positions
<1> SUFFICES ASSUME epochs'[k].cause = "TERMINAL_RESERVED", StillOpen(k)'
             PROVE  /\ heads'[epochs'[k].plan].phase = "TERMINAL_RESERVED"
                    /\ heads'[epochs'[k].plan].sched = epochs'[k].sched
  BY DEF HeldAt
<1>2. CASE k = Len(epochs) + 1
  <2>1. epochs'[k] = e
    BY <1>1, <1>2
  <2>2. heads'[p].phase = "TERMINAL_RESERVED"
    BY <2>1, PhaseMoved
  <2> QED BY <1>1, <2>1, <2>2
<1>3. CASE k \in 1 .. Len(epochs)
  <2>1. epochs'[k] = epochs[k] /\ epochs[k].plan \in Plans
    BY <1>1, <1>3 DEF StoreTyped
  <2>2. StillOpen(k) /\ ~(p = epochs[k].plan /\ e.cause = "TERMINAL_CONFIRMED")
    BY <1>1, <1>3, OpenBefore
  <2>3. /\ heads[epochs[k].plan].phase = "TERMINAL_RESERVED"
        /\ heads[epochs[k].plan].sched = epochs[k].sched
    BY <1>1, <1>3, <2>1, <2>2 DEF HeldAt
  <2>4. p = epochs[k].plan /\ heads[p].sched = sched /\ e.sched = sched
    BY <2>1, <2>3, WhilePending
  <2>5. heads'[p].phase = "TERMINAL_RESERVED"
    BY <2>2, <2>3, <2>4, PhaseMoved
  <2> QED BY <1>1, <2>1, <2>3, <2>4, <2>5
<1> QED BY <1>1, <1>2, <1>3

\* An event leaves ended Plans alone.
LEMMA IsolatedMoved ==
  ASSUME StoreTyped, EvidenceValid(heads, sched), NEW p, NEW e, EventStep(p, e),
         \A k \in DOMAIN epochs : HeldAt(k), Isolated
  PROVE  Isolated'
<1>1. /\ Len(epochs) \in Nat /\ Len(epochs') = Len(epochs) + 1
      /\ DOMAIN epochs = 1 .. Len(epochs) /\ DOMAIN epochs' = 1 .. Len(epochs) + 1
      /\ \A j \in 1 .. Len(epochs) : epochs'[j] = epochs[j]
      /\ epochs'[Len(epochs) + 1] = e /\ e.plan = p /\ p \in Plans /\ sched' = sched
  BY Positions
<1> DEFINE Open(log, k, m) == \A j \in k .. m : ~(log[j].plan = log[k].plan
                                                  /\ log[j].cause = "TERMINAL_CONFIRMED")
<1> SUFFICES ASSUME NEW k \in DOMAIN epochs', epochs'[k].cause = "TERMINAL_RESERVED"
             PROVE  /\ \A m \in k + 1 .. Len(epochs') : Open(epochs', k, m - 1) =>
                         epochs'[m].plan = epochs'[k].plan /\ epochs'[m].sched = epochs'[k].sched
                    /\ Open(epochs', k, Len(epochs')) => sched' = epochs'[k].sched
  BY DEF Isolated
<1>2. CASE k = Len(epochs) + 1
  <2>1. epochs'[k] = e /\ k + 1 .. Len(epochs') = {}
    BY <1>1, <1>2
  <2>2. e.sched = sched
    <3>1. e.cause = "TERMINAL_RESERVED"
      BY <2>1
    <3>2. ~OpeningStep(p, e) /\ ~EndingStep(p, e) /\ \A a : ~ConfirmingStep(p, e, a)
      BY <3>1 DEF OpeningStep, EndingStep, ConfirmingStep
    <3> QED BY <3>2 DEF EventStep, ReservingStep
  <2> QED BY <1>1, <2>1, <2>2
<1>3. CASE k \in 1 .. Len(epochs)
  <2>1. epochs'[k] = epochs[k] /\ epochs[k].plan \in Plans
    BY <1>1, <1>3 DEF StoreTyped
  <2>2. ASSUME NEW m \in k - 1 .. Len(epochs), Open(epochs', k, m)
        PROVE  Open(epochs, k, m)
    <3>1. \A j \in k .. m : j \in 1 .. Len(epochs)
      BY <1>1, <1>3
    <3> QED BY <1>1, <2>1, <2>2, <3>1
  <2>3. /\ \A m \in k + 1 .. Len(epochs) : Open(epochs, k, m - 1) =>
             epochs[m].plan = epochs[k].plan /\ epochs[m].sched = epochs[k].sched
        /\ Open(epochs, k, Len(epochs)) => sched = epochs[k].sched
    BY <1>1, <1>3, <2>1 DEF Isolated
  <2>4. ASSUME NEW m \in k + 1 .. Len(epochs'), Open(epochs', k, m - 1)
        PROVE  epochs'[m].plan = epochs'[k].plan /\ epochs'[m].sched = epochs'[k].sched
    <3>1. m - 1 \in k - 1 .. Len(epochs)
      BY <1>1, <1>3
    <3>2. Open(epochs, k, m - 1)
      <4> HIDE DEF Open
      <4> QED BY <2>2, <2>4, <3>1
    <3>3. CASE m \in 1 .. Len(epochs)
      <4>1. m \in k + 1 .. Len(epochs) /\ epochs'[m] = epochs[m]
        BY <1>1, <1>3, <3>3
      <4> HIDE DEF Open
      <4> QED BY <2>1, <2>3, <3>2, <4>1
    <3>4. CASE m = Len(epochs) + 1
      <4>1. StillOpen(k)
        BY <1>1, <3>2, <3>4 DEF StillOpen
      <4>2. /\ heads[epochs[k].plan].phase = "TERMINAL_RESERVED"
            /\ heads[epochs[k].plan].sched = epochs[k].sched
        BY <1>1, <1>3, <2>1, <4>1 DEF HeldAt
      <4>3. p = epochs[k].plan /\ heads[p].sched = sched /\ e.sched = sched
        BY <2>1, <4>2, WhilePending
      <4> QED BY <1>1, <2>1, <3>4, <4>2, <4>3
    <3> QED BY <1>1, <1>3, <3>3, <3>4
  <2>5. ASSUME Open(epochs', k, Len(epochs')) PROVE sched' = epochs'[k].sched
    <3>1. Open(epochs', k, Len(epochs))
      <4>1. k .. Len(epochs) \subseteq k .. Len(epochs')
        BY <1>1, <1>3
      <4> QED BY <2>5, <4>1
    <3>2. Len(epochs) \in k - 1 .. Len(epochs)
      BY <1>1, <1>3
    <3> HIDE DEF Open
    <3> QED BY <1>1, <2>1, <2>2, <2>3, <3>1, <3>2
  <2> QED BY <2>4, <2>5
<1> QED BY <1>1, <1>2, <1>3

\* An event leaves the rows the projection of the log.
LEMMA ProjectedMoved ==
  ASSUME StoreTyped, NEW p, NEW e, EventStep(p, e), Projected
  PROVE  Projected'
<1>1. /\ Len(epochs) \in Nat /\ Len(epochs') = Len(epochs) + 1
      /\ \A j \in 1 .. Len(epochs) : epochs'[j] = epochs[j]
      /\ epochs'[Len(epochs) + 1] = e /\ e.plan = p
  BY Positions
<1>2. heads' = [heads EXCEPT ![p] = Reduced(heads[p], e)]
  BY DEF EventStep, OpeningStep, ReservingStep, ConfirmingStep, EndingStep, Recorded, AppendEvent
<1>3. PICK h : Reduces(h)
  BY DEF Projected
<1> DEFINE n == Len(epochs)
           g == [k \in 0 .. n + 1 |-> IF k <= n THEN h[k] ELSE heads']
<1>4. g[0] = [q \in Plans |-> NoHead]
  BY <1>1, <1>3 DEF Reduces
<1>5. g[Len(epochs')] = heads'
  BY <1>1
<1>6. ASSUME NEW k \in 1 .. Len(epochs')
      PROVE  g[k] = [g[k - 1] EXCEPT ![epochs'[k].plan] = Reduced(g[k - 1][epochs'[k].plan], epochs'[k])]
  <2>1. CASE k \in 1 .. n
    <3>1. g[k] = h[k] /\ g[k - 1] = h[k - 1] /\ epochs'[k] = epochs[k]
      BY <1>1, <2>1
    <3>2. h[k] = [h[k - 1] EXCEPT ![epochs[k].plan] = Reduced(h[k - 1][epochs[k].plan], epochs[k])]
      BY <1>3, <2>1 DEF Reduces
    <3> HIDE DEF g
    <3> QED BY <3>1, <3>2
  <2>2. CASE k = n + 1
    <3>1. g[k] = heads' /\ g[k - 1] = h[n]
      BY <1>1, <2>2
    <3>2. h[n] = heads
      BY <1>3 DEF Reduces
    <3>3. epochs'[k] = e
      BY <1>1, <2>2
    <3> HIDE DEF g
    <3> QED BY <1>1, <1>2, <3>1, <3>2, <3>3
  <2> QED BY <1>1, <2>1, <2>2
<1> HIDE DEF g
<1>7. PICK f : f = g
  OBVIOUS
<1>8. Reduces(f)'
  BY <1>4, <1>5, <1>6, <1>7 DEF Reduces
<1> QED BY <1>8 DEF Projected

----------------------------------------------------------------------------
(* Replaying the log *)

\* One step of the replay, and the function that the replay is.
ReplayStep(f, k) ==
  IF k = 0 THEN [p \in Plans |-> NoHead]
  ELSE [f[k - 1] EXCEPT ![epochs[k].plan] = Reduced(@, epochs[k])]
ReplaysAs(f) == f = [k \in 0 .. Len(epochs) |-> ReplayStep(f, k)]

\* The replay is the last value of the function that replays the log event by event.
LEMMA ReplayIs == Replay = (CHOOSE f : ReplaysAs(f))[Len(epochs)]
BY DEF Replay, ReplaysAs, ReplayStep

\* Reducing the log event by event and replaying it come to the same heads.
LEMMA ReplayReduces ==
  ASSUME StoreTyped, Projected
  PROVE  Replayed
<1> DEFINE n == Len(epochs)
           r == CHOOSE f : ReplaysAs(f)
<1>1. n \in Nat
  BY DEF StoreTyped
<1>2. PICK h : Reduces(h)
  BY DEF Projected
<1> DEFINE g == [k \in 0 .. n |-> h[k]]
<1>3. ReplaysAs(g)
  <2>1. ASSUME NEW k \in 0 .. n PROVE g[k] = ReplayStep(g, k)
    <3>1. CASE k = 0
      BY <1>1, <1>2, <3>1 DEF Reduces, ReplayStep
    <3>2. CASE k # 0
      <4>1. k \in 1 .. n /\ g[k - 1] = h[k - 1] /\ g[k] = h[k]
        BY <1>1, <3>2
      <4>2. h[k] = [h[k - 1] EXCEPT ![epochs[k].plan] = Reduced(h[k - 1][epochs[k].plan], epochs[k])]
        BY <1>2, <4>1 DEF Reduces
      <4>3. ReplayStep(g, k) = [g[k - 1] EXCEPT ![epochs[k].plan] = Reduced(@, epochs[k])]
        BY <3>2 DEF ReplayStep
      <4> HIDE DEF g
      <4> QED BY <4>1, <4>2, <4>3
    <3> QED BY <3>1, <3>2
  <2>2. g = [k \in 0 .. n |-> g[k]]
    OBVIOUS
  <2> HIDE DEF g
  <2>3. [k \in 0 .. n |-> g[k]] = [k \in 0 .. n |-> ReplayStep(g, k)]
    BY <2>1
  <2> QED BY <2>2, <2>3 DEF ReplaysAs
<1>4. ReplaysAs(r)
  BY <1>3
<1> HIDE DEF r, g
<1>5. \A k \in Nat : k \in {i \in Nat : i \in 0 .. n => r[i] = g[i]}
  <2> DEFINE Same == {i \in Nat : i \in 0 .. n => r[i] = g[i]}
  <2>1. \A k \in 0 .. n : r[k] = ReplayStep(r, k) /\ g[k] = ReplayStep(g, k)
    BY <1>3, <1>4 DEF ReplaysAs
  <2>2. 0 \in Same
    BY <2>1 DEF ReplayStep
  <2>3. ASSUME NEW k \in Nat, k \in Same PROVE k + 1 \in Same
    <3>1. ASSUME k + 1 \in 0 .. n PROVE r[k + 1] = g[k + 1]
      <4>1. r[k] = g[k]
        BY <1>1, <2>3, <3>1
      <4>2. (k + 1) - 1 = k /\ k + 1 # 0
        OBVIOUS
      <4>3. ReplayStep(r, k + 1) = ReplayStep(g, k + 1)
        BY <4>1, <4>2 DEF ReplayStep
      <4> QED BY <2>1, <3>1, <4>3
    <3> QED BY <3>1
  <2> HIDE DEF Same
  <2>4. \A k \in Nat : k \in Same
    BY <2>2, <2>3, AllNumbers
  <2> QED BY <2>4 DEF Same
<1>6. r[n] = g[n]
  BY <1>1, <1>5
<1>7. g[n] = heads
  BY <1>1, <1>2 DEF g, Reduces
<1>8. Replay = r[n]
  BY ReplayIs DEF r
<1> QED BY <1>6, <1>7, <1>8 DEF Replayed

----------------------------------------------------------------------------
(* The store's invariant holds of every step *)

\* Every event keeps the invariant of the store.
LEMMA EventKeeps ==
  ASSUME StoreInv, NEW p, NEW e, EventStep(p, e)
  PROVE  StoreInv'
<1>1. /\ StoreTyped /\ EvidenceValid(heads, sched) /\ LinearHistory /\ Isolated /\ Projected
      /\ \A q \in Plans : LogKept(q)
      /\ \A k \in DOMAIN epochs : HeldAt(k)
  BY DEF StoreInv
<1>2. StoreTyped'
  BY <1>1, TypedKept
<1>3. EvidenceValid(heads, sched)'
  BY <1>1, EvidenceKept
<1>4. \A q \in Plans : LogKept(q)'
  BY <1>1, LogMoved
<1>5. \A k \in DOMAIN epochs' : HeldAt(k)'
  BY <1>1, HeldMoved
<1>6. LinearHistory' /\ Isolated' /\ Projected'
  BY <1>1, HistoryMoved, IsolatedMoved, ProjectedMoved
<1> QED BY <1>2, <1>3, <1>4, <1>5, <1>6 DEF StoreInv

\* So does a tick of the scheduler underneath.
LEMMA TickKeeps ==
  ASSUME StoreInv, HostTick
  PROVE  StoreInv'
<1>1. /\ StoreTyped /\ EvidenceValid(heads, sched) /\ LinearHistory /\ Isolated /\ Projected
      /\ \A q \in Plans : LogKept(q)
      /\ \A k \in DOMAIN epochs : HeldAt(k)
  BY DEF StoreInv
<1>2. /\ epochs' = epochs /\ heads' = heads /\ sched' = sched + 1
      /\ Pending(heads) = {} /\ EvidenceValid(heads, sched + 1)
  BY DEF HostTick, MayMutate
<1>3. StoreTyped'
  BY <1>1, <1>2 DEF StoreTyped, Opened
<1>4. EvidenceValid(heads, sched)'
  <2>1. EvidenceValid(heads', sched')
    BY <1>2
  <2> QED BY <2>1 DEF EvidenceValid, Pending
<1>5. \A q \in Plans : LogKept(q)'
  BY <1>1, <1>2 DEF LogKept, Builds
<1>6. \A k \in DOMAIN epochs' : HeldAt(k)'
  BY <1>1, <1>2 DEF HeldAt, StillOpen
<1>7. LinearHistory'
  BY <1>1, <1>2 DEF LinearHistory, Builds
<1>8. Isolated'
  <2>1. ASSUME NEW k \in DOMAIN epochs, epochs[k].cause = "TERMINAL_RESERVED", StillOpen(k)
        PROVE  FALSE
    <3>1. heads[epochs[k].plan].phase = "TERMINAL_RESERVED" /\ epochs[k].plan \in Plans
      BY <1>1, <2>1 DEF HeldAt, StoreTyped
    <3> QED BY <1>2, <3>1 DEF Pending
  <2> QED BY <1>1, <1>2, <2>1 DEF Isolated, StillOpen
<1>9. Projected'
  BY <1>1, <1>2 DEF Projected, Reduces
<1> QED BY <1>3, <1>4, <1>5, <1>6, <1>7, <1>8, <1>9 DEF StoreInv

\* So does a step elsewhere.
LEMMA StutterKeeps ==
  ASSUME StoreInv, UNCHANGED store
  PROVE  StoreInv'
<1>1. /\ StoreTyped /\ EvidenceValid(heads, sched) /\ LinearHistory /\ Isolated /\ Projected
      /\ \A q \in Plans : LogKept(q)
      /\ \A k \in DOMAIN epochs : HeldAt(k)
  BY DEF StoreInv
<1>2. epochs' = epochs /\ heads' = heads /\ sched' = sched
  BY DEF store
<1>3. StoreTyped'
  BY <1>1, <1>2 DEF StoreTyped, Opened
<1>4. EvidenceValid(heads, sched)'
  <2>1. EvidenceValid(heads', sched')
    BY <1>1, <1>2
  <2> QED BY <2>1 DEF EvidenceValid, Pending
<1>5. \A q \in Plans : LogKept(q)'
  BY <1>1, <1>2 DEF LogKept, Builds
<1>6. \A k \in DOMAIN epochs' : HeldAt(k)'
  BY <1>1, <1>2 DEF HeldAt, StillOpen
<1>7. LinearHistory' /\ Isolated'
  BY <1>1, <1>2 DEF LinearHistory, Builds, Isolated
<1>8. Projected'
  BY <1>1, <1>2 DEF Projected, Reduces
<1> QED BY <1>3, <1>4, <1>5, <1>6, <1>7, <1>8 DEF StoreInv

\* So does every step of the store.
LEMMA StoreKept ==
  ASSUME StoreInv, StoreStep
  PROVE  StoreInv'
BY EventKeeps, TickKeeps, StutterKeeps DEF StoreStep

\* What the invariant implies.
LEMMA StorePromises ==
  ASSUME StoreInv
  PROVE  Replayed /\ LinearHistory /\ Isolated /\ BoundOnce
<1>1. Replayed
  BY ReplayReduces DEF StoreInv
<1>2. BoundOnce
  <2> SUFFICES ASSUME NEW p \in Plans,
                      NEW a \in DOMAIN heads[p].receipts, NEW b \in DOMAIN heads[p].receipts
               PROVE  a.path = b.path <=> a.id = b.id
    BY DEF BoundOnce
  <2>1. CASE Opened(p)
    BY <2>1 DEF StoreInv, StoreTyped, Row
  <2>2. CASE ~Opened(p)
    BY <2>2, NoRow DEF Opened
  <2> QED BY <2>1, <2>2
<1> QED BY <1>1, <1>2 DEF StoreInv

----------------------------------------------------------------------------
(* What the store promises to callers that may send anything *)

\* The invariant holds of the store under any callers.
THEOREM StoreInvariant == SpecStore => []StoreInv
<1>1. InitStore => StoreInv
  BY StoreStarts
<1>2. StoreInv /\ [NextStore]_store => StoreInv'
  BY AnyStep, StoreKept DEF StoreStep
<1> QED BY <1>1, <1>2, PTL DEF SpecStore

\* After any calls whatever, the projected heads are the replay of the log: a store
\* that is reopened or recovered resumes with exactly the authority it had.
THEOREM HeadsAreReplayed == SpecStore => []Replayed
<1>1. StoreInv => Replayed
  BY StorePromises
<1> QED BY <1>1, StoreInvariant, PTL

\* A Plan's history is one line of States, however many callers raced for its
\* head: each reservation builds on the last, none repeats, the Outcome ends it.
THEOREM HistoryIsLinear == SpecStore => []LinearHistory
<1>1. StoreInv => LinearHistory
  BY StorePromises
<1> QED BY <1>1, StoreInvariant, PTL

\* From its reservation to its confirmation a terminal publication has the store
\* to itself, and the scheduler it judged stays as it was.
THEOREM TerminalsAreIsolated == SpecStore => []Isolated
<1>1. StoreInv => Isolated
  BY StorePromises
<1> QED BY <1>1, StoreInvariant, PTL

\* Within an epoch a path never stands for two artifacts, nor an artifact for two paths.
THEOREM ReceiptsAreBound == SpecStore => []BoundOnce
<1>1. StoreInv => BoundOnce
  BY StorePromises
<1> QED BY <1>1, StoreInvariant, PTL

----------------------------------------------------------------------------
(* The store implements the ledger *)

CurrentOf == [p \in Plans |-> heads[p].state.id]
VerdictOf == [p \in Plans |-> heads[p].outcome.id]
SettledOf == {p \in Plans : heads[p].phase = "TERMINAL_CONFIRMED"}
LedgerStates == {<<"state", i>> : i \in Names}
LedgerOutcomes == {<<"outcome", i>> : i \in Names}

\* States and Outcomes carry identities of their type: None is not among them.
Named(p) ==
  /\ heads[p].state = NoArtifact \/ heads[p].state.id \in LedgerStates
  /\ heads[p].outcome = NoArtifact \/ heads[p].outcome.id \in LedgerOutcomes
LedgerInv == StoreInv /\ \A p \in Plans : Named(p)

\* The State and the Outcome a reservation adds are the ones its request names.
LEMMA RequestNamed ==
  ASSUME NEW p \in Plans, NEW cause \in Reservations, NEW r, r.name \in Names,
         NEW e, ReservingStep(p, e, Outputs(cause, r)), e.cause = cause
  PROVE  /\ e.state.id \in LedgerStates
         /\ cause = "TERMINAL_RESERVED" => e.outcome.id \in LedgerOutcomes
         /\ cause = "TRANSITION_RESERVED" => e.outcome = heads[p].outcome
<1>1. DOMAIN e.receipts = DOMAIN heads[p].receipts \cup Outputs(cause, r)
  BY DEF ReservingStep, Merged
<1>2. \A a \in Outputs(cause, r) : a.id = <<a.type, r.name>>
  BY DEF Outputs, ArtifactOf
<1>3. e.state \in DOMAIN e.receipts \ DOMAIN heads[p].receipts /\ e.state.type = "state"
  BY TransitionArtifacts, TerminalArtifacts DEF Reservations
<1>4. e.state.id = <<"state", r.name>>
  BY <1>1, <1>2, <1>3
<1>5. ASSUME cause = "TERMINAL_RESERVED" PROVE e.outcome.id = <<"outcome", r.name>>
  <2>1. /\ e.outcome \in DOMAIN e.receipts \ DOMAIN heads[p].receipts
        /\ e.outcome.type = "outcome"
    BY <1>5, TerminalArtifacts
  <2> QED BY <1>1, <1>2, <2>1
<1>6. cause = "TRANSITION_RESERVED" => e.outcome = heads[p].outcome
  BY TransitionArtifacts
<1> QED BY <1>4, <1>5, <1>6 DEF LedgerStates, LedgerOutcomes

\* What an event shows of itself in the ledger.
LEMMA LedgerMoved ==
  ASSUME StoreTyped, NEW p, NEW e, EventStep(p, e)
  PROVE  /\ p \in Plans /\ sched' = sched
         /\ CurrentOf' = [CurrentOf EXCEPT ![p] = e.state.id]
         /\ VerdictOf' = [VerdictOf EXCEPT ![p] = e.outcome.id]
         /\ e.cause = "TERMINAL_CONFIRMED" => SettledOf' = SettledOf \cup {p}
         /\ e.cause # "TERMINAL_CONFIRMED" => SettledOf' = SettledOf
<1>1. Recorded(p, e)
  BY DEF EventStep, OpeningStep, ReservingStep, ConfirmingStep, EndingStep
<1>2. /\ p \in Plans /\ sched' = sched
      /\ heads'[p] = Reduced(heads[p], e)
      /\ \A q \in Plans \ {p} : heads'[q] = heads[q]
  BY <1>1, HeadMoved
<1>3. heads'[p].state = e.state /\ heads'[p].outcome = e.outcome
  BY <1>2, ReducedIs
<1>4. CurrentOf' = [CurrentOf EXCEPT ![p] = e.state.id]
  BY <1>2, <1>3 DEF CurrentOf
<1>5. VerdictOf' = [VerdictOf EXCEPT ![p] = e.outcome.id]
  BY <1>2, <1>3 DEF VerdictOf
<1>6. e.cause = "TERMINAL_CONFIRMED" <=> heads'[p].phase = "TERMINAL_CONFIRMED"
  BY PhaseMoved
<1>7. heads[p].phase # "TERMINAL_CONFIRMED"
  <2>1. OpeningStep(p, e) => heads[p].phase = "ABSENT"
    BY NoRow DEF OpeningStep, Opened
  <2>2. ASSUME NEW a, ConfirmingStep(p, e, a) PROVE heads[p].phase # "TERMINAL_CONFIRMED"
    BY <1>2, <2>2 DEF ConfirmingStep, StoreTyped, Row, AllConfirmed
  <2> QED BY <2>1, <2>2 DEF EventStep, ReservingStep, EndingStep
<1> QED BY <1>2, <1>4, <1>5, <1>6, <1>7 DEF SettledOf

\* A Plan that is undecided in the ledger has no Outcome, and one between its

\* decision and its settlement is pending.
LEMMA LedgerPhases ==
  ASSUME StoreTyped, NEW p \in Plans, Named(p)
  PROVE  /\ VerdictOf[p] = None <=> heads[p].outcome = NoArtifact
         /\ CurrentOf[p] = None <=> heads[p].state = NoArtifact
         /\ VerdictOf[p] = None <=> heads[p].phase \notin Terminal
         /\ p \notin Pending(heads) => VerdictOf[p] = None \/ p \in SettledOf
<1>1. None \notin LedgerStates /\ None \notin LedgerOutcomes
  BY NoneIsNone DEF LedgerStates, LedgerOutcomes
<1>2. VerdictOf[p] = None <=> heads[p].outcome = NoArtifact
  BY <1>1, NoRow DEF VerdictOf, Named
<1>3. CurrentOf[p] = None <=> heads[p].state = NoArtifact
  BY <1>1, NoRow DEF CurrentOf, Named
<1>4. heads[p].phase \in Terminal <=> heads[p].outcome # NoArtifact
  <2>1. CASE Opened(p)
    BY <2>1 DEF StoreTyped, Row
  <2>2. CASE ~Opened(p)
    BY <2>2, NoRow DEF Opened, Terminal
  <2> QED BY <2>1, <2>2
<1> QED BY <1>2, <1>3, <1>4 DEF Pending, SettledOf, Terminal

\* An event keeps the names of a Plan's State and Outcome within those the ledger knows.
LEMMA NamedMoved ==
  ASSUME LedgerInv, NEW p, NEW e, EventStep(p, e),
         e.state = heads[p].state \/ e.state.id \in LedgerStates,
         e.outcome = heads[p].outcome \/ e.outcome.id \in LedgerOutcomes
  PROVE  \A q \in Plans : Named(q)'
<1>1. StoreTyped /\ Recorded(p, e)
  BY DEF EventStep, OpeningStep, ReservingStep, ConfirmingStep, EndingStep, LedgerInv, StoreInv
<1>2. /\ p \in Plans /\ heads'[p] = Reduced(heads[p], e)
      /\ \A q \in Plans \ {p} : heads'[q] = heads[q]
  BY <1>1, HeadMoved
<1>3. heads'[p].state = e.state /\ heads'[p].outcome = e.outcome
  BY <1>2, ReducedIs
<1> QED BY <1>2, <1>3 DEF Named, LedgerInv

\* A reservation is a step of the ledger.
LEMMA ReservationInLedger ==
  ASSUME LedgerInv, NEW p \in Plans, NEW cause \in Reservations, NEW r, r.name \in Names,
         Reserve(p, cause, r)
  PROVE  Ledger!Next /\ \A q \in Plans : Named(q)'
<1> DEFINE e == ChangeEvent(p, cause, r)
<1>1. ReservingStep(p, e, Outputs(cause, r)) /\ e.cause = cause
  BY ReserveStep DEF Reservations, ChangeEvent, EpochEvent
<1> HIDE DEF e
<1>2. EventStep(p, e) /\ StoreTyped
  BY <1>1 DEF EventStep, LedgerInv, StoreInv
<1>3. /\ e.state.id \in LedgerStates
      /\ cause = "TERMINAL_RESERVED" => e.outcome.id \in LedgerOutcomes
      /\ cause = "TRANSITION_RESERVED" => e.outcome = heads[p].outcome
  BY <1>1, RequestNamed
<1>4. \A q \in Plans : Named(q)'
  BY <1>1, <1>2, <1>3, NamedMoved DEF Reservations
<1>5. /\ sched' = sched /\ SettledOf' = SettledOf
      /\ CurrentOf' = [CurrentOf EXCEPT ![p] = e.state.id]
      /\ VerdictOf' = [VerdictOf EXCEPT ![p] = e.outcome.id]
  BY <1>1, <1>2, LedgerMoved DEF Reservations
<1>6. heads[p].phase \in {"OPEN", "ACTIVE"} /\ ScopeAllows(p, cause)
  BY <1>1 DEF ReservingStep
<1>7. Pending(heads) = {}
  BY <1>6 DEF ScopeAllows, OnlyPending, Pending
<1>8. \A q \in Plans : VerdictOf[q] = None \/ q \in SettledOf
  BY <1>2, <1>7, LedgerPhases DEF LedgerInv
<1>9. VerdictOf[p] = None
  BY <1>2, <1>6, LedgerPhases DEF LedgerInv, Terminal
<1>10. CASE cause = "TRANSITION_RESERVED"
  <2>1. VerdictOf' = VerdictOf
    BY <1>3, <1>5, <1>10 DEF VerdictOf
  <2>2. Ledger!Extend(p)
    BY <1>3, <1>5, <1>8, <1>9, <2>1
    DEF Ledger!Extend, Ledger!Quiet, Ledger!Undecided, CurrentOf, VerdictOf, SettledOf, LedgerStates
  <2> QED BY <1>4, <2>2 DEF Ledger!Next
<1>11. CASE cause = "TERMINAL_RESERVED"
  <2>1. heads[p].state # NoArtifact
    BY <1>1, <1>11, TerminalArtifacts
  <2>2. CurrentOf[p] # None
    BY <1>2, <2>1, LedgerPhases DEF LedgerInv
  <2>3. Ledger!Decide(p)
    BY <1>3, <1>5, <1>8, <1>9, <1>11, <2>2
    DEF Ledger!Decide, Ledger!Quiet, Ledger!Undecided, CurrentOf, VerdictOf, SettledOf,
        LedgerStates, LedgerOutcomes
  <2> QED BY <1>4, <2>3 DEF Ledger!Next
<1> QED BY <1>10, <1>11 DEF Reservations

\* The other events show only a settlement, or nothing.
LEMMA OthersInLedger ==
  ASSUME LedgerInv, NEW p, NEW e, EventStep(p, e), e.cause \notin Reservations
  PROVE  [Ledger!Next]_Ledger!ledger /\ \A q \in Plans : Named(q)'
<1>1. StoreTyped /\ Recorded(p, e) /\ p \in Plans
  BY DEF EventStep, OpeningStep, ReservingStep, ConfirmingStep, EndingStep, LedgerInv, StoreInv,
         Recorded
<1>2. e.state = heads[p].state
  BY <1>1, StateMoved
<1>3. e.outcome = heads[p].outcome
  <2>1. OpeningStep(p, e) => e.outcome = heads[p].outcome
    BY OpeningArtifacts, NoRow DEF OpeningStep, Opened
  <2>2. ASSUME NEW a, ConfirmingStep(p, e, a) PROVE e.outcome = heads[p].outcome
    BY <1>1, <2>2, KeptArtifacts DEF ConfirmingStep
  <2>3. EndingStep(p, e) => e.outcome = heads[p].outcome
    BY <1>1, KeptArtifacts DEF EndingStep
  <2> QED BY <2>1, <2>2, <2>3 DEF EventStep, ReservingStep, Reservations
<1>4. \A q \in Plans : Named(q)'
  BY <1>2, <1>3, NamedMoved
<1>5. /\ sched' = sched
      /\ CurrentOf' = [CurrentOf EXCEPT ![p] = e.state.id]
      /\ VerdictOf' = [VerdictOf EXCEPT ![p] = e.outcome.id]
      /\ e.cause = "TERMINAL_CONFIRMED" => SettledOf' = SettledOf \cup {p}
      /\ e.cause # "TERMINAL_CONFIRMED" => SettledOf' = SettledOf
  BY <1>1, LedgerMoved
<1>6. CurrentOf' = CurrentOf /\ VerdictOf' = VerdictOf
  <2>1. e.state.id = CurrentOf[p] /\ e.outcome.id = VerdictOf[p]
    BY <1>1, <1>2, <1>3 DEF CurrentOf, VerdictOf
  <2>2. /\ CurrentOf = [q \in Plans |-> CurrentOf[q]]
        /\ VerdictOf = [q \in Plans |-> VerdictOf[q]]
    BY DEF CurrentOf, VerdictOf
  <2>3. CurrentOf' = CurrentOf
    BY <1>5, <2>1, <2>2
  <2>4. VerdictOf' = VerdictOf
    BY <1>5, <2>1, <2>2
  <2> QED BY <2>3, <2>4
<1>7. CASE e.cause = "TERMINAL_CONFIRMED"
  <2>1. EndingStep(p, e)
    <3>1. ~OpeningStep(p, e)
      BY <1>7 DEF OpeningStep
    <3>2. \A adds : ~ReservingStep(p, e, adds)
      BY <1>7 DEF ReservingStep
    <3>3. \A a : ~ConfirmingStep(p, e, a)
      BY <1>7 DEF ConfirmingStep
    <3> QED BY <3>1, <3>2, <3>3 DEF EventStep
  <2>2. VerdictOf[p] # None
    <3>1. heads[p].phase \in Terminal
      BY <2>1 DEF EndingStep, Terminal
    <3>2. Named(p)
      BY <1>1 DEF LedgerInv
    <3> QED BY <1>1, <3>1, <3>2, LedgerPhases
  <2>3. Ledger!Settle(p)
    BY <1>5, <1>6, <1>7, <2>2
    DEF Ledger!Settle, Ledger!Undecided, CurrentOf, VerdictOf, SettledOf
  <2> QED BY <1>1, <1>4, <2>3 DEF Ledger!Next
<1>8. CASE e.cause # "TERMINAL_CONFIRMED"
  <2>1. UNCHANGED Ledger!ledger
    BY <1>5, <1>6, <1>8 DEF Ledger!ledger, CurrentOf, VerdictOf, SettledOf
  <2> QED BY <1>4, <2>1
<1> QED BY <1>7, <1>8

\* Every step of the store is a step of the ledger, or changes nothing of it.
LEMMA LedgerStep ==
  ASSUME LedgerInv, [NextStore]_store
  PROVE  [Ledger!Next]_Ledger!ledger /\ LedgerInv'
<1>1. StoreInv'
  BY AnyStep, StoreKept DEF LedgerInv, StoreStep
<1>2. CASE UNCHANGED store
  <2>1. UNCHANGED Ledger!ledger
    BY <1>2 DEF store, Ledger!ledger
  <2>2. \A q \in Plans : Named(q)'
    BY <1>2 DEF store, Named, LedgerInv
  <2> QED BY <1>1, <2>1, <2>2 DEF LedgerInv
<1>3. CASE HostTick
  <2>1. heads' = heads /\ sched' = sched + 1 /\ Pending(heads) = {}
    BY <1>3 DEF HostTick, MayMutate
  <2>2. \A q \in Plans : VerdictOf[q] = None \/ q \in SettledOf
    BY <2>1, LedgerPhases DEF LedgerInv, StoreInv
  <2>3. Ledger!Advance
    BY <2>1, <2>2 DEF Ledger!Advance, Ledger!Quiet, Ledger!Undecided, VerdictOf, SettledOf
  <2>4. \A q \in Plans : Named(q)'
    BY <2>1 DEF Named, LedgerInv
  <2> QED BY <1>1, <2>3, <2>4 DEF Ledger!Next, LedgerInv
<1>4. CASE OpenAny
  <2>1. PICK p \in Plans : \E r \in Requests(p) : OpenEpoch(p, r)
    BY <1>4 DEF OpenAny
  <2>2. PICK r : OpeningStep(p, OpenEvent(p, r))
    BY <2>1, OpenStep
  <2>3. PICK e : OpeningStep(p, e)
    BY <2>2
  <2>4. EventStep(p, e) /\ e.cause \notin Reservations
    BY <2>3 DEF EventStep, OpeningStep, Reservations
  <2> QED BY <1>1, <2>4, OthersInLedger DEF LedgerInv
<1>5. CASE TransitionAny
  <2>1. PICK p \in Plans : \E r \in Requests(p) : r.name # p /\ Reserve(p, "TRANSITION_RESERVED", r)
    BY <1>5 DEF TransitionAny
  <2>2. PICK r \in Requests(p) : r.name # p /\ Reserve(p, "TRANSITION_RESERVED", r)
    BY <2>1
  <2>3. r.name \in Names
    BY <2>2 DEF Requests
  <2> QED BY <1>1, <2>2, <2>3, ReservationInLedger DEF LedgerInv, Reservations
<1>6. CASE TerminalAny
  <2>1. PICK p \in Plans : \E r \in Requests(p) : r.name # p /\ Reserve(p, "TERMINAL_RESERVED", r)
    BY <1>6 DEF TerminalAny
  <2>2. PICK r \in Requests(p) : r.name # p /\ Reserve(p, "TERMINAL_RESERVED", r)
    BY <2>1
  <2>3. r.name \in Names
    BY <2>2 DEF Requests
  <2> QED BY <1>1, <2>2, <2>3, ReservationInLedger DEF LedgerInv, Reservations
<1>7. CASE ConfirmAny
  <2>1. PICK p \in Plans : \E a \in NextToConfirm(p), k \in Keys, t \in Times,
                              n \in {0, HeadN(p)} : ConfirmArtifact(p, a, k, n, t)
    BY <1>7 DEF ConfirmAny
  <2>2. PICK e : \E a : ConfirmingStep(p, e, a)
    BY <2>1, ConfirmStep
  <2>3. EventStep(p, e) /\ e.cause \notin Reservations
    BY <2>2 DEF EventStep, ConfirmingStep, Reservations
  <2> QED BY <1>1, <2>3, OthersInLedger DEF LedgerInv
<1>8. CASE CloseAny
  <2>1. PICK p \in Plans : \E k \in Keys, d \in Producers, t \in Times,
                              n \in {0, HeadN(p)} : ConfirmTerminal(p, k, d, n, t)
    BY <1>8 DEF CloseAny
  <2>2. PICK e : EndingStep(p, e)
    BY <2>1, CloseStep
  <2>3. EventStep(p, e) /\ e.cause \notin Reservations
    BY <2>2 DEF EventStep, EndingStep, Reservations
  <2> QED BY <1>1, <2>3, OthersInLedger DEF LedgerInv
<1> QED BY <1>2, <1>3, <1>4, <1>5, <1>6, <1>7, <1>8 DEF NextStore

\* The store implements the ledger: for all its receipts, phases, keys and retries,
\* a Plan gets one State after another, at most one Outcome, and nothing moves
\* between that decision and its settlement.
THEOREM StoreImplementsLedger == SpecStore => LedgerKept
<1>1. InitStore => Ledger!Init
  BY NoRow DEF InitStore, Ledger!Init
<1>2. InitStore => LedgerInv
  <2>1. InitStore => \A p \in Plans : Named(p)
    BY NoRow DEF InitStore, Named
  <2> QED BY <2>1, StoreStarts DEF LedgerInv
<1>3. LedgerInv /\ [NextStore]_store => [Ledger!Next]_Ledger!ledger /\ LedgerInv'
  BY LedgerStep
<1> QED BY <1>1, <1>2, <1>3, PTL DEF SpecStore, LedgerKept, Ledger!Spec

----------------------------------------------------------------------------
(* Publication: what a process is in the middle of *)

OnDisk(a) == a.path \in DOMAIN disk /\ disk[a.path] = a.id
Confirmed(p, a) == a \in Receipts(p) /\ heads[p].receipts[a] = "CONFIRMED"

\* The record of a started operation has all its fields.
Process(m) ==
  m = [step |-> m.step, op |-> m.op, p |-> m.p, s |-> m.s, r |-> m.r, saw |-> m.saw,
       todo |-> m.todo, again |-> m.again]
Steps == {"tick", "check", "reserve", "link", "unlink", "confirm", "final", "close", "offer"}
Started(m) ==
  /\ Process(m) /\ m.step \in Steps /\ m.p \in Plans
  /\ m.again \in BOOLEAN /\ (m.again => m.op = "workflow-recover")
\* What it still has to write is reserved, and what it is about to confirm is there.
Writing(m) ==
  /\ m.step \in {"link", "unlink", "confirm"} => m.todo \in Seq(Receipts(m.p)) /\ m.todo # <<>>
  /\ m.step \in {"unlink", "confirm"} => OnDisk(Head(m.todo))
  /\ m.step = "confirm" => Head(m.todo).path \notin twice
ClientSound(c) == client[c] = Idle \/ (Started(client[c]) /\ Writing(client[c]))

ServiceInv ==
  /\ StoreInv
  /\ disk = [path \in DOMAIN disk |-> disk[path]]
  /\ client = [c \in Clients |-> client[c]]
  /\ \A c \in Clients : ClientSound(c)
  /\ ConfirmedIsPublished
  /\ ReservedBeforePublished

\* What no step of a service takes back: receipts, files, and the single link of a
\* file that is in place.
Grows ==
  /\ \A p \in Plans : Receipts(p) \subseteq Receipts(p)'
  /\ \A path \in DOMAIN disk : path \in DOMAIN disk' /\ disk'[path] = disk[path]
  /\ \A path \in twice' : path \in twice \/ path \notin DOMAIN disk
\* What it may add: files that were reserved, confirmations of files that are there.
AddsReservedFiles ==
  \A path \in DOMAIN disk' \ DOMAIN disk :
    \E p \in Plans : \E a \in Receipts(p) : a.path = path /\ a.id = disk'[path]
AddsTrueConfirmations ==
  \A p \in Plans : \A a : Confirmed(p, a)' => Confirmed(p, a) \/ (OnDisk(a) /\ a.path \notin twice)

ServiceStep(c) ==
  /\ StoreStep /\ Grows /\ AddsReservedFiles /\ AddsTrueConfirmations
  /\ disk' = [path \in DOMAIN disk' |-> disk'[path]]
  /\ client' = [d \in Clients |-> client'[d]]
  /\ \A d \in Clients \ {c} : client'[d] = client[d]

\* A step that only takes back nothing leaves every other process as it was.
LEMMA OthersKept ==
  ASSUME Grows, NEW d \in Clients, client'[d] = client[d], ClientSound(d)
  PROVE  ClientSound(d)'
<1> SUFFICES ASSUME Started(client[d]), Writing(client[d])
             PROVE  Started(client[d])' /\ Writing(client[d])'
  BY DEF ClientSound, Idle
<1> DEFINE m == client[d]
<1>1. Started(client[d])'
  BY DEF Started, Process
<1>2. m.p \in Plans
  BY DEF Started
<1>3. m.step \in {"link", "unlink", "confirm"} => m.todo \in Seq(Receipts(m.p)') /\ m.todo # <<>>
  BY <1>2 DEF Writing, Grows
<1>4. m.step \in {"unlink", "confirm"} => OnDisk(Head(m.todo))'
  BY DEF Writing, Grows, OnDisk
<1>5. m.step = "confirm" => Head(m.todo).path \notin twice'
  BY DEF Writing, Grows, OnDisk
<1>6. Writing(client[d])'
  BY <1>3, <1>4, <1>5 DEF Writing, OnDisk
<1> QED BY <1>1, <1>6

\* A step of one process that adds only reserved files and true confirmations keeps the invariant.
LEMMA ServiceKept ==
  ASSUME ServiceInv, NEW c, ServiceStep(c), c \in Clients => ClientSound(c)'
  PROVE  ServiceInv'
<1>1. StoreInv'
  BY StoreKept DEF ServiceInv, ServiceStep
<1>2. \A d \in Clients : ClientSound(d)'
  <2> TAKE d \in Clients
  <2>1. CASE d = c
    BY <2>1
  <2>2. CASE d # c
    BY <2>2, OthersKept DEF ServiceInv, ServiceStep
  <2> QED BY <2>1, <2>2
<1>3. ConfirmedIsPublished'
  <2> SUFFICES ASSUME NEW p \in Plans, NEW a, Confirmed(p, a)'
               PROVE  OnDisk(a)' /\ a.path \notin twice'
    BY DEF ConfirmedIsPublished, Confirmed, OnDisk
  <2>1. OnDisk(a) /\ a.path \notin twice
    BY DEF ServiceStep, AddsTrueConfirmations, ServiceInv, ConfirmedIsPublished, Confirmed, OnDisk
  <2> QED BY <2>1 DEF ServiceStep, Grows, OnDisk
<1>4. ReservedBeforePublished'
  <2> SUFFICES ASSUME NEW path \in DOMAIN disk'
               PROVE  \E p \in Plans : \E a \in Receipts(p)' : a.path = path /\ a.id = disk'[path]
    BY DEF ReservedBeforePublished
  <2>1. PICK p \in Plans : \E a \in Receipts(p) : a.path = path /\ a.id = disk'[path]
    <3>1. CASE path \in DOMAIN disk
      BY <3>1 DEF ServiceInv, ReservedBeforePublished, ServiceStep, Grows
    <3>2. CASE path \notin DOMAIN disk
      BY <3>2 DEF ServiceStep, AddsReservedFiles
    <3> QED BY <3>1, <3>2
  <2>2. PICK a \in Receipts(p) : a.path = path /\ a.id = disk'[path]
    BY <2>1
  <2>3. a \in Receipts(p)'
    BY <2>2 DEF ServiceStep, Grows
  <2> QED BY <2>2, <2>3
<1> QED BY <1>1, <1>2, <1>3, <1>4 DEF ServiceInv, ServiceStep

\* Receipts are only ever added, and only a confirmation confirms one.
LEMMA ReceiptsAfter ==
  ASSUME StoreTyped, StoreStep, NEW q \in Plans
  PROVE  Receipts(q) \subseteq Receipts(q)'
<1>1. CASE UNCHANGED store
  BY <1>1 DEF store, Receipts
<1>2. CASE HostTick
  BY <1>2 DEF HostTick, Receipts
<1>3. CASE \E p \in Plans : \E e : EventStep(p, e)
  <2>1. PICK p \in Plans : \E e : EventStep(p, e)
    BY <1>3
  <2>2. PICK e : EventStep(p, e)
    BY <2>1
  <2>3. DOMAIN heads[p].receipts \subseteq DOMAIN heads'[p].receipts
    BY <2>2, ReceiptsMoved, StateMoved
  <2>4. q # p => heads'[q] = heads[q]
    <3>1. Recorded(p, e)
      BY <2>2 DEF EventStep, OpeningStep, ReservingStep, ConfirmingStep, EndingStep
    <3> QED BY <3>1, HeadMoved
  <2> QED BY <2>3, <2>4 DEF Receipts
<1> QED BY <1>1, <1>2, <1>3 DEF StoreStep

\* An event confirms nothing but the file it is about.
LEMMA ConfirmedAfter ==
  ASSUME StoreTyped, NEW p, NEW e, EventStep(p, e), NEW q \in Plans, NEW a, Confirmed(q, a)'
  PROVE  Confirmed(q, a) \/ (q = p /\ ConfirmingStep(p, e, a))
<1>1. Recorded(p, e)
  BY DEF EventStep, OpeningStep, ReservingStep, ConfirmingStep, EndingStep
<1>2. p \in Plans /\ \A r \in Plans \ {p} : heads'[r] = heads[r]
  BY <1>1, HeadMoved
<1>3. CASE q # p
  BY <1>2, <1>3 DEF Confirmed, Receipts
<1>4. ASSUME q = p PROVE Confirmed(p, a) \/ ConfirmingStep(p, e, a)
  <2>1. a \in DOMAIN e.receipts /\ e.receipts[a] = "CONFIRMED"
    BY <1>4, StateMoved DEF Confirmed, Receipts
  <2>2. ~OpeningStep(p, e)
    <3> SUFFICES ASSUME OpeningStep(p, e) PROVE FALSE
      OBVIOUS
    <3>1. e.receipts = Reserved(DOMAIN e.receipts)
      BY DEF OpeningStep
    <3>2. Reserved(DOMAIN e.receipts)[a] = "RESERVED"
      BY <2>1 DEF Reserved
    <3>3. e.receipts[a] = "RESERVED"
      BY <3>1, <3>2
    <3> QED BY <2>1, <3>3
  <2>3. ASSUME NEW adds, ReservingStep(p, e, adds) PROVE Confirmed(p, a)
    BY <2>1, <2>3 DEF ReservingStep, Merged, Confirmed, Receipts
  <2>4. ASSUME NEW b, ConfirmingStep(p, e, b) PROVE Confirmed(p, a) \/ a = b
    BY <2>1, <2>4 DEF ConfirmingStep, Confirmed, Receipts
  <2>5. EndingStep(p, e) => Confirmed(p, a)
    BY <2>1 DEF EndingStep, Confirmed, Receipts
  <2> QED BY <2>2, <2>3, <2>4, <2>5 DEF EventStep
<1> QED BY <1>3, <1>4

\* A step that writes nothing and confirms only what is there.
LEMMA StoreOnly ==
  ASSUME ServiceInv, NEW c, StoreStep, AddsTrueConfirmations,
         disk' = disk, \A path \in twice' : path \in twice,
         client' = [d \in Clients |-> client'[d]],
         \A d \in Clients \ {c} : client'[d] = client[d]
  PROVE  ServiceStep(c)
<1>1. \A p \in Plans : Receipts(p) \subseteq Receipts(p)'
  BY ReceiptsAfter DEF ServiceInv, StoreInv
<1>2. Grows
  BY <1>1 DEF Grows
<1>3. AddsReservedFiles
  BY DEF AddsReservedFiles
<1> QED BY <1>2, <1>3 DEF ServiceStep, ServiceInv

\* A step that leaves the rows alone confirms nothing.
LEMMA NothingConfirmed ==
  ASSUME heads' = heads
  PROVE  AddsTrueConfirmations
BY DEF AddsTrueConfirmations, Confirmed, Receipts

\* A process that goes on as another record.
LEMMA Became ==
  ASSUME client = [d \in Clients |-> client[d]], NEW c \in Clients, NEW m,
         client' = [client EXCEPT ![c] = m]
  PROVE  /\ client' = [d \in Clients |-> client'[d]]
         /\ client'[c] = m
         /\ \A d \in Clients \ {c} : client'[d] = client[d]
OBVIOUS

----------------------------------------------------------------------------
(* Publication: one lemma per action of a process *)

\* What a started operation becomes when some of its fields change.
WithList(m, step, todo) == [m EXCEPT !.step = step, !.todo = todo]
WithRequest(m, step, r) == [m EXCEPT !.step = step, !.r = r]
WithBoth(m, step, todo, r) == [m EXCEPT !.step = step, !.todo = todo, !.r = r]
WithView(m, step, saw, r) == [m EXCEPT !.step = step, !.saw = saw, !.r = r]
WithStep(m, step) == [m EXCEPT !.step = step]
SameOperation(g, m) == g.op = m.op /\ g.p = m.p /\ g.again = m.again

\* An operation that goes on to another step is the same operation.
LEMMA AdvancedStep ==
  ASSUME NEW m, Process(m), NEW step, NEW g, g = WithStep(m, step)
  PROVE  Process(g) /\ g.step = step /\ g.todo = m.todo /\ SameOperation(g, m)
<1>1. PICK m1, m2, m3, m4, m5, m6, m7, m8 :
         m = [step |-> m1, op |-> m2, p |-> m3, s |-> m4, r |-> m5, saw |-> m6,
              todo |-> m7, again |-> m8]
  BY DEF Process
<1>2. g = [step |-> step, op |-> m2, p |-> m3, s |-> m4, r |-> m5, saw |-> m6,
           todo |-> m7, again |-> m8]
  BY <1>1 DEF WithStep
<1> QED BY <1>1, <1>2 DEF Process, SameOperation

\* What is left of a list of several items after its first one.
LEMMA RestOf ==
  ASSUME NEW S, NEW s \in Seq(S), Len(s) > 1
  PROVE  Tail(s) \in Seq(S) /\ Tail(s) # <<>>
<1>1. Tail(s) \in Seq(S) /\ Len(Tail(s)) = Len(s) - 1
  OBVIOUS
<1>2. PICK t : t = Tail(s)
  OBVIOUS
<1>a. Len(s) \in Int
  OBVIOUS
<1>b. Len(t) > 0
  BY <1>1, <1>2, <1>a
<1>3. t # <<>>
  BY <1>b
<1> QED BY <1>1, <1>2, <1>3

\* So is one that goes on with another list of files.
LEMMA AdvancedList ==
  ASSUME NEW m, Process(m), NEW step, NEW todo, NEW g, g = WithList(m, step, todo)
  PROVE  Process(g) /\ g.step = step /\ g.todo = todo /\ SameOperation(g, m)
<1>1. PICK m1, m2, m3, m4, m5, m6, m7, m8 :
         m = [step |-> m1, op |-> m2, p |-> m3, s |-> m4, r |-> m5, saw |-> m6,
              todo |-> m7, again |-> m8]
  BY DEF Process
<1>2. g = [step |-> step, op |-> m2, p |-> m3, s |-> m4, r |-> m5, saw |-> m6,
           todo |-> todo, again |-> m8]
  BY <1>1 DEF WithList
<1> QED BY <1>1, <1>2 DEF Process, SameOperation

\* So is one that goes on with another request.
LEMMA AdvancedRequest ==
  ASSUME NEW m, Process(m), NEW step, NEW r, NEW g, g = WithRequest(m, step, r)
  PROVE  Process(g) /\ g.step = step /\ SameOperation(g, m)
<1>1. PICK m1, m2, m3, m4, m5, m6, m7, m8 :
         m = [step |-> m1, op |-> m2, p |-> m3, s |-> m4, r |-> m5, saw |-> m6,
              todo |-> m7, again |-> m8]
  BY DEF Process
<1>2. g = [step |-> step, op |-> m2, p |-> m3, s |-> m4, r |-> r, saw |-> m6,
           todo |-> m7, again |-> m8]
  BY <1>1 DEF WithRequest
<1> QED BY <1>1, <1>2 DEF Process, SameOperation

\* So is one that goes on with another list and another request.
LEMMA AdvancedBoth ==
  ASSUME NEW m, Process(m), NEW step, NEW todo, NEW r, NEW g, g = WithBoth(m, step, todo, r)
  PROVE  Process(g) /\ g.step = step /\ g.todo = todo /\ SameOperation(g, m)
<1>1. PICK m1, m2, m3, m4, m5, m6, m7, m8 :
         m = [step |-> m1, op |-> m2, p |-> m3, s |-> m4, r |-> m5, saw |-> m6,
              todo |-> m7, again |-> m8]
  BY DEF Process
<1>2. g = [step |-> step, op |-> m2, p |-> m3, s |-> m4, r |-> r, saw |-> m6,
           todo |-> todo, again |-> m8]
  BY <1>1 DEF WithBoth
<1> QED BY <1>1, <1>2 DEF Process, SameOperation

\* So is one that goes on with what it saw of the store.
LEMMA AdvancedView ==
  ASSUME NEW m, Process(m), NEW step, NEW saw, NEW r, NEW g, g = WithView(m, step, saw, r)
  PROVE  Process(g) /\ g.step = step /\ SameOperation(g, m)
<1>1. PICK m1, m2, m3, m4, m5, m6, m7, m8 :
         m = [step |-> m1, op |-> m2, p |-> m3, s |-> m4, r |-> m5, saw |-> m6,
              todo |-> m7, again |-> m8]
  BY DEF Process
<1>2. g = [step |-> step, op |-> m2, p |-> m3, s |-> m4, r |-> r, saw |-> saw,
           todo |-> m7, again |-> m8]
  BY <1>1 DEF WithView
<1> QED BY <1>1, <1>2 DEF Process, SameOperation

\* The outputs an operation writes, in their order, are the ones it reserves.
LEMMA OutputsListed ==
  ASSUME NEW op, NEW r
  PROVE  /\ OutputOrder(op, r) \in Seq(Outputs(CauseOf(op), r))
         /\ OutputOrder(op, r) # <<>>
<1> DEFINE all == Outputs(CauseOf(op), r)
           OfType(t) == CHOOSE a \in all : a.type = t
<1>1. ASSUME NEW t \in OutputTypes(CauseOf(op)) PROVE OfType(t) \in all
  <2>1. ArtifactOf(t, r.name, r.slot, r.producer) \in all
    BY <1>1 DEF Outputs
  <2>2. ArtifactOf(t, r.name, r.slot, r.producer).type = t
    BY DEF ArtifactOf
  <2> HIDE DEF all
  <2> QED BY <2>1, <2>2
<1>2. CASE op = "workflow-plan"
  <2>1. "plan" \in OutputTypes(CauseOf(op))
    BY <1>2 DEF OutputTypes, CauseOf, Finishers
  <2>2. OfType("plan") \in all
    BY <1>1, <2>1
  <2>3. OutputOrder(op, r) = <<OfType("plan")>>
    BY <1>2 DEF OutputOrder, Finishers
  <2> HIDE DEF OfType, all
  <2>4. <<OfType("plan")>> \in Seq(all) /\ <<OfType("plan")>> # <<>>
    BY <2>2
  <2> QED BY <2>3, <2>4 DEF all
<1>3. CASE op \in Finishers
  <2>1. {"event", "state", "outcome"} \subseteq OutputTypes(CauseOf(op))
    BY <1>3 DEF OutputTypes, CauseOf, Finishers
  <2>2. OfType("event") \in all /\ OfType("state") \in all /\ OfType("outcome") \in all
    BY <1>1, <2>1
  <2>3. OutputOrder(op, r) = <<OfType("event"), OfType("state"), OfType("outcome")>>
    BY <1>3 DEF OutputOrder, Finishers
  <2> HIDE DEF OfType, all
  <2>4. /\ <<OfType("event"), OfType("state"), OfType("outcome")>> \in Seq(all)
        /\ <<OfType("event"), OfType("state"), OfType("outcome")>> # <<>>
    BY <2>2
  <2> QED BY <2>3, <2>4 DEF all
<1>4. CASE op # "workflow-plan" /\ op \notin Finishers
  <2>1. {"event", "state"} \subseteq OutputTypes(CauseOf(op))
    BY <1>4 DEF OutputTypes, CauseOf
  <2>2. OfType("event") \in all /\ OfType("state") \in all
    BY <1>1, <2>1
  <2>3. OutputOrder(op, r) = <<OfType("event"), OfType("state")>>
    BY <1>4 DEF OutputOrder
  <2> HIDE DEF OfType, all
  <2>4. /\ <<OfType("event"), OfType("state")>> \in Seq(all)
        /\ <<OfType("event"), OfType("state")>> # <<>>
    BY <2>2
  <2> QED BY <2>3, <2>4 DEF all
<1> QED BY <1>2, <1>3, <1>4

\* A process at a step with no file in hand has nothing to keep true.
LEMMA NothingInHand ==
  ASSUME NEW m, m.step \notin {"link", "unlink", "confirm"}
  PROVE  Writing(m)
BY DEF Writing

\* Reading the store at the start of an operation keeps the invariant.
LEMMA LookKeeps ==
  ASSUME ServiceInv, NEW c \in Clients, Start(c)
  PROVE  ServiceStep(c) /\ ClientSound(c)'
<1>1. PICK p \in Plans : \E op, s, slot, at : Look(c, op, p, s, slot, at)
  BY DEF Start
<1>a. PICK op, s, slot, at : Look(c, op, p, s, slot, at)
  BY <1>1
<1>b. PICK m : m = [step |-> IF Ticks(op, s) THEN "tick" ELSE "check", op |-> op, p |-> p, s |-> s,
                     r |-> Request(op, p, s, slot, at), saw |-> Snapshot, todo |-> <<>>,
                     again |-> op = "workflow-recover" /\ PinnedRequest(op, p, s)]
  OBVIOUS
<1>2. client' = [client EXCEPT ![c] = m] /\ UNCHANGED <<store, disk, twice>>
  BY <1>a, <1>b DEF Look
<1>3. /\ Process(m) /\ m.step \in {"tick", "check"} /\ m.p = p /\ m.op = op
      /\ m.again = (op = "workflow-recover" /\ PinnedRequest(op, p, s))
  BY <1>b DEF Process
<1>4. Started(m)
  BY <1>3 DEF Started, Steps
<1>5. Writing(m)'
  BY <1>3 DEF Writing
<1>6. /\ client' = [d \in Clients |-> client'[d]] /\ client'[c] = m
      /\ \A d \in Clients \ {c} : client'[d] = client[d]
  BY <1>2, Became DEF ServiceInv
<1>7. ServiceStep(c)
  BY <1>2, <1>6, StoreOnly, NothingConfirmed DEF StoreStep, store
<1>8. ClientSound(c)'
  BY <1>4, <1>5, <1>6 DEF ClientSound
<1> QED BY <1>7, <1>8

\* A process in the middle of an operation.
LEMMA Busy ==
  ASSUME ServiceInv, NEW c \in Clients, client[c].step # "idle"
  PROVE  Started(client[c]) /\ Writing(client[c])
BY DEF ServiceInv, ClientSound, Idle

\* It goes on with the operation ...
LEMMA MovedOn ==
  ASSUME ServiceInv, NEW c \in Clients, Started(client[c]), NEW g,
         client' = [client EXCEPT ![c] = g],
         Process(g), g.step \in Steps, g.op = client[c].op, g.p = client[c].p,
         g.again = client[c].again,
         Writing(g)'
  PROVE  /\ client' = [d \in Clients |-> client'[d]]
         /\ \A d \in Clients \ {c} : client'[d] = client[d]
         /\ ClientSound(c)'
<1>1. /\ client' = [d \in Clients |-> client'[d]] /\ client'[c] = g
      /\ \A d \in Clients \ {c} : client'[d] = client[d]
  BY Became DEF ServiceInv
<1>2. Started(g)
  BY DEF Started
<1>3. ClientSound(c)'
  BY <1>1, <1>2 DEF ClientSound
<1> QED BY <1>1, <1>3

\* ... or is done with it.
LEMMA Stopped ==
  ASSUME ServiceInv, NEW c \in Clients, client' = [client EXCEPT ![c] = Idle]
  PROVE  /\ client' = [d \in Clients |-> client'[d]]
         /\ \A d \in Clients \ {c} : client'[d] = client[d]
         /\ ClientSound(c)'
<1>1. /\ client' = [d \in Clients |-> client'[d]] /\ client'[c] = Idle
      /\ \A d \in Clients \ {c} : client'[d] = client[d]
  BY Became DEF ServiceInv
<1> QED BY <1>1 DEF ClientSound

\* So does the scheduler tick of a run.
LEMMA TickStep ==
  ASSUME ServiceInv, NEW c \in Clients, Tick(c)
  PROVE  ServiceStep(c) /\ ClientSound(c)'
<1>m. PICK m : m = client[c]
  OBVIOUS
<1>1. Started(m)
  BY <1>m, Busy DEF Tick, At
<1>2. PICK g : g = Derived(c)
  OBVIOUS
<1>3. client' = [client EXCEPT ![c] = g] /\ UNCHANGED <<disk, twice>>
  BY <1>2 DEF Tick
<1>4. PICK saw, r : g = [m EXCEPT !.step = "check", !.saw = saw, !.r = r]
  BY <1>m, <1>2 DEF Derived
<1>5. /\ Process(g) /\ g.step = "check" /\ g.op = m.op /\ g.p = m.p /\ g.again = m.again
  <2>1. g = WithView(m, "check", saw, r)
    BY <1>4 DEF WithView
  <2> QED BY <1>1, <2>1, AdvancedView DEF Started, SameOperation
<1>6. Writing(g)'
  BY <1>5 DEF Writing
<1>7. /\ client' = [d \in Clients |-> client'[d]]
      /\ \A d \in Clients \ {c} : client'[d] = client[d]
      /\ ClientSound(c)'
  BY <1>m, <1>1, <1>3, <1>5, <1>6, MovedOn DEF Steps
<1>8. HostTick \/ UNCHANGED store
  BY DEF Tick
<1>9. StoreStep /\ heads' = heads
  BY <1>8 DEF StoreStep, HostTick, store
<1>10. ServiceStep(c)
  BY <1>3, <1>7, <1>9, StoreOnly, NothingConfirmed
<1> QED BY <1>7, <1>10

\* So does checking the request against what was read.
LEMMA CheckStep ==
  ASSUME ServiceInv, NEW c \in Clients, Check(c)
  PROVE  ServiceStep(c) /\ ClientSound(c)'
<1>m. PICK m : m = client[c]
  OBVIOUS
<1>1. Started(m) /\ CheckPasses(m)
  BY <1>m, Busy DEF Check, At
<1>2. UNCHANGED <<store, disk, twice>> /\ heads' = heads
  BY DEF Check, store
<1>3. CASE m.again
  <2>1. PICK g : g = [m EXCEPT !.step = "link", !.todo = OutputOrder(m.op, m.r)]
    OBVIOUS
  <2>2. client' = [client EXCEPT ![c] = g]
    BY <1>m, <1>3, <2>1 DEF Check
  <2>3. /\ Process(g) /\ g.step = "link" /\ g.op = m.op /\ g.p = m.p /\ g.again = m.again
        /\ g.todo = OutputOrder(m.op, m.r)
    <3>1. g = WithList(m, "link", OutputOrder(m.op, m.r))
      BY <2>1 DEF WithList
    <3> QED BY <1>1, <3>1, AdvancedList DEF Started, SameOperation
  <2>4. CauseOf(m.op) = "TRANSITION_RESERVED"
    BY <1>1, <1>3 DEF Started, CauseOf, Finishers
  <2>5. Outputs("TRANSITION_RESERVED", m.r) = {heads[m.p].event, heads[m.p].state}
    BY <1>1, <1>3 DEF CheckPasses
  <2>6. \A a \in Outputs("TRANSITION_RESERVED", m.r) : a.type \in {"event", "state"}
    BY DEF Outputs, OutputTypes, ArtifactOf
  <2>7. \A a \in Outputs("TRANSITION_RESERVED", m.r) : a \in Receipts(m.p)
    <3>1. m.p \in Plans
      BY <1>1 DEF Started
    <3>2. CASE Opened(m.p)
      <4>1. /\ ArtifactIn(heads[m.p], heads[m.p].event, "event")
            /\ ArtifactIn(heads[m.p], heads[m.p].state, "state")
        BY <3>1, <3>2 DEF ServiceInv, StoreInv, StoreTyped, Row
      <4>2. NoArtifact \notin Outputs("TRANSITION_RESERVED", m.r)
        BY <2>6, NoRow
      <4> QED BY <2>5, <4>1, <4>2 DEF ArtifactIn, Receipts
    <3>3. CASE ~Opened(m.p)
      <4>1. heads[m.p].event = NoArtifact
        BY <3>3, NoRow DEF Opened
      <4>2. NoArtifact \notin Outputs("TRANSITION_RESERVED", m.r)
        BY <2>6, NoRow
      <4> QED BY <2>5, <4>1, <4>2
    <3> QED BY <3>2, <3>3
  <2>8. Writing(g)'
    <3>1. OutputOrder(m.op, m.r) \in Seq(Outputs("TRANSITION_RESERVED", m.r))
          /\ OutputOrder(m.op, m.r) # <<>>
      BY <2>4, OutputsListed
    <3>2. Receipts(m.p)' = Receipts(m.p)
      BY <1>2 DEF Receipts
    <3>3. OutputOrder(m.op, m.r) \in Seq(Receipts(m.p))
      BY <2>7, <3>1
    <3>4. g.todo \in Seq(Receipts(g.p)') /\ g.todo # <<>>
      BY <2>3, <3>1, <3>2, <3>3 DEF Receipts
    <3> QED BY <2>3, <3>4 DEF Writing
  <2>9. /\ client' = [d \in Clients |-> client'[d]]
        /\ \A d \in Clients \ {c} : client'[d] = client[d]
        /\ ClientSound(c)'
    BY <1>m, <1>1, <2>2, <2>3, <2>8, MovedOn DEF Steps
  <2> QED BY <1>2, <2>9, StoreOnly, NothingConfirmed DEF StoreStep
<1>4. CASE ~m.again
  <2>1. PICK r : client' = [client EXCEPT ![c] = [m EXCEPT !.step = "reserve", !.r = r]]
    BY <1>m, <1>4 DEF Check
  <2>2. PICK g : g = [m EXCEPT !.step = "reserve", !.r = r]
    OBVIOUS
  <2>3. /\ Process(g) /\ g.step = "reserve" /\ g.op = m.op /\ g.p = m.p /\ g.again = m.again
    <3>1. g = WithRequest(m, "reserve", r)
      BY <2>2 DEF WithRequest
    <3> QED BY <1>1, <3>1, AdvancedRequest DEF Started, SameOperation
  <2>4. Writing(g)'
    BY <2>3 DEF Writing
  <2>5. /\ client' = [d \in Clients |-> client'[d]]
        /\ \A d \in Clients \ {c} : client'[d] = client[d]
        /\ ClientSound(c)'
    BY <1>m, <1>1, <2>1, <2>2, <2>3, <2>4, MovedOn DEF Steps
  <2> QED BY <1>2, <2>5, StoreOnly, NothingConfirmed DEF StoreStep
<1> QED BY <1>3, <1>4

\* A reservation, or the repetition of one, leaves the outputs among the receipts.
LEMMA OutputsReserved ==
  ASSUME ServiceInv, NEW m, m.p \in Plans,
         IF m.op = "workflow-plan"
         THEN \/ OpenEpoch(m.p, m.r)
              \/ Reopens(m.p, m.r) /\ UNCHANGED store
         ELSE \/ RoomIn(m.p) /\ Reserve(m.p, CauseOf(m.op), m.r)
              \/ Repeats(m.p, CauseOf(m.op), m.r) /\ UNCHANGED store
  PROVE  /\ StoreStep /\ AddsTrueConfirmations
         /\ Outputs(CauseOf(m.op), m.r) \subseteq Receipts(m.p)'
<1>1. StoreTyped
  BY DEF ServiceInv, StoreInv
<1>2. CASE m.op = "workflow-plan" /\ OpenEpoch(m.p, m.r)
  <2>1. PICK e : e = OpenEvent(m.p, m.r)
    OBVIOUS
  <2>2. OpeningStep(m.p, e)
    BY <1>2, <2>1, OpenStep
  <2>3. EventStep(m.p, e)
    BY <2>2 DEF EventStep
  <2>4. e.receipts = Reserved(Outputs("EPOCH_OPENED", m.r))
    BY <2>1 DEF OpenEvent, EpochEvent
  <2>5. CauseOf(m.op) = "EPOCH_OPENED"
    BY <1>2 DEF CauseOf, Finishers
  <2>6. heads'[m.p].receipts = e.receipts
    BY <1>1, <2>3, StateMoved
  <2>7. ~ConfirmingStep(m.p, e, NoArtifact) /\ \A a : ~ConfirmingStep(m.p, e, a)
    BY <2>2 DEF OpeningStep, ConfirmingStep
  <2>8. AddsTrueConfirmations
    BY <1>1, <2>3, <2>7, ConfirmedAfter DEF AddsTrueConfirmations
  <2>9. Outputs(CauseOf(m.op), m.r) \subseteq Receipts(m.p)'
    BY <2>4, <2>5, <2>6 DEF Reserved, Receipts
  <2> QED BY <2>3, <2>8, <2>9 DEF StoreStep
<1>3. CASE m.op = "workflow-plan" /\ Reopens(m.p, m.r) /\ UNCHANGED store
  <2>1. CauseOf(m.op) = "EPOCH_OPENED"
    BY <1>3 DEF CauseOf, Finishers
  <2>2. Outputs("EPOCH_OPENED", m.r) \subseteq Receipts(m.p)'
    BY <1>3 DEF Reopens, SameRequest, Receipts, store
  <2> QED BY <1>3, <2>1, <2>2, NothingConfirmed DEF StoreStep, store
<1>4. CASE m.op # "workflow-plan" /\ Reserve(m.p, CauseOf(m.op), m.r)
  <2>1. PICK cause : cause = CauseOf(m.op)
    OBVIOUS
  <2>2. cause \in {"TRANSITION_RESERVED", "TERMINAL_RESERVED"}
    BY <1>4, <2>1 DEF CauseOf
  <2>3. PICK e : e = ChangeEvent(m.p, cause, m.r)
    OBVIOUS
  <2>4. ReservingStep(m.p, e, Outputs(cause, m.r))
    BY <1>4, <2>1, <2>2, <2>3, ReserveStep
  <2>5. EventStep(m.p, e)
    BY <2>4 DEF EventStep
  <2>6. heads'[m.p].receipts = e.receipts
    BY <1>1, <2>5, StateMoved
  <2>7. \A a : ~ConfirmingStep(m.p, e, a)
    BY <2>4 DEF ReservingStep, ConfirmingStep
  <2>8. AddsTrueConfirmations
    BY <1>1, <2>5, <2>7, ConfirmedAfter DEF AddsTrueConfirmations
  <2>9. Outputs(cause, m.r) \subseteq DOMAIN e.receipts
    BY <2>4 DEF ReservingStep, Merged
  <2>10. Outputs(CauseOf(m.op), m.r) \subseteq Receipts(m.p)'
    BY <2>1, <2>6, <2>9 DEF Receipts
  <2> QED BY <2>5, <2>8, <2>10 DEF StoreStep
<1>5. CASE m.op # "workflow-plan" /\ Repeats(m.p, CauseOf(m.op), m.r) /\ UNCHANGED store
  <2>1. Outputs(CauseOf(m.op), m.r) \subseteq Receipts(m.p)'
    BY <1>5 DEF Repeats, SameRequest, Receipts, store
  <2> QED BY <1>5, <2>1, NothingConfirmed DEF StoreStep, store
<1> QED BY <1>2, <1>3, <1>4, <1>5

\* So does reserving the outputs.
LEMMA ReserveOutputsStep ==
  ASSUME ServiceInv, NEW c \in Clients, ReserveOutputs(c)
  PROVE  ServiceStep(c) /\ ClientSound(c)'
<1>m. PICK m : m = client[c]
  OBVIOUS
<1>1. Started(m) /\ m.p \in Plans
  BY <1>m, Busy DEF ReserveOutputs, At, Started
<1>2. UNCHANGED <<disk, twice>>
  BY DEF ReserveOutputs
<1>3. /\ StoreStep /\ AddsTrueConfirmations
      /\ Outputs(CauseOf(m.op), m.r) \subseteq Receipts(m.p)'
  BY <1>m, <1>1, OutputsReserved DEF ReserveOutputs
<1>4. PICK r : client' = [client EXCEPT ![c] =
                 [m EXCEPT !.step = "link", !.todo = OutputOrder(m.op, m.r), !.r = r]]
  BY <1>m DEF ReserveOutputs
<1>5. PICK g : g = [m EXCEPT !.step = "link", !.todo = OutputOrder(m.op, m.r), !.r = r]
  OBVIOUS
<1>6. /\ Process(g) /\ g.step = "link" /\ g.op = m.op /\ g.p = m.p /\ g.again = m.again
      /\ g.todo = OutputOrder(m.op, m.r)
  <2>1. g = WithBoth(m, "link", OutputOrder(m.op, m.r), r)
    BY <1>5 DEF WithBoth
  <2> QED BY <1>1, <2>1, AdvancedBoth DEF Started, SameOperation
<1>7. Writing(g)'
  <2>1. OutputOrder(m.op, m.r) \in Seq(Outputs(CauseOf(m.op), m.r))
        /\ OutputOrder(m.op, m.r) # <<>>
    BY OutputsListed
  <2>2. OutputOrder(m.op, m.r) \in Seq(Receipts(m.p)')
    BY <1>3, <2>1
  <2>3. g.todo \in Seq(Receipts(g.p)') /\ g.todo # <<>>
    BY <1>6, <2>1, <2>2 DEF Receipts
  <2> QED BY <1>6, <2>3 DEF Writing
<1>8. /\ client' = [d \in Clients |-> client'[d]]
      /\ \A d \in Clients \ {c} : client'[d] = client[d]
      /\ ClientSound(c)'
  BY <1>m, <1>1, <1>4, <1>5, <1>6, <1>7, MovedOn DEF Steps
<1> QED BY <1>2, <1>3, <1>8, StoreOnly

\* A file that is in place takes the process on to its confirmation, or to its next file.
LEMMA WrittenStep ==
  ASSUME ServiceInv, NEW c \in Clients, NEW m, m = client[c],
         Started(m), Writing(m), m.step \in {"link", "unlink"}, Written(c), heads' = heads,
         OnDisk(Head(m.todo))', Head(m.todo).path \notin twice'
  PROVE  /\ client' = [d \in Clients |-> client'[d]]
         /\ \A d \in Clients \ {c} : client'[d] = client[d]
         /\ ClientSound(c)'
<1>1. Process(m) /\ m.todo \in Seq(Receipts(m.p)) /\ m.todo # <<>>
  BY DEF Started, Writing
<1>2. Receipts(m.p)' = Receipts(m.p)
  BY DEF Receipts
<1>3. CASE ~m.again
  <2>1. PICK g : g = WithStep(m, "confirm")
    OBVIOUS
  <2>2. client' = [client EXCEPT ![c] = g]
    BY <1>3, <2>1 DEF Written, Goto, WithStep
  <2>3. Process(g) /\ g.step = "confirm" /\ g.todo = m.todo /\ SameOperation(g, m)
    BY <1>1, <2>1, AdvancedStep
  <2>4. g.op = m.op /\ g.p = m.p /\ g.again = m.again
    BY <2>3 DEF SameOperation
  <2>5. g.todo \in Seq(Receipts(g.p)') /\ g.todo # <<>>
    BY <1>1, <1>2, <2>3, <2>4 DEF Receipts
  <2>6. OnDisk(Head(g.todo))' /\ Head(g.todo).path \notin twice'
    BY <2>3
  <2>7. Writing(g)'
    BY <2>5, <2>6 DEF Writing
  <2> QED BY <2>2, <2>3, <2>4, <2>7, MovedOn DEF Steps
<1>4. CASE m.again /\ Len(m.todo) > 1
  <2>1. PICK g : g = WithList(m, "link", Tail(m.todo))
    OBVIOUS
  <2>2. client' = [client EXCEPT ![c] = g]
    BY <1>4, <2>1 DEF Written, WithList
  <2>3. Process(g) /\ g.step = "link" /\ g.todo = Tail(m.todo) /\ SameOperation(g, m)
    BY <1>1, <2>1, AdvancedList
  <2>4. g.op = m.op /\ g.p = m.p /\ g.again = m.again
    BY <2>3 DEF SameOperation
  <2>5. Tail(m.todo) \in Seq(Receipts(m.p)) /\ Tail(m.todo) # <<>>
    BY <1>1, <1>4, RestOf
  <2>6. g.todo \in Seq(Receipts(g.p)') /\ g.todo # <<>>
    BY <1>2, <2>3, <2>4, <2>5 DEF Receipts
  <2>7. Writing(g)'
    BY <2>3, <2>6 DEF Writing
  <2> QED BY <2>2, <2>3, <2>4, <2>7, MovedOn DEF Steps
<1>5. CASE m.again /\ ~(Len(m.todo) > 1)
  <2>1. client' = [client EXCEPT ![c] = Idle]
    BY <1>5 DEF Written
  <2> QED BY <2>1, Stopped
<1> QED BY <1>3, <1>4, <1>5

\* So does linking a file into place.
LEMMA LinkStep ==
  ASSUME ServiceInv, NEW c \in Clients, Link(c)
  PROVE  ServiceStep(c) /\ ClientSound(c)'
<1>m. PICK m : m = client[c]
  OBVIOUS
<1>a. PICK a : a = Head(m.todo)
  OBVIOUS
<1>1. Started(m) /\ Writing(m) /\ m.step = "link"
  BY <1>m, Busy DEF Link, At
<1>2. UNCHANGED store /\ heads' = heads
  BY DEF Link, store
<1>3. m.todo \in Seq(Receipts(m.p)) /\ m.todo # <<>> /\ m.p \in Plans
  BY <1>1 DEF Writing, Started
<1>4. a \in Receipts(m.p)
  BY <1>3, <1>a
<1>5. CASE /\ a.path \in DOMAIN disk /\ disk[a.path] = a.id /\ a.path \notin twice
           /\ Written(c) /\ UNCHANGED <<disk, twice>>
  <2>1. OnDisk(a)' /\ a.path \notin twice'
    BY <1>5 DEF OnDisk
  <2>2. /\ client' = [d \in Clients |-> client'[d]]
        /\ \A d \in Clients \ {c} : client'[d] = client[d]
        /\ ClientSound(c)'
    BY <1>m, <1>a, <1>1, <1>2, <1>5, <2>1, WrittenStep
  <2> QED BY <1>2, <1>5, <2>2, StoreOnly, NothingConfirmed DEF StoreStep
<1>6. CASE /\ a.path \notin DOMAIN disk
           /\ disk' = [path \in DOMAIN disk \cup {a.path} |->
                         IF path = a.path THEN a.id ELSE disk[path]]
           /\ twice' = twice \cup {a.path} /\ Goto(c, "unlink")
  <2>1. PICK g : g = WithStep(m, "unlink")
    OBVIOUS
  <2>2. client' = [client EXCEPT ![c] = g]
    BY <1>m, <1>6, <2>1 DEF Goto, WithStep
  <2>3. Process(g) /\ g.step = "unlink" /\ g.todo = m.todo /\ SameOperation(g, m)
    BY <1>1, <2>1, AdvancedStep DEF Started
  <2>4. g.op = m.op /\ g.p = m.p /\ g.again = m.again
    BY <2>3 DEF SameOperation
  <2>5. g.todo \in Seq(Receipts(g.p)') /\ g.todo # <<>>
    BY <1>2, <1>3, <2>3, <2>4 DEF Receipts
  <2>6. OnDisk(a)'
    BY <1>6 DEF OnDisk
  <2>7. Writing(g)'
    BY <1>a, <2>3, <2>5, <2>6 DEF Writing
  <2>8. /\ client' = [d \in Clients |-> client'[d]]
        /\ \A d \in Clients \ {c} : client'[d] = client[d]
        /\ ClientSound(c)'
    BY <1>m, <1>1, <2>2, <2>3, <2>4, <2>7, MovedOn DEF Steps
  <2>9. Grows
    BY <1>2, <1>6 DEF Grows, Receipts
  <2>10. AddsReservedFiles
    <3>1. \A path \in DOMAIN disk' \ DOMAIN disk : path = a.path /\ disk'[path] = a.id
      BY <1>6
    <3> QED BY <1>3, <1>4, <3>1 DEF AddsReservedFiles
  <2>11. disk' = [path \in DOMAIN disk' |-> disk'[path]]
    BY <1>6
  <2> QED BY <1>2, <2>8, <2>9, <2>10, <2>11, NothingConfirmed DEF ServiceStep, StoreStep
<1> QED BY <1>m, <1>a, <1>5, <1>6 DEF Link

\* So does removing the temporary name of a linked file.
LEMMA UnlinkStep ==
  ASSUME ServiceInv, NEW c \in Clients, Unlink(c)
  PROVE  ServiceStep(c) /\ ClientSound(c)'
<1>m. PICK m : m = client[c]
  OBVIOUS
<1>1. Started(m) /\ Writing(m) /\ m.step = "unlink"
  BY <1>m, Busy DEF Unlink, At
<1>2. UNCHANGED store /\ heads' = heads /\ disk' = disk /\ Written(c)
  BY DEF Unlink, store
<1>3. twice' = twice \ {Head(m.todo).path}
  BY <1>m DEF Unlink
<1>4. OnDisk(Head(m.todo))' /\ Head(m.todo).path \notin twice'
  BY <1>1, <1>2, <1>3 DEF Writing, OnDisk
<1>5. /\ client' = [d \in Clients |-> client'[d]]
      /\ \A d \in Clients \ {c} : client'[d] = client[d]
      /\ ClientSound(c)'
  BY <1>m, <1>1, <1>2, <1>4, WrittenStep
<1>6. \A path \in twice' : path \in twice
  BY <1>3
<1> QED BY <1>2, <1>5, <1>6, StoreOnly, NothingConfirmed DEF StoreStep

\* So does confirming a file that is in place.
LEMMA ConfirmFileStep ==
  ASSUME ServiceInv, NEW c \in Clients, Confirm(c)
  PROVE  ServiceStep(c) /\ ClientSound(c)'
<1>m. PICK m : m = client[c]
  OBVIOUS
<1>a. PICK a : a = Head(m.todo)
  OBVIOUS
<1>1. Started(m) /\ Writing(m) /\ m.step = "confirm" /\ m.p \in Plans
  BY <1>m, Busy DEF Confirm, At, Started
<1>2. UNCHANGED <<disk, twice>>
  BY DEF Confirm
<1>3. OnDisk(a) /\ a.path \notin twice /\ m.todo \in Seq(Receipts(m.p)) /\ m.todo # <<>>
  BY <1>a, <1>1 DEF Writing
<1>4. StoreStep /\ AddsTrueConfirmations
  <2>1. CASE ConfirmArtifact(m.p, a, m.r.key, m.r.expected, m.r.at)
    <3>1. PICK e : ConfirmingStep(m.p, e, a)
      BY <1>1, <2>1, ConfirmStep
    <3>2. EventStep(m.p, e)
      BY <3>1 DEF EventStep
    <3>3. StoreTyped
      BY DEF ServiceInv, StoreInv
    <3>4. \A b : ConfirmingStep(m.p, e, b) => b = a \/ Confirmed(m.p, b)
      <4> SUFFICES ASSUME NEW b, ConfirmingStep(m.p, e, b), b # a
                   PROVE  FALSE
        OBVIOUS
      <4>1. Row(m.p, heads[m.p])
        BY <1>1, <3>3 DEF StoreTyped, ConfirmingStep
      <4>2. e.receipts[b] = "CONFIRMED" /\ heads[m.p].receipts[b] = "RESERVED"
        BY <4>1 DEF ConfirmingStep, Row
      <4>3. e.receipts[b] = heads[m.p].receipts[b]
        BY <3>1, <4>1 DEF ConfirmingStep, Row
      <4> QED BY <4>2, <4>3
    <3>5. AddsTrueConfirmations
      BY <1>3, <3>2, <3>3, <3>4, ConfirmedAfter DEF AddsTrueConfirmations
    <3> QED BY <1>1, <3>2, <3>5 DEF StoreStep
  <2>2. CASE UNCHANGED store
    BY <2>2, NothingConfirmed DEF StoreStep, store
  <2> QED BY <1>m, <1>a, <2>1, <2>2 DEF Confirm
<1>5. PICK r, step : /\ step \in {"link", "final", "offer"}
                     /\ step = "link" => Len(m.todo) > 1
                     /\ client' = [client EXCEPT ![c] = WithBoth(m, step, Tail(m.todo), r)]
  <2>1. PICK step : step = IF Len(m.todo) > 1 THEN "link"
                           ELSE IF m.op \in Finishers THEN "final" ELSE "offer"
    OBVIOUS
  <2>2. PICK r : client' = [client EXCEPT ![c] =
                   [m EXCEPT !.todo = Tail(m.todo), !.r = r, !.step = step]]
    <3>1. PICK n : client' = [client EXCEPT ![c].todo = Tail(@), ![c].r.expected = n,
                                            ![c].step = step]
      BY <1>m, <2>1 DEF Confirm
    <3>2. PICK r : r = [m.r EXCEPT !.expected = n]
      OBVIOUS
    <3>3. client' = [client EXCEPT ![c] =
                       [m EXCEPT !.todo = Tail(m.todo), !.r = r, !.step = step]]
      BY <1>m, <3>1, <3>2
    <3> QED BY <3>3
  <2>3. [m EXCEPT !.todo = Tail(m.todo), !.r = r, !.step = step] = WithBoth(m, step, Tail(m.todo), r)
    <3>1. PICK m1, m2, m3, m4, m5, m6, m7, m8 :
            m = [step |-> m1, op |-> m2, p |-> m3, s |-> m4, r |-> m5, saw |-> m6,
                 todo |-> m7, again |-> m8]
      BY <1>1 DEF Started, Process
    <3> QED BY <3>1 DEF WithBoth
  <2> QED BY <2>1, <2>2, <2>3
<1>6. PICK g : g = WithBoth(m, step, Tail(m.todo), r)
  OBVIOUS
<1>7. Process(g) /\ g.step = step /\ g.todo = Tail(m.todo) /\ SameOperation(g, m)
  BY <1>1, <1>6, AdvancedBoth DEF Started
<1>8. g.op = m.op /\ g.p = m.p /\ g.again = m.again
  BY <1>7 DEF SameOperation
<1>9. Writing(g)'
  <2>1. CASE step = "link"
    <3>1. Tail(m.todo) \in Seq(Receipts(m.p)) /\ Tail(m.todo) # <<>>
      BY <1>3, <1>5, <2>1, RestOf
    <3>2. Receipts(m.p) \subseteq Receipts(m.p)'
      BY <1>1, <1>4, ReceiptsAfter DEF ServiceInv, StoreInv
    <3>3. Tail(m.todo) \in Seq(Receipts(m.p)')
      BY <3>1, <3>2
    <3>4. g.todo \in Seq(Receipts(g.p)') /\ g.todo # <<>>
      BY <1>7, <1>8, <3>1, <3>3 DEF Receipts
    <3> QED BY <1>7, <2>1, <3>4 DEF Writing
  <2>2. CASE step \in {"final", "offer"}
    BY <1>7, <2>2 DEF Writing
  <2> QED BY <1>5, <2>1, <2>2
<1>10. /\ client' = [d \in Clients |-> client'[d]]
       /\ \A d \in Clients \ {c} : client'[d] = client[d]
       /\ ClientSound(c)'
  BY <1>m, <1>1, <1>5, <1>6, <1>7, <1>8, <1>9, MovedOn DEF Steps
<1> QED BY <1>2, <1>4, <1>10, StoreOnly

\* So does going from the last file to the closure.
LEMMA FinalStep ==
  ASSUME ServiceInv, NEW c \in Clients, FinalOutputs(c)
  PROVE  ServiceStep(c) /\ ClientSound(c)'
<1>m. PICK m : m = client[c]
  OBVIOUS
<1>1. Started(m)
  BY <1>m, Busy DEF FinalOutputs, At
<1>2. UNCHANGED <<store, disk, twice>> /\ heads' = heads
  BY DEF FinalOutputs, store
<1>3. PICK g : g = WithStep(m, "close")
  OBVIOUS
<1>4. client' = [client EXCEPT ![c] = g]
  BY <1>m, <1>3 DEF FinalOutputs, Goto, WithStep
<1>5. Process(g) /\ g.step = "close" /\ SameOperation(g, m)
  BY <1>1, <1>3, AdvancedStep DEF Started
<1>6. Writing(g)'
  BY <1>5 DEF Writing
<1>7. g.op = m.op /\ g.p = m.p /\ g.again = m.again
  BY <1>5 DEF SameOperation
<1>8. /\ client' = [d \in Clients |-> client'[d]]
      /\ \A d \in Clients \ {c} : client'[d] = client[d]
      /\ ClientSound(c)'
  BY <1>m, <1>1, <1>4, <1>5, <1>6, <1>7, MovedOn DEF Steps
<1> QED BY <1>2, <1>8, StoreOnly, NothingConfirmed DEF StoreStep

\* So does the closure.
LEMMA CloseServiceStep ==
  ASSUME ServiceInv, NEW c \in Clients, Close(c)
  PROVE  ServiceStep(c) /\ ClientSound(c)'
<1>m. PICK m : m = client[c]
  OBVIOUS
<1>1. Started(m) /\ m.p \in Plans
  BY <1>m, Busy DEF Close, At, Started
<1>2. UNCHANGED <<disk, twice>> /\ client' = [client EXCEPT ![c] = Idle]
  BY DEF Close
<1>3. /\ client' = [d \in Clients |-> client'[d]]
      /\ \A d \in Clients \ {c} : client'[d] = client[d]
      /\ ClientSound(c)'
  BY <1>2, Stopped
<1>4. StoreStep /\ AddsTrueConfirmations
  <2>1. CASE ConfirmTerminal(m.p, m.r.key, m.op, m.r.expected, m.r.at)
    <3>1. PICK e : EndingStep(m.p, e)
      BY <1>1, <2>1, CloseStep
    <3>2. EventStep(m.p, e) /\ StoreTyped
      BY <3>1 DEF EventStep, ServiceInv, StoreInv
    <3>3. \A b : ~ConfirmingStep(m.p, e, b)
      BY <3>1 DEF EndingStep, ConfirmingStep
    <3>4. AddsTrueConfirmations
      BY <3>2, <3>3, ConfirmedAfter DEF AddsTrueConfirmations
    <3> QED BY <1>1, <3>2, <3>4 DEF StoreStep
  <2>2. CASE UNCHANGED store
    BY <2>2, NothingConfirmed DEF StoreStep, store
  <2> QED BY <1>m, <2>1, <2>2 DEF Close
<1> QED BY <1>2, <1>3, <1>4, StoreOnly

\* Offering, a refusal and a crash leave store and checkout as they are.
LEMMA StopStep ==
  ASSUME ServiceInv, NEW c \in Clients, Offer(c) \/ Refused(c) \/ Crash(c)
  PROVE  ServiceStep(c) /\ ClientSound(c)'
<1>1. UNCHANGED <<store, disk, twice>> /\ client' = [client EXCEPT ![c] = Idle]
  BY DEF Offer, Refused, Crash
<1>2. /\ client' = [d \in Clients |-> client'[d]]
      /\ \A d \in Clients \ {c} : client'[d] = client[d]
      /\ ClientSound(c)'
  BY <1>1, Stopped
<1>3. heads' = heads
  BY <1>1 DEF store
<1> QED BY <1>1, <1>2, <1>3, StoreOnly, NothingConfirmed DEF StoreStep

----------------------------------------------------------------------------
(* What the services promise *)

\* Nothing is published and nobody works at first.
LEMMA ServiceStarts == Init => ServiceInv
<1> SUFFICES ASSUME Init PROVE ServiceInv
  OBVIOUS
<1>1. StoreInv
  BY StoreStarts DEF Init
<1>2. disk = <<>> /\ DOMAIN disk = {} /\ client = [c \in Clients |-> Idle]
  BY DEF Init, InitServices
<1>3. disk = [path \in DOMAIN disk |-> disk[path]]
  BY <1>2
<1>4. \A p \in Plans : Receipts(p) = {}
  BY NoRow DEF Init, InitStore, Receipts
<1>5. ConfirmedIsPublished
  BY <1>4 DEF ConfirmedIsPublished
<1>6. ReservedBeforePublished
  BY <1>2 DEF ReservedBeforePublished
<1>7. client = [c \in Clients |-> client[c]] /\ \A c \in Clients : ClientSound(c)
  BY <1>2 DEF ClientSound
<1> QED BY <1>1, <1>3, <1>5, <1>6, <1>7 DEF ServiceInv

\* Every step of the publication is one of its processes', or of none of them.
LEMMA AnyServiceStep ==
  ASSUME ServiceInv, [Next]_vars
  PROVE  \E c : ServiceStep(c) /\ (c \in Clients => ClientSound(c)')
<1>1. ASSUME NEW c \in Clients, Start(c) \/ Working(c) \/ Refused(c) \/ Crash(c)
      PROVE  ServiceStep(c) /\ ClientSound(c)'
  BY <1>1, LookKeeps, TickStep, CheckStep, ReserveOutputsStep, LinkStep, UnlinkStep,
     ConfirmFileStep, FinalStep, CloseServiceStep, StopStep DEF Working
<1>2. ASSUME HostTick \/ UNCHANGED store, UNCHANGED <<disk, twice, client>>
      PROVE  \E c : ServiceStep(c) /\ c \notin Clients
  <2>1. StoreStep /\ heads' = heads
    BY <1>2 DEF StoreStep, HostTick, store
  <2>2. PICK c : c \notin Clients
    <3>1. {x \in Clients : x \notin x} \notin Clients
      OBVIOUS
    <3> QED BY <3>1
  <2>3. ServiceStep(c)
    BY <1>2, <2>1, StoreOnly, NothingConfirmed DEF ServiceInv
  <2> QED BY <2>2, <2>3
<1>3. CASE Host
  BY <1>2, <1>3 DEF Host, services
<1>4. CASE UNCHANGED vars
  BY <1>2, <1>4 DEF vars, services
<1> QED BY <1>1, <1>3, <1>4 DEF Next

\* So every step keeps the invariant.
LEMMA ServiceNext ==
  ASSUME ServiceInv, [Next]_vars
  PROVE  ServiceInv'
<1>1. PICK c : ServiceStep(c) /\ (c \in Clients => ClientSound(c)')
  BY AnyServiceStep
<1> QED BY <1>1, ServiceKept

\* Every behaviour of the services, whoever crashes and wherever, keeps the invariant.
THEOREM ServiceInvariant == Safety => []ServiceInv
<1>1. Init => ServiceInv
  BY ServiceStarts
<1>2. ServiceInv /\ [Next]_vars => ServiceInv'
  BY ServiceNext
<1> QED BY <1>1, <1>2, PTL DEF Safety

\* A confirmed receipt is evidence that the file is there, with that content and one
\* link: publication precedes confirmation whatever crashes, races and retries.
THEOREM ConfirmedFilesExist == Safety => []ConfirmedIsPublished
<1>1. ServiceInv => ConfirmedIsPublished
  BY DEF ServiceInv
<1> QED BY <1>1, ServiceInvariant, PTL

\* No file is published that the store did not reserve first.
THEOREM FilesAreReserved == Safety => []ReservedBeforePublished
<1>1. ServiceInv => ReservedBeforePublished
  BY DEF ServiceInv
<1> QED BY <1>1, ServiceInvariant, PTL

\* Nor does the store break its promises under the services that really call it, with
\* their own order of calls and their crashes (run, resume, finish, supersede, recover).
THEOREM PromisesUnderServices ==
  Safety => [](Replayed /\ LinearHistory /\ Isolated /\ BoundOnce)
<1>1. ServiceInv => Replayed /\ LinearHistory /\ Isolated /\ BoundOnce
  BY StorePromises DEF ServiceInv
<1> QED BY <1>1, ServiceInvariant, PTL

\* A reserved receipt and a published file are for good: no call, retry or recovery
\* removes a file or puts another in its place, or drops a receipt (publish_idempotent).
THEOREM NothingIsTakenBack == Safety => [][Grows]_vars
<1>1. ServiceInv /\ [Next]_vars => [Grows]_vars
  <2> SUFFICES ASSUME ServiceInv, [Next]_vars
               PROVE  Grows
    OBVIOUS
  <2> QED BY AnyServiceStep DEF ServiceStep
<1> QED BY <1>1, ServiceInvariant, PTL DEF Safety
=============================================================================
