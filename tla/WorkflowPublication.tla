------------------------ MODULE WorkflowPublication ------------------------
(***************************************************************************)
(* The services that write workflow artifacts: publish_plan, run/resume    *)
(* (advance), the Outcome and supersession finishers and recovery, each    *)
(* run by a client process over the epoch store and the shared checkout.   *)
(* A store call is one step, and so is each file-system effect that        *)
(* another process, or a crash, can fall between.                          *)
(*                                                                         *)
(* Files are written by linking a flushed temporary file into place and    *)
(* unlinking it: between the two the output has two links, and a process   *)
(* that dies leaves either the temporary (litter) or both links.           *)
(***************************************************************************)
EXTENDS WorkflowEpochs

CONSTANTS
  Clients,      \* service processes
  Runs,         \* Clients -> the operations each process is asked to run, and where
  MaxCrashes,   \* crashes the model lets happen
  TornPublish   \* whether a crash may fall inside one publish() call

ASSUME PublicationBounds == MaxCrashes \in Nat /\ TornPublish \in BOOLEAN
ASSUME ClientsRun == Runs \in [Clients -> SUBSET
  ({"workflow-plan", "workflow-advance", "workflow-recover", "workflow-outcome",
    "workflow-supersede"} \X Slots)]

VARIABLES
  disk,         \* path -> identity of the canonical bytes there
  twice,        \* outputs that still have their temporary's link
  litter,       \* a temporary that was never linked was left behind
  client,       \* each process's place in its operation
  offered,      \* State identities whose intents went to a host
  crashes

services == <<disk, twice, litter, client, offered, crashes>>
vars == <<store, services>>

Finishers == {"workflow-outcome", "workflow-supersede"}
CauseOf(op) == CASE op = "workflow-plan" -> "EPOCH_OPENED"
                 [] op \in Finishers -> "TERMINAL_RESERVED"
                 [] OTHER -> "TRANSITION_RESERVED"
Idle == [step |-> "idle"]
At(c, step) == client[c].step = step
Goto(c, step) == client' = [client EXCEPT ![c].step = step]

----------------------------------------------------------------------------
(* The publication observation *)

Receipts(p) == DOMAIN heads[p].receipts
\* Bytes a receipt accounts for: one path, its identity, one link.  Temporaries
\* are untracked files no receipt names, so they change the Candidate digest.
Accounted(path) ==
  /\ path \notin twice
  /\ \E p \in Plans : \E a \in Receipts(p) :
        /\ a.path = path /\ a.id = disk[path]
        /\ \A q \in Plans : \A b \in Receipts(q) : b.path = path => <<p, a>> = <<q, b>>
Observable == ~litter /\ \A path \in DOMAIN disk : Accounted(path)
Snapshot == <<sched, heads, disk>>

\* _receipt_retry_phase_is_admissible
M_RetryPhase(p, a) == a.type = "plan" /\ heads[p].receipts[a] = "CONFIRMED"
RetryPhase(p, a) ==
  \/ heads[p].phase \in Terminal
  \/ a.type = "plan" /\ heads[p].receipts[a] = "CONFIRMED"
\* classify_output_paths: an output that exists must be a retry's own.
Classified(p, paths) ==
  \A path \in paths \cap DOMAIN disk :
     /\ path \notin twice
     /\ \E a \in Receipts(p) : a.path = path /\ RetryPhase(p, a) /\ disk[path] = a.id
\* preflight_outputs: the same, for the exact identities about to be reserved.
Preflight(p, outputs) ==
  /\ Classified(p, {a.path : a \in outputs})
  /\ \A a \in outputs : a.path \in DOMAIN disk => a \in Receipts(p)

----------------------------------------------------------------------------
(* One client's operation *)

\* A State identity carries what the service derived it from.
SchedOf(s) == s.id[2].sched
Closing(s) == s.producer \in Finishers
States(p) == {a \in Receipts(p) : a.type = "state"}
\* The source State, with the Event published for it, loads from the checkout.
Loads(s) ==
  /\ s.path \in DOMAIN disk /\ disk[s.path] = s.id
  /\ \E e \in DOMAIN disk : disk[e] = <<"event", s.id[2]>>
Ticks(op, s) == op = "workflow-advance" /\ (s = NoArtifact \/ SchedOf(s) = sched)

Key(op, p, s, slot) ==
  CASE op = "workflow-plan" -> <<op, p, slot>>
    [] op \in Finishers -> <<op, p, s.id>>
    [] OTHER -> <<op, p, s.id, sched>>
Request(op, p, s, slot, at) ==
  [sched |-> sched, key |-> Key(op, p, s, slot), producer |-> op, at |-> at, pred |-> None,
   source |-> s.id, expected |-> HeadN(p), slot |-> slot,
   name |-> IF op = "workflow-plan" THEN p
            ELSE [op |-> op, source |-> s.id, sched |-> sched, at |-> at]]

\* What each operation requires of the head it finds, and the time it records.
PinnedRequest(op, p, s) ==
  heads[p].source = s.id /\ heads[p].key = Key(op, p, s, None) /\ heads[p].producer = op
MayPlan(p, s) == s = NoArtifact
MayAdvance(p, s) ==
  /\ Opened(p) /\ heads[p].phase \notin Terminal
  /\ heads[p].state = s
MayFinish(op, p, s, at) ==
  /\ s # NoArtifact /\ Opened(p)
  /\ SchedOf(s) = sched
  /\ heads[p].phase \in Terminal => PinnedRequest(op, p, s) /\ at = heads[p].terminal_at
MayPublishOutcome(p, s, at) == MayFinish("workflow-outcome", p, s, at)
MaySupersede(p, s, at) == MayFinish("workflow-supersede", p, s, at)
MayRecover(p, s, at) ==
  /\ s # NoArtifact /\ Opened(p)
  /\ PinnedRequest("workflow-recover", p, s) => at = heads[p].at
Admits(op, p, s, at) ==
  /\ s # NoArtifact => Loads(s) /\ ~Closing(s)
  /\ CASE op = "workflow-plan" -> MayPlan(p, s)
       [] op = "workflow-advance" -> MayAdvance(p, s)
       [] op = "workflow-outcome" -> MayPublishOutcome(p, s, at)
       [] op = "workflow-supersede" -> MaySupersede(p, s, at)
       [] op = "workflow-recover" -> MayRecover(p, s, at)
OutputsAt(op, slot) == {<<t, slot>> : t \in OutputTypes(CauseOf(op))}

\* classify, observe, read the head and derive what will be published; run/resume
\* ticks the scheduler in between and observes again.
Look(c, op, p, s, slot, at) ==
  /\ At(c, "idle")
  /\ op # "workflow-plan" => Opened(p)
  /\ op # "workflow-recover" => Classified(p, OutputsAt(op, slot))
  /\ Observable
  /\ Admits(op, p, s, at)
  /\ client' = [client EXCEPT ![c] =
       [step |-> IF Ticks(op, s) THEN "tick" ELSE "check", op |-> op, p |-> p, s |-> s,
        r |-> Request(op, p, s, slot, at), saw |-> Snapshot, todo |-> <<>>,
        again |-> op = "workflow-recover" /\ PinnedRequest(op, p, s)]]
  /\ UNCHANGED <<store, disk, twice, litter, offered, crashes>>

\* SchedulerService.tick: a quiet one appends nothing.
Derived(c) ==
  LET m == client[c]
  IN  [m EXCEPT !.step = "check", !.saw = <<sched', heads, disk>>,
                !.r = [Request(m.op, m.p, m.s, m.r.slot, m.r.at) EXCEPT !.sched = sched',
                        !.key = <<m.op, m.p, m.s.id, sched'>>, !.name.sched = sched']]
Tick(c) ==
  /\ At(c, "tick")
  /\ MayMutate /\ Observable
  /\ HostTick \/ UNCHANGED store
  /\ client' = [client EXCEPT ![c] = Derived(c)]
  /\ UNCHANGED <<disk, twice, litter, offered, crashes>>

\* Event, State, Outcome (or the Plan) are published and confirmed in this order.
OutputOrder(op, r) ==
  LET all == Outputs(CauseOf(op), r)
      OfType(t) == CHOOSE a \in all : a.type = t
  IN  CASE op = "workflow-plan" -> <<OfType("plan")>>
        [] op \in Finishers -> <<OfType("event"), OfType("state"), OfType("outcome")>>
        [] OTHER -> <<OfType("event"), OfType("state")>>

\* revalidate and preflight.  run, resume and recover read the head again here,
\* and recover checks nothing else.  A recovery whose request the head already
\* carries only writes its files again: it has nothing to reserve or confirm.
Revalidated(m) == Snapshot = m.saw /\ Observable
                  /\ Preflight(m.p, Outputs(CauseOf(m.op), m.r))
CheckPasses(m) ==
  CASE m.again -> Outputs("TRANSITION_RESERVED", m.r) = {heads[m.p].event, heads[m.p].state}
    [] m.op = "workflow-recover" /\ ~m.again -> heads[m.p].state = m.s
    [] OTHER -> Revalidated(m)
M_Check(c) ==
  LET m == client[c]
  IN  /\ At(c, "check") /\ CheckPasses(m)
      /\ client' = [client EXCEPT ![c] =
           IF m.op = "workflow-recover"
           THEN [m EXCEPT !.step = "link", !.todo = OutputOrder(m.op, m.r)]
           ELSE [m EXCEPT !.step = "reserve",
                          !.r.expected = IF m.op \in Finishers THEN @ ELSE HeadN(m.p)]]
      /\ UNCHANGED <<store, disk, twice, litter, offered, crashes>>
Check(c) ==
  LET m == client[c]
  IN  /\ At(c, "check") /\ CheckPasses(m)
      /\ client' = [client EXCEPT ![c] =
           IF m.again
           THEN [m EXCEPT !.step = "link", !.todo = OutputOrder(m.op, m.r)]
           ELSE [m EXCEPT !.step = "reserve",
                          !.r.expected = IF m.op \in Finishers THEN @ ELSE HeadN(m.p)]]
      /\ UNCHANGED <<store, disk, twice, litter, offered, crashes>>

M_ReserveOutputs(c) ==
  LET m == client[c]
  IN  /\ At(c, "reserve")
      /\ IF m.op = "workflow-plan"
         THEN \/ OpenEpoch(m.p, m.r)
              \/ Reopens(m.p, m.r) /\ UNCHANGED store
         ELSE \/ RoomIn(m.p) /\ Reserve(m.p, CauseOf(m.op), m.r)
              \/ Repeats(m.p, CauseOf(m.op), m.r) /\ UNCHANGED store
      /\ client' = [client EXCEPT ![c].step = "confirm", ![c].todo = OutputOrder(m.op, m.r),
                                  ![c].r.expected = heads'[m.p].n]
      /\ UNCHANGED <<disk, twice, litter, offered, crashes>>
ReserveOutputs(c) ==
  LET m == client[c]
  IN  /\ At(c, "reserve")
      /\ IF m.op = "workflow-plan"
         THEN \/ OpenEpoch(m.p, m.r)
              \/ Reopens(m.p, m.r) /\ UNCHANGED store
         ELSE \/ RoomIn(m.p) /\ Reserve(m.p, CauseOf(m.op), m.r)
              \/ Repeats(m.p, CauseOf(m.op), m.r) /\ UNCHANGED store
      /\ client' = [client EXCEPT ![c].step = "link", ![c].todo = OutputOrder(m.op, m.r),
                                  ![c].r.expected = heads'[m.p].n]
      /\ UNCHANGED <<disk, twice, litter, offered, crashes>>

\* publish_idempotent: keep an exact earlier output, or link a new one.
Written(c) ==
  IF ~client[c].again THEN Goto(c, "confirm")
  ELSE IF Len(client[c].todo) > 1
  THEN client' = [client EXCEPT ![c].step = "link", ![c].todo = Tail(@)]
  ELSE client' = [client EXCEPT ![c] = Idle]
Link(c) ==
  LET a == Head(client[c].todo)
  IN  /\ At(c, "link")
      /\ \/ /\ a.path \in DOMAIN disk /\ disk[a.path] = a.id /\ a.path \notin twice
            /\ Written(c)
            /\ UNCHANGED <<disk, twice>>
         \/ /\ a.path \notin DOMAIN disk
            /\ disk' = [path \in DOMAIN disk \cup {a.path} |->
                          IF path = a.path THEN a.id ELSE disk[path]]
            /\ twice' = twice \cup {a.path}
            /\ Goto(c, "unlink")
      /\ UNCHANGED <<store, litter, offered, crashes>>
Unlink(c) ==
  /\ At(c, "unlink")
  /\ twice' = twice \ {Head(client[c].todo).path}
  /\ Written(c)
  /\ UNCHANGED <<store, disk, litter, offered, crashes>>
Confirm(c) ==
  LET m == client[c]
      a == Head(m.todo)
  IN  /\ At(c, "confirm")
      /\ \/ ConfirmArtifact(m.p, a, m.r.key, m.r.expected, m.r.at)
         \/ Reconfirms(m.p, a, m.r.key) /\ UNCHANGED store
      /\ client' = [client EXCEPT ![c].todo = Tail(@), ![c].r.expected = heads'[m.p].n,
           ![c].step = IF Len(m.todo) > 1 THEN "link"
                       ELSE IF m.op \in Finishers THEN "final" ELSE "offer"]
      /\ UNCHANGED <<disk, twice, litter, offered, crashes>>

\* confirm_outputs: observe afresh before the terminal confirmation.
FinalPasses(m) ==
  LET outputs == Outputs(CauseOf(m.op), m.r)
  IN  /\ Observable /\ Preflight(m.p, outputs)
      /\ \A a \in outputs : a.path \in DOMAIN disk /\ heads[m.p].receipts[a] = "CONFIRMED"
FinalOutputs(c) ==
  /\ At(c, "final") /\ FinalPasses(client[c])
  /\ Goto(c, "close")
  /\ UNCHANGED <<store, disk, twice, litter, offered, crashes>>
Close(c) ==
  LET m == client[c]
  IN  /\ At(c, "close")
      /\ \/ ConfirmTerminal(m.p, m.r.key, m.op, m.r.expected, m.r.at)
         \/ Recloses(m.p, m.r.key, m.op, m.r.at) /\ UNCHANGED store
      /\ client' = [client EXCEPT ![c] = Idle]
      /\ UNCHANGED <<disk, twice, litter, offered, crashes>>

\* _offer_agent_intents: only run and resume have a host to offer to.
Offer(c) ==
  LET m == client[c]
  IN  /\ At(c, "offer")
      /\ offered' = IF m.op = "workflow-advance"
                    THEN offered \cup {<<m.p, <<"state", m.r.name>>>>} ELSE offered
      /\ client' = [client EXCEPT ![c] = Idle]
      /\ UNCHANGED <<store, disk, twice, litter, crashes>>

\* A step that the store or the file system refuses ends the operation, and so
\* does a crash, wherever it falls.
Working(c) == \/ Tick(c) \/ Check(c) \/ ReserveOutputs(c) \/ Link(c) \/ Unlink(c)
              \/ Confirm(c) \/ FinalOutputs(c) \/ Close(c) \/ Offer(c)
Proceeds(c) ==
  LET m == client[c]
      a == Head(m.todo)
  IN  CASE m.step = "tick" -> MayMutate /\ Observable
        [] m.step = "check" -> CheckPasses(m)
        [] m.step = "reserve" ->
             IF m.op = "workflow-plan" THEN Opens(m.p, m.r) \/ Reopens(m.p, m.r)
             ELSE Reserves(m.p, CauseOf(m.op), m.r) \/ Repeats(m.p, CauseOf(m.op), m.r)
        [] m.step = "link" -> a.path \in DOMAIN disk => disk[a.path] = a.id /\ a.path \notin twice
        [] m.step = "confirm" -> \/ Confirms(m.p, a, m.r.key, m.r.expected, m.r.at)
                                 \/ Reconfirms(m.p, a, m.r.key)
        [] m.step = "final" -> FinalPasses(m)
        [] m.step = "close" -> \/ Closes(m.p, m.r.key, m.op, m.r.expected, m.r.at)
                               \/ Recloses(m.p, m.r.key, m.op, m.r.at)
        [] OTHER -> TRUE
Refused(c) ==
  /\ ~At(c, "idle") /\ ~Proceeds(c)
  /\ client' = [client EXCEPT ![c] = Idle]
  /\ UNCHANGED <<store, disk, twice, litter, offered, crashes>>
Crash(c) ==
  /\ ~At(c, "idle") /\ crashes < MaxCrashes
  /\ At(c, "unlink") => TornPublish
  /\ litter' \in IF TornPublish /\ At(c, "link") THEN {litter, TRUE} ELSE {litter}
  /\ client' = [client EXCEPT ![c] = Idle]
  /\ crashes' = crashes + 1
  /\ UNCHANGED <<store, disk, twice, offered>>

Start(c) == \E run \in Runs[c], p \in Plans, at \in Times :
  \E s \in {NoArtifact} \cup States(p) : Look(c, run[1], p, s, run[2], at)

InitServices ==
  /\ disk = <<>> /\ twice = {} /\ litter = FALSE
  /\ client = [c \in Clients |-> Idle]
  /\ offered = {} /\ crashes = 0

Init == InitStore /\ InitServices
Host == HostTick /\ UNCHANGED services
Next ==
  \/ Host
  \/ \E c \in Clients : Start(c) \/ Working(c) \/ Refused(c) \/ Crash(c)

\* Processes that keep running, and operators who keep retrying: the exact request a
\* pending terminal admits, or any resume and recovery.
Retry(c) == \E p \in Pending(heads) :
  LET h == heads[p]
  IN  \E s \in {a \in States(p) : a.id = h.source} :
        Look(c, h.producer, p, s, h.outcome.path[2], h.terminal_at)
Resume(c) == \E p \in Plans, slot \in Slots, at \in Times :
  \E op \in {"workflow-advance", "workflow-recover"}, s \in {NoArtifact} \cup States(p) :
    Look(c, op, p, s, slot, at)
\* (Returns says that no call hangs: since some step of a started operation, or its
\* refusal, is always enabled, it is weak fairness of those steps.)
Safety == Init /\ [][Next]_vars
Returns == \A c \in Clients : []<>At(c, "idle")
Spec == Safety /\ Returns /\ \A c \in Clients : SF_vars(Retry(c))
ResumedSpec == Safety /\ Returns /\ \A c \in Clients : SF_vars(Resume(c))
=============================================================================
