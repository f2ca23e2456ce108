-------------------------- MODULE WorkflowRuntime --------------------------
(***************************************************************************)
(* M8: what a workflow says of the scheduler it runs on.  A State is       *)
(* derived from a prefix of the scheduler's history, from the artifacts    *)
(* that completed tasks bound as evidence and from the files as git sees   *)
(* them; an Event says how one State became the next.  Nothing is read     *)
(* back on trust: every call rederives every State of the chain and        *)
(* reproduces every Event, and refuses when one differs.                   *)
(*                                                                         *)
(* WorkflowPublication has the crashes between the writes of one call;     *)
(* here a call is one step and the question is what the calls say.         *)
(***************************************************************************)
EXTENDS Naturals, Sequences, FiniteSets, SequencesExt

CONSTANTS
  Plans,        \* records [tasks, kind, evidence, effects, gates, profile, covers, ui,
                \* solvers, blocking]; see the operators below
  MaxHistory, MaxChain   \* bounds of the model

VARIABLES
  plan,         \* the Integrated Plan
  tree,         \* 0 while the files are the Plan's candidate, 1 after they changed
  history,      \* scheduler projections by event sequence: [state, consumed]
  chain,        \* the workflow's Events, each with the State that adopts it
  outcome       \* the confirmed Outcome's disposition: <<>> or <<disposition>>

runtimeVars == <<plan, tree, history, chain, outcome>>

Tasks == plan.tasks
Current == Len(history)
\* _task_projections: a task's state, and the codes of its blockers
StateOf(h, t) ==
  CASE h.state[t] = "waiting" -> "BLOCKED"
    [] h.state[t] = "unknown" -> "BLOCKED"
    [] OTHER -> h.state[t]
Codes(h, t) == CASE h.state[t] = "waiting" -> {"approval-required"}
                 [] h.state[t] = "unknown" -> {"lease-expired-ambiguous"}
                 [] OTHER -> {}
Completed(h) == {t \in Tasks : StateOf(h, t) = "COMPLETED"}
AllComplete(h) == Completed(h) = Tasks
\* _ambiguities
Ambiguous(h) == \E t \in Tasks : h.state[t] = "unknown"

----------------------------------------------------------------------------
(* _derive_native_observations: evidence of completed tasks, [type, good, fresh] *)

Items(h) == IF plan.profile = "plan-only" THEN {}
            ELSE UNION {{[task |-> t, item |-> i] : i \in plan.evidence[t]} : t \in Completed(h)}
Of(h, type) == {x \in Items(h) : x.item.type = type}
Good(h, type) == \A x \in Of(h, type) : x.item.good
One(h, type) == Cardinality(Of(h, type)) = 1
Slots == {"handoff", "manifest", "ui", "rc"}
SolverTypes(t) == {i.type : i \in plan.evidence[t]}
\* An accepted result whose artifacts do not validate stops every derivation.
Adoptable(h) ==
  /\ \A x \in Items(h) : x.item.fresh
  /\ \A s \in Slots : Cardinality(Of(h, s)) <= 1
  /\ plan.profile # "plan-only" =>
       \A t \in Completed(h) : plan.kind[t] = "solver" =>
         SolverTypes(t) = {"solver-result", "solver-verification"}
G2Passes(h) == Of(h, "ledger") # {} /\ Good(h, "ledger")
G3Passes(h, tr) == Of(h, "review") # {} /\ Good(h, "review") /\ tr \in plan.covers
G4Passes(h, tr) ==
  /\ \A s \in {"ledger", "review", "manifest", "ui", "rc"} : One(h, s) /\ Good(h, s)
  /\ G3Passes(h, tr) /\ tr = 0

\* _derive_gates
GateOf(g, h, tr) ==
  IF g = "G1" THEN IF plan.blocking = {} THEN "PASS" ELSE "FAIL"
  ELSE IF /\ AllComplete(h)
          /\ g = "G2" => G2Passes(h) /\ Of(h, "handoff") # {} /\ Good(h, "handoff")
          /\ g = "G3" => G3Passes(h, tr)
          /\ g = "G4" => G4Passes(h, tr)
       THEN "PASS" ELSE "NOT_VERIFIED"
GatesOf(h, tr) == [g \in plan.gates |-> GateOf(g, h, tr)]
\* _derive_blockers
BlockersOf(h, tr) ==
  plan.blocking
    \cup UNION {Codes(h, t) : t \in Tasks}
    \cup (IF Ambiguous(h) THEN {"external-effect-ambiguous"} ELSE {})
    \cup (IF ~ AllComplete(h) THEN {}
          ELSE {g \in plan.gates : GateOf(g, h, tr) # "PASS"}
               \cup (IF plan.ui /\ ("G4" \in plan.gates => GateOf("G4", h, tr) # "PASS")
                     THEN {"ui-evidence-unavailable"} ELSE {}))
\* _derive_status: the first of these that holds
StatusOf(h, tr) ==
  LET states == {StateOf(h, t) : t \in Tasks} IN
  IF plan.profile = "plan-only"
  THEN IF BlockersOf(h, tr) # {} THEN "BLOCKED" ELSE "COMPLETED"
  ELSE IF "REJECTED" \in states THEN "REJECTED"
  ELSE IF Ambiguous(h) \/ "BLOCKED" \in states THEN "BLOCKED"
  ELSE IF AllComplete(h) THEN IF BlockersOf(h, tr) # {} THEN "BLOCKED" ELSE "COMPLETED"
  ELSE IF "RUNNING" \in states THEN "RUNNING" ELSE "READY"

\* _derive_measurements
Resumes(causes) == SelectSeq(causes, LAMBDA c : c \notin
  {"RUNTIME_STARTED", "RECOVERY_OBSERVED", "PLAN_SUPERSEDED", "OUTCOME_PRODUCED"})
Scheduling(h) ==
  [completed |-> Cardinality(Completed(h)),
   blocked   |-> Cardinality({t \in Tasks : StateOf(h, t) = "BLOCKED"})]
Adopted(h) ==
  [solved    |-> Cardinality(Of(h, "solver-verification")),
   claims    |-> IF Of(h, "ledger") = {} THEN <<>> ELSE <<Cardinality(Of(h, "ledger"))>>,
   handoffs  |-> IF Of(h, "handoff") = {} THEN <<>> ELSE <<1>>]
Recovery(causes, ambiguous) ==
  [resumed   |-> Len(Resumes(causes)),
   recovered |-> Len(SelectSeq(causes, LAMBDA c : c = "RECOVERY_OBSERVED")),
   ambiguous |-> IF ambiguous THEN 1 ELSE 0]
Approval(h) ==
  [consumed  |-> Cardinality(h.consumed),
   pending   |-> Cardinality({t \in Tasks : "approval-required" \in Codes(h, t)})]
MeasuresOf(h, causes, ambiguous) ==
  [scheduling |-> Scheduling(h), evidence |-> Adopted(h),
   recovery |-> Recovery(causes, ambiguous), approval |-> Approval(h)]

\* _derive_state: of a native prefix h, at n, the files and the causes of the chain
Derived(n, h, tr, causes) ==
  [native |-> n, status |-> StatusOf(h, tr),
   tasks |-> [t \in Tasks |-> <<StateOf(h, t), Codes(h, t)>>],
   observed |-> Items(h), gates |-> GatesOf(h, tr), blockers |-> BlockersOf(h, tr),
   ambiguous |-> Ambiguous(h), approvals |-> h.consumed,
   measures |-> MeasuresOf(h, causes, Ambiguous(h)), successor |-> FALSE,
   count |-> Len(causes)]
\* _observation_state: blocked by the cause a caller observed, and by that alone
Closing(n, h, tr, cause) ==
  LET ambiguous == cause = "external-effect-ambiguous" IN
  [Derived(n, h, tr, <<"GATE_EVALUATED">>) EXCEPT
     !.status = "BLOCKED", !.blockers = {cause}, !.ambiguous = ambiguous,
     !.measures = MeasuresOf(h, <<"GATE_EVALUATED">>, ambiguous)]
\* Mutant: a superseded State drops what its predecessor left open.
M_Superseded(s) ==
  [s EXCEPT !.status = "SUPERSEDED", !.blockers = {"predecessor-superseded"},
            !.successor = TRUE, !.ambiguous = FALSE, !.count = @ + 1]
\* what a terminal Event makes of its prior State
Superseded(s) ==
  [s EXCEPT !.status = "SUPERSEDED", !.blockers = @ \cup {"predecessor-superseded"},
            !.successor = TRUE, !.count = @ + 1]
Closed(s) == [s EXCEPT !.count = @ + 1]

----------------------------------------------------------------------------
(* Events.  An identity an Event binds is a pair <<kind, which>>.           *)

Newest == chain[Len(chain)].state
Causes == [k \in 1..Len(chain) |-> chain[k].event.cause]
Prior == IF chain = <<>> THEN {} ELSE {<<"state", Len(chain)>>, <<"event", Len(chain)>>}
Ids(kind, ids) == {x[2] : x \in {y \in ids : y[1] = kind}}

\* Mutant: a waiting approval is looked at before the ambiguity.
M_EventCause(h, first, protected, approvals) ==
  IF \E t \in Tasks : "approval-required" \in Codes(h, t) THEN "APPROVAL_BLOCKED"
  ELSE IF Ambiguous(h) THEN "AMBIGUITY_RECORDED"
  ELSE IF first THEN "RUNTIME_STARTED" ELSE "SCHEDULER_ADVANCED"
\* _event_cause
EventCause(h, first, protected, approvals) ==
  IF Ambiguous(h) THEN "AMBIGUITY_RECORDED"
  ELSE IF \E t \in Tasks : "approval-required" \in Codes(h, t) THEN "APPROVAL_BLOCKED"
  ELSE IF protected # {} /\ approvals # {} THEN "APPROVAL_REVALIDATED"
  ELSE IF first THEN "RUNTIME_STARTED" ELSE "SCHEDULER_ADVANCED"
Effect(ambiguous, protected, cause) ==
  IF ambiguous THEN "AMBIGUOUS"
  ELSE IF protected # {} THEN "REVALIDATED"
  ELSE IF cause = "APPROVAL_BLOCKED" THEN "BLOCKED" ELSE "NOT_APPLICABLE"
\* _transition_reason_codes
Reasons(cause, protected, approvals, ambiguous) ==
  {cause, "no-host-dispatch"}
    \cup (IF protected # {} THEN {"protected-effect-revalidated"} ELSE {})
    \cup (IF approvals # {} THEN {"approval-revalidated"} ELSE {})
    \cup (IF ambiguous THEN {"external-effect-ambiguous"} ELSE {})

\* _transition: scheduler at `from` before the call, at `to` (h) after its tick, which sent
\* messages to the tasks `sent`
RegularEvent(from, to, h, sent) ==
  LET first     == chain = <<>>
      protected == {t \in sent : plan.kind[t] = "protected"}
      approvals == protected \cap h.consumed
      cause     == EventCause(h, first, protected, approvals)
      ambiguous == Ambiguous(h)
  IN [cause |-> cause, actor |-> "runtime",
      before |-> IF first THEN "PLANNED" ELSE Newest.status,
      after |-> StatusOf(h, tree),
      headBefore |-> IF ~ first /\ from # Newest.native THEN Newest.native ELSE from,
      headAfter |-> to,
      effect |-> Effect(ambiguous, protected, cause),
      in |-> {<<"plan", 1>>, <<"native", from>>} \cup Prior,
      out |-> {<<"native", to>>} \cup {<<"message", t>> : t \in sent}
                \cup {<<"effect", t>> : t \in protected}
                \cup {<<"approval", t>> : t \in approvals},
      reasons |-> Reasons(cause, protected, approvals, ambiguous),
      source |-> Len(chain)]
\* recover: reads the native State it finds, ticks nothing
RecoveryEvent ==
  LET ambiguous == Newest.ambiguous \/ Ambiguous(history[Current]) IN
  [cause |-> "RECOVERY_OBSERVED", actor |-> "recovery",
   before |-> Newest.status, after |-> StatusOf(history[Current], tree),
   headBefore |-> Newest.native, headAfter |-> Current,
   effect |-> IF ambiguous THEN "AMBIGUOUS" ELSE "NOT_APPLICABLE",
   in |-> {<<"plan", 1>>, <<"native", Current>>} \cup Prior, out |-> {<<"native", Current>>},
   reasons |-> {"recovery-observed", "source-preserved"}
                 \cup (IF ambiguous THEN {"external-effect-ambiguous"} ELSE {}),
   source |-> Len(chain)]
\* finalize_observation
ObservationEvent(cause) ==
  [cause |-> "GATE_EVALUATED", actor |-> "finalizer",
   before |-> "PLANNED", after |-> "BLOCKED", headBefore |-> Current, headAfter |-> Current,
   effect |-> IF cause = "external-effect-ambiguous" THEN "AMBIGUOUS" ELSE "BLOCKED",
   in |-> {<<"plan", 1>>, <<"native", Current>>, <<"source", cause>>},
   out |-> {<<"native", Current>>}, reasons |-> {"native-observation-closed", cause},
   source |-> 0]
\* supersede and WorkflowOutcomeService.publish
TerminalEvent(s, actor) ==
  LET superseding == actor = "supersession" IN
  [cause |-> IF superseding THEN "PLAN_SUPERSEDED" ELSE "OUTCOME_PRODUCED", actor |-> actor,
   before |-> s.state.status, after |-> IF superseding THEN "SUPERSEDED" ELSE s.state.status,
   headBefore |-> s.state.native, headAfter |-> s.state.native,
   effect |-> IF s.state.ambiguous THEN "AMBIGUOUS" ELSE "NOT_APPLICABLE",
   in |-> {<<"plan", 1>>, <<"native", s.state.native>>,
           <<"state", s.state.count>>, <<"event", s.state.count>>}
            \cup (IF superseding THEN {<<"intent", 1>>} ELSE {}),
   out |-> IF superseding THEN {<<"native", s.state.native>>} ELSE {},
   reasons |-> IF ~ superseding THEN {"outcome-produced"}
               ELSE {"plan-superseded", "predecessor-authority-preserved"}
                      \cup (IF s.state.ambiguous THEN {"external-effect-ambiguous"} ELSE {}),
   source |-> s.state.count]

----------------------------------------------------------------------------
(* _validate_event_chain_semantics: entry k of a chain c, [event, state],   *)
(* reproduced from the entry before it                                      *)

Plain(e) == e.actor # "finalizer"
              /\ e.cause \notin {"RECOVERY_OBSERVED", "PLAN_SUPERSEDED", "OUTCOME_PRODUCED"}
ProtectedOf(e) == {t \in Ids("effect", e.out) : t \in Tasks /\ plan.kind[t] = "protected"}
ApprovalsOf(e, s) == s.approvals \cap Ids("approval", e.out)
PriorOf(k) == IF k = 1 THEN {} ELSE {<<"state", k - 1>>, <<"event", k - 1>>}

Adopts(e, s, k) ==
  e.after = s.status /\ e.headAfter = s.native /\ s.count = k
Follows(c, k) ==
  LET e == c[k].event IN
  IF k = 1 THEN e.source = 0 /\ e.before = "PLANNED"
  ELSE LET p == c[k - 1].state IN
       /\ e.source = k - 1 /\ p.count = k - 1
       /\ e.before = p.status /\ e.headBefore = p.native
\* _semantic_event_cause
CauseHolds(c, k) ==
  LET e == c[k].event
      s == c[k].state
      codes == UNION {s.tasks[t][2] : t \in Tasks}
  IN /\ e.cause = "RECOVERY_OBSERVED" => k > 1 /\ "recovery-observed" \in e.reasons
     /\ e.cause = "PLAN_SUPERSEDED" =>
          /\ k > 1 /\ s.status = "SUPERSEDED"
          /\ e.headBefore = e.headAfter /\ "plan-superseded" \in e.reasons
     /\ e.cause = "OUTCOME_PRODUCED" =>
          /\ k > 1 /\ s.status = c[k - 1].state.status
          /\ e.headBefore = e.headAfter /\ e.out = {} /\ e.reasons = {"outcome-produced"}
     /\ e.cause \notin {"RECOVERY_OBSERVED", "PLAN_SUPERSEDED", "OUTCOME_PRODUCED"} =>
          e.cause = IF s.ambiguous THEN "AMBIGUITY_RECORDED"
                    ELSE IF "approval-required" \in codes THEN "APPROVAL_BLOCKED"
                    ELSE IF ProtectedOf(e) # {} /\ ApprovalsOf(e, s) # {}
                         THEN "APPROVAL_REVALIDATED"
                    ELSE IF k = 1 THEN "RUNTIME_STARTED" ELSE "SCHEDULER_ADVANCED"
FieldsHold(c, k) ==
  LET e == c[k].event
      s == c[k].state
  IN /\ e.actor # "finalizer" =>
          CauseHolds(c, k) /\ e.effect = Effect(s.ambiguous, ProtectedOf(e), e.cause)
     /\ e.cause # "OUTCOME_PRODUCED" => <<"native", s.native>> \in e.out
RegularHolds(c, k) ==
  LET e == c[k].event
      s == c[k].state
      inputs == Ids("native", e.in)
      kept == {"message", "effect", "approval"}
  IN /\ Cardinality(inputs) = 1
     /\ k > 1 => inputs \subseteq {c[k - 1].state.native, s.native}
     /\ e.in = {<<"plan", 1>>} \cup PriorOf(k) \cup {<<"native", n>> : n \in inputs}
     /\ Ids("effect", e.out) \subseteq ProtectedOf(e)
     /\ Ids("approval", e.out) \subseteq s.approvals
     /\ e.out = {<<"native", s.native>>} \cup {x \in e.out : x[1] \in kept}
     /\ e.actor = "runtime"
     /\ e.reasons = Reasons(e.cause, ProtectedOf(e), ApprovalsOf(e, s), s.ambiguous)
RecoveryHolds(c, k) ==
  LET e == c[k].event
      s == c[k].state
  IN /\ e.actor = "recovery"
     /\ e.in = {<<"plan", 1>>, <<"native", s.native>>} \cup PriorOf(k)
     /\ e.out = {<<"native", s.native>>}
     /\ e.reasons = {"recovery-observed", "source-preserved"}
                      \cup (IF s.ambiguous THEN {"external-effect-ambiguous"} ELSE {})
SupersessionHolds(c, k) ==
  LET e == c[k].event
      p == c[k - 1].state
  IN /\ e.actor = "supersession"
     /\ e.in = {<<"plan", 1>>, <<"native", p.native>>, <<"intent", 1>>} \cup PriorOf(k)
     /\ e.out = {<<"native", p.native>>}
     /\ e.reasons = {"plan-superseded", "predecessor-authority-preserved"}
                      \cup (IF p.ambiguous THEN {"external-effect-ambiguous"} ELSE {})
OutcomeHolds(c, k) ==
  LET e == c[k].event IN
  /\ e.actor = "outcome" /\ e.out = {} /\ e.reasons = {"outcome-produced"}
  /\ e.in = {<<"plan", 1>>, <<"native", c[k - 1].state.native>>} \cup PriorOf(k)
\* _terminal_observation_cause
ClosedCause(e) == CHOOSE r \in e.reasons : r # "native-observation-closed"
ObservationHolds(c, k) ==
  LET e == c[k].event
      s == c[k].state
      ambiguous == ClosedCause(e) = "external-effect-ambiguous"
  IN /\ k = 1 /\ e.cause = "GATE_EVALUATED" /\ e.out = {<<"native", s.native>>}
     /\ Cardinality(e.reasons) = 2 /\ "native-observation-closed" \in e.reasons
     /\ Ids("source", e.in) # {} /\ s.status = "BLOCKED"
     /\ s.blockers = {ClosedCause(e)} /\ s.ambiguous = ambiguous
     /\ s.observed = Items(history[s.native])
     /\ e.effect = IF ambiguous THEN "AMBIGUOUS" ELSE "BLOCKED"
EntryHolds(c, k) ==
  LET e == c[k].event IN
  /\ Adopts(e, c[k].state, k) /\ Follows(c, k) /\ FieldsHold(c, k)
  /\ Plain(e) => RegularHolds(c, k)
  /\ e.cause = "RECOVERY_OBSERVED" => RecoveryHolds(c, k)
  /\ e.cause = "PLAN_SUPERSEDED" => SupersessionHolds(c, k)
  /\ e.cause = "OUTCOME_PRODUCED" => OutcomeHolds(c, k)
  /\ e.actor = "finalizer" => ObservationHolds(c, k)
ChainHolds(c) == \A k \in 1..Len(c) : EntryHolds(c, k)

----------------------------------------------------------------------------
(* _require_exact_state: every State of the chain rederived from the scheduler's history *)

Resolved(e, s) ==
  /\ s.native <= Current /\ e.headAfter = s.native
  /\ <<"native", s.native>> \in e.in \cup e.out
  /\ Ids("native", e.out) \subseteq {s.native} \cup Ids("native", e.in)
  /\ \A t \in Ids("message", e.out) : history[s.native].state[t] # "READY"
  /\ Ids("approval", e.out) \subseteq history[s.native].consumed
ExactAt(c, k, tr) ==
  LET e == c[k].event
      s == c[k].state
      causes == [i \in 1..k |-> c[i].event.cause]
  IN /\ Resolved(e, s)
     /\ Adoptable(history[s.native])
     /\ IF e.cause = "PLAN_SUPERSEDED" THEN s = Superseded(c[k - 1].state)
        ELSE IF e.cause = "OUTCOME_PRODUCED" THEN s = Closed(c[k - 1].state)
        ELSE IF e.actor = "finalizer" THEN s = Closing(s.native, history[s.native], tr, ClosedCause(e))
        ELSE s = Derived(s.native, history[s.native], tr, causes)
Exact(c, tr) == \A k \in 1..Len(c) : ExactAt(c, k, tr)
\* _validate_scheduler_lineage
Lineage == IF chain = <<>> THEN TRUE ELSE Newest.native <= Current
Advanced == chain # <<>> /\ Newest.native # Current

----------------------------------------------------------------------------
(* completion_disposition *)

RequiredGates ==
  CASE plan.profile = "plan-only"   -> {"G1"}
    [] plan.profile = "implemented" -> {"G1", "G2"}
    [] plan.profile = "reviewed"    -> {"G1", "G2", "G3"}
    [] OTHER                        -> {"G1", "G2", "G3", "G4"}
PassedGate(s, g) == g \in DOMAIN s.gates /\ s.gates[g] = "PASS"
ObservedOf(s, type) == {x \in s.observed : x.item.type = type}
Missing(s) ==
  \/ \E g \in RequiredGates : ~ PassedGate(s, g)
  \/ /\ plan.profile # "plan-only"
     /\ \/ \E t \in Tasks : s.tasks[t][1] # "COMPLETED"
        \/ s.measures.evidence.solved < plan.solvers
        \/ ObservedOf(s, "handoff") = {} \/ \E x \in ObservedOf(s, "handoff") : ~ x.item.good
  \/ plan.profile \in {"reviewed", "release"} /\ ObservedOf(s, "review") = {}
  \/ plan.profile = "release" /\ plan.ui /\ ~ PassedGate(s, "G4")
  \/ s.ambiguous
  \/ s.status # "COMPLETED"
CompletionDisposition(s) ==
  IF s.status = "REJECTED" THEN "rejected"
  ELSE IF s.status = "SUPERSEDED" THEN "superseded"
  ELSE IF s.blockers # {} \/ Missing(s) THEN "blocked" ELSE "completed"

----------------------------------------------------------------------------
(* The calls.  A call that refuses changes nothing and is left out.         *)

\* one native step of the scheduler: what it makes of the projection, whom it writes to
Native(state, consumed, sent) == [to |-> [state |-> state, consumed |-> consumed], sent |-> sent]
SchedulerSteps ==
  LET h == history[Current]
      Becomes(t, new) == [h.state EXCEPT ![t] = new]
      StepsOf(t) ==
        CASE h.state[t] = "READY" /\ plan.kind[t] = "protected" ->
               {Native(Becomes(t, "waiting"), h.consumed, {})}
          [] h.state[t] = "READY" /\ plan.kind[t] # "protected" ->
               {Native(Becomes(t, "RUNNING"), h.consumed, {t})}
          [] h.state[t] = "waiting" ->
               {Native(Becomes(t, "RUNNING"), h.consumed \cup {t}, {t})}
          [] h.state[t] = "RUNNING" ->
               {Native(Becomes(t, end), h.consumed, {}) :
                  end \in {"COMPLETED", "REJECTED", "unknown"}}
          [] OTHER -> {}
  IN IF Current = MaxHistory THEN {} ELSE UNION {StepsOf(t) : t \in Tasks}
NoStep == Native(history[Current].state, history[Current].consumed, {})

RoomFor(k) == Len(chain) + k <= MaxChain
Entry(e, s) == [event |-> e, state |-> s]
\* run and resume: a tick, unless the scheduler moved since the last State.  What the tick
\* did stays done when the new projection cannot be derived or published.
Transition ==
  /\ outcome = <<>> /\ tree = 0 /\ Lineage /\ Len(chain) < MaxChain
  /\ ChainHolds(chain)
  /\ IF Advanced THEN TRUE ELSE Exact(chain, 0)
  /\ \E step \in {NoStep} \cup (IF Advanced THEN {} ELSE SchedulerSteps) :
       LET to == IF step = NoStep THEN Current ELSE Current + 1
           e  == RegularEvent(Current, to, step.to, step.sent)
           s  == Derived(to, step.to, 0, Append(Causes, e.cause))
       IN /\ history' = IF step = NoStep THEN history ELSE Append(history, step.to)
          /\ chain' = IF Adoptable(step.to) THEN Append(chain, Entry(e, s))
                      ELSE chain
  /\ UNCHANGED <<plan, tree, outcome>>

\* WorkflowRecoveryService.recover
Recover ==
  /\ chain # <<>> /\ outcome = <<>> /\ tree = 0 /\ Lineage /\ RoomFor(1)
  /\ ChainHolds(chain)
  /\ IF Advanced THEN TRUE ELSE Exact(chain, 0)
  /\ Adoptable(history[Current])
  /\ chain' = Append(chain, Entry(RecoveryEvent,
       Derived(Current, history[Current], 0, Append(Causes, "RECOVERY_OBSERVED"))))
  /\ UNCHANGED <<plan, tree, history, outcome>>

\* WorkflowOutcomeService.publish of the last entry of c
Concluded(c) ==
  LET last == c[Len(c)] IN
  Append(c, Entry(TerminalEvent(last, "outcome"), Closed(last.state)))
Conclusive(c) == ChainHolds(c) /\ Exact(c, 0) /\ c[Len(c)].state.native = Current
PublishOutcome ==
  /\ chain # <<>> /\ outcome = <<>> /\ tree = 0 /\ RoomFor(1)
  /\ Conclusive(chain)
  /\ chain' = Concluded(chain)
  /\ outcome' = <<CompletionDisposition(Newest)>>
  /\ UNCHANGED <<plan, tree, history>>

\* _authenticate_terminal_observation: what the scheduler's evidence lets a caller observe
Observable(cause) ==
  LET h == history[Current] IN
  CASE cause = "approval-required"         -> \E t \in Tasks : h.state[t] = "waiting"
    [] cause = "lease-lost"                -> \E t \in Tasks : h.state[t] = "unknown"
    [] cause = "external-effect-ambiguous" -> Ambiguous(h)
    [] cause = "ui-evidence-unavailable"   -> plan.ui
    [] OTHER                               -> TRUE
FinalizeObservation(cause) ==
  /\ chain = <<>> /\ outcome = <<>> /\ tree = 0 /\ RoomFor(2)
  /\ Observable(cause) /\ Adoptable(history[Current])
  /\ LET c == <<Entry(ObservationEvent(cause),
                     Closing(Current, history[Current], 0, cause))>>
     IN /\ Conclusive(c)
        /\ chain' = Concluded(c)
        /\ outcome' = <<CompletionDisposition(c[1].state)>>
  /\ UNCHANGED <<plan, tree, history>>

\* supersede, for a successor Intent that names the changed files
Supersede ==
  /\ chain # <<>> /\ outcome = <<>> /\ tree = 1 /\ Lineage /\ RoomFor(1)
  /\ ChainHolds(chain) /\ Newest.native = Current /\ Exact(chain, 1)
  /\ chain' = Append(chain, Entry(TerminalEvent(chain[Len(chain)], "supersession"),
                                  Superseded(Newest)))
  /\ outcome' = <<CompletionDisposition(Superseded(Newest))>>
  /\ UNCHANGED <<plan, tree, history>>

\* status of the last State, and the report that asks it first
StatusAnswers ==
  /\ Newest.status # "SUPERSEDED"   \* no publication observation is made for one
  /\ tree = 0 /\ Lineage /\ ChainHolds(chain) /\ Exact(chain, 0)

\* what happens outside: the scheduler is ticked by others, files change and change back
Advance ==
  /\ \E step \in SchedulerSteps : history' = Append(history, step.to)
  /\ UNCHANGED <<plan, tree, chain, outcome>>
Drift == tree' = 1 - tree /\ UNCHANGED <<plan, history, chain, outcome>>

ObservationCauses == {"approval-required", "lease-lost", "external-effect-ambiguous",
                      "ui-evidence-unavailable", "stale-context"}
RuntimeInit ==
  /\ plan \in Plans
  /\ tree = 0
  /\ history = <<[state |-> [t \in plan.tasks |-> "READY"], consumed |-> {}]>>
  /\ chain = <<>> /\ outcome = <<>>
RuntimeNext ==
  \/ Transition \/ Recover \/ PublishOutcome \/ Supersede
  \/ \E cause \in ObservationCauses : FinalizeObservation(cause)
  \/ Advance \/ Drift
RuntimeSpec == RuntimeInit /\ [][RuntimeNext]_runtimeVars

----------------------------------------------------------------------------
(* Properties *)

\* Five writers put entries on the chain and one reader reproduces all of them: whatever
\* was recorded, at whatever scheduler State and however often the files changed and
\* changed back, is accepted once the files are the Plan's again.  Otherwise a workflow
\* could lock itself out of its own history.
RecordsReproduce == tree = 0 => ChainHolds(chain) /\ Exact(chain, 0)

\* Once a State carries an ambiguous effect no later State sheds it, whichever call
\* records it, and no Outcome is completed.
AmbiguityKept ==
  \A j \in 1..Len(chain) : chain[j].state.ambiguous =>
    /\ \A k \in j..Len(chain) : chain[k].state.ambiguous
    /\ outcome # <<"completed">>

\* A completed Outcome rests on native truth: every task succeeded, nothing is unknown,
\* the profile's evidence is there and good, and the review covers the files.
CompletedIsProved ==
  outcome = <<"completed">> /\ plan.profile # "plan-only" =>
    LET h == history[Newest.native]
        needed == {"ledger", "handoff"}
                    \cup (IF plan.profile = "implemented" THEN {} ELSE {"review"})
                    \cup (IF plan.profile = "release" THEN {"manifest", "ui", "rc"} ELSE {})
    IN /\ \A t \in Tasks : h.state[t] = "COMPLETED"
       /\ \A type \in needed : Of(h, type) # {} /\ Good(h, type)
       /\ "review" \in needed => 0 \in plan.covers
       /\ plan.blocking = {}

\* An effect once ambiguous stays on record, and a completed Outcome rests on native truth.
OutcomesTrue == AmbiguityKept /\ CompletedIsProved

\* docs/integrated-vibe-coding-framework.md:267: the report is a view over confirmed
\* terminal receipts, for each of the four dispositions.
TerminalReported ==
  outcome # <<>> /\ tree = 0 => StatusAnswers
============================================================================
