--------------------------- MODULE Orchestration ----------------------------
(***************************************************************************)
(* M2 orchestration: AgentOrchestrator.plan chooses roles for a request    *)
(* and puts them in waves, load_worktree_plan decides which parallel write *)
(* scopes it may use, load_agent_result which results are heard, and       *)
(* resolve_disagreement which of two findings stands.  All are pure: the   *)
(* machine takes a request, plans it, and settles one disagreement among   *)
(* the results of the roles it assigned.                                   *)
(***************************************************************************)
EXTENDS Naturals, Sequences, FiniteSets, SequencesExt

CONSTANTS
  Registry,     \* role id -> [write, review, problems, scales, parallelism, risk]
  RoleOrder,    \* the role ids, sorted
  Requests,     \* orchestration requests
  TreePlans,    \* worktree plans: [integrator, at, owns], at: role -> its worktree,
                \* owns: role -> set of paths, all of them in one case
  Findings      \* findings a result may carry: [strength, severity, example]

\* The sorted list names the roles of the registry; a path is a sequence of its parts.
OrchestrationBounds ==
  /\ RoleOrder \in Seq(DOMAIN Registry)
  /\ DOMAIN Registry = {RoleOrder[i] : i \in DOMAIN RoleOrder}
  /\ \A tree \in TreePlans : \A r \in DOMAIN tree.owns :
       \A p \in tree.owns[r] : p \in Seq({p[i] : i \in DOMAIN p})

VARIABLES
  request,      \* the request and worktree plan being planned
  planned,      \* the plan: its verdict is "none" before planning, "refused" or "planned"
  resolved      \* the disagreements settled, at most one: [reported, selected]

orchestrationVars == <<request, planned, resolved>>

Roles == DOMAIN Registry
NoTreePlan == [integrator |-> "none", at |-> <<>>, owns |-> <<>>]

----------------------------------------------------------------------------
(* Worktree plans *)

\* Two repository paths overlap when one is the other or a directory above it.
Overlap(p, q) == IsPrefix(p, q) \/ IsPrefix(q, p)

\* _validate_worktree_assignments: a worktree for each owner, and every pair of owned
\* paths, of one role or of two.
OwnershipHolds(tree) ==
  LET owners == DOMAIN tree.owns
  IN  /\ tree.integrator \notin owners
      /\ \A r, s \in owners : r # s => tree.at[r] # tree.at[s]
      /\ \A r, s \in owners : \A p \in tree.owns[r], q \in tree.owns[s] :
           <<r, p>> # <<s, q>> => ~Overlap(p, q)

\* load_worktree_plan
TreePlanLoads(tree) ==
  /\ Cardinality(DOMAIN tree.owns) >= 2
  /\ \A r \in DOMAIN tree.owns : tree.owns[r] # {}
  /\ OwnershipHolds(tree)

----------------------------------------------------------------------------
(* Selection *)

RiskRank(risk) == CASE risk = "low" -> 0 [] risk = "medium" -> 1 [] risk = "high" -> 2
                    [] risk = "prohibited" -> 3
EffortRank(req) ==
  IF req.risk = "high" \/ req.scale = "large" THEN 2
  ELSE IF req.risk = "medium" \/ req.scale = "medium" THEN 1 ELSE 0

\* _role_is_eligible
Eligible(r, req) ==
  /\ req.problem \in Registry[r].problems
  /\ req.scale \in Registry[r].scales
  /\ req.parallelism \in Registry[r].parallelism
  /\ RiskRank(req.risk) <= RiskRank(Registry[r].risk)

FirstOf(S) == CHOOSE r \in S : \A s \in S :
  (CHOOSE i \in DOMAIN RoleOrder : RoleOrder[i] = r)
    <= (CHOOSE i \in DOMAIN RoleOrder : RoleOrder[i] = s)

Reviewers(S) == {r \in S : Registry[r].review}

\* The roles asked for, or the first suitable one; {} when selection refuses.
Chosen(req) ==
  LET eligible == {r \in Roles : Eligible(r, req)}
      pool == IF req.problem = "review" THEN Reviewers(eligible)
              ELSE eligible \ Reviewers(eligible)
  IN  IF req.roles # {} THEN IF req.roles \subseteq eligible THEN req.roles ELSE {}
      ELSE IF pool = {} THEN {} ELSE {FirstOf(pool)}

NeedsReviewer(req) == req.problem = "implementation" \/ req.risk = "high"

\* The reviewer added when the work needs one and none was chosen.
AddedReviewer(req) ==
  LET eligible == {r \in Roles : Eligible(r, req)}
  IN  IF NeedsReviewer(req) /\ Reviewers(Chosen(req)) = {} /\ Reviewers(eligible) # {}
      THEN {FirstOf(Reviewers(eligible))} ELSE {}

TreeRoles(req, tree) ==
  IF req.parallelism = "write_parallel" THEN DOMAIN tree.owns \cup {tree.integrator} ELSE {}

\* _select_roles
Selected(req, tree) == Chosen(req) \cup AddedReviewer(req) \cup TreeRoles(req, tree)
SelectionHolds(req, tree) ==
  /\ Chosen(req) # {}
  /\ req.problem = "review" => Chosen(req) \subseteq Reviewers(Chosen(req))
  /\ NeedsReviewer(req) => Reviewers(Chosen(req) \cup AddedReviewer(req)) # {}
  /\ req.parallelism = "write_parallel" =>
       /\ tree # NoTreePlan
       /\ \A r \in TreeRoles(req, tree) : r \in Roles /\ Eligible(r, req)

\* _validate_parallelism
ReadProblems == {"discovery", "test_design", "log_analysis", "review"}
ParallelismHolds(req, tree) ==
  LET chosen == Selected(req, tree)
  IN  /\ req.parallelism = "read_parallel" =>
           req.problem \in ReadProblems /\ \A r \in chosen : ~Registry[r].write
      /\ req.parallelism = "write_parallel" =>
           /\ \A r \in DOMAIN tree.owns : Registry[r].write
           /\ ~Registry[tree.integrator].review

----------------------------------------------------------------------------
(* The plan *)

\* _assignment_wave
M_Wave(r, req, tree) ==
  IF req.parallelism # "write_parallel" THEN 1
  ELSE IF Registry[r].review THEN 3 ELSE IF r = tree.integrator THEN 2 ELSE 1
Wave(r, req, tree) ==
  CASE req.problem = "review" -> 1
    [] req.problem # "review" /\ req.parallelism = "write_parallel" ->
         IF Registry[r].review THEN 3 ELSE IF r = tree.integrator THEN 2 ELSE 1
    [] OTHER -> IF Registry[r].review THEN 2 ELSE 1

\* _execution_mode
Mode(req) == IF req.native THEN "native_subagent"
             ELSE IF req.session THEN "independent_session" ELSE "sequential"

Lesser(a, b) == IF a <= b THEN a ELSE b
Widest(waves) ==
  LET width(n) == Cardinality({r \in DOMAIN waves : waves[r] = n})
      widths == {width(n) : n \in {waves[r] : r \in DOMAIN waves}}
  IN  CHOOSE w \in widths : \A v \in widths : v <= w

PlanOf(req, tree) ==
  LET waves == [r \in Selected(req, tree) |-> Wave(r, req, tree)]
  IN  [verdict |-> "planned", waves |-> waves, mode |-> Mode(req), tree |-> tree,
       concurrency |-> IF Mode(req) = "sequential" THEN 1
                       ELSE Lesser(req.concurrency, Widest(waves))]

\* What load_orchestration_request accepts.
RequestLoads(req) == req.agents \in 1..16 /\ req.concurrency \in 1..req.agents

MayPlan(req, tree) ==
  /\ req.risk # "prohibited"
  /\ EffortRank(req) <= req.effort
  /\ req.parallelism = "read_parallel" => req.problem \in ReadProblems
  /\ SelectionHolds(req, tree)
  /\ Cardinality(Selected(req, tree)) <= req.agents
  /\ ParallelismHolds(req, tree)

IsPlanned == planned.verdict = "planned"
Plan ==
  /\ planned.verdict = "none"
  /\ planned' = IF MayPlan(request.work, request.tree)
                THEN PlanOf(request.work, request.tree) ELSE [verdict |-> "refused"]
  /\ UNCHANGED <<request, resolved>>

----------------------------------------------------------------------------
(* Results and disagreement *)

\* load_agent_result: who may report reviews, and that nobody reviews or approves
\* itself.
AgentResultLoads(result) ==
  /\ ~result.approved
  /\ IF Registry[result.role].review
     THEN result.reviewed # {} /\ result.agent \notin result.reviewed /\ ~result.changed
     ELSE result.reviewed = {}

\* Evidence strength, then severity, then a counterexample.
Outranks(f, g) ==
  \/ f.strength > g.strength
  \/ f.strength = g.strength /\ f.severity > g.severity
  \/ f.strength = g.strength /\ f.severity = g.severity /\ f.example /\ ~g.example

\* resolve_disagreement over the agents that reported the finding: the first in rank
\* stands when it outranks the second, whatever the number of agents behind it.
Resolution(reported) ==
  LET agents == DOMAIN reported
      top == {a \in agents : \A b \in agents : ~Outranks(reported[b], reported[a])}
  IN  IF Cardinality(agents) >= 2 /\ Cardinality(top) = 1
      THEN CHOOSE a \in top : TRUE ELSE "unresolved"

Resolve ==
  /\ IsPlanned /\ resolved = {}
  /\ \E reported \in [DOMAIN planned.waves -> Findings] :
       resolved' = {[reported |-> reported, selected |-> Resolution(reported)]}
  /\ UNCHANGED <<request, planned>>

OrchestrationInit ==
  /\ request \in {[work |-> w, tree |-> t] :
                    w \in {w \in Requests : RequestLoads(w)},
                    t \in {NoTreePlan} \cup {t \in TreePlans : TreePlanLoads(t)}}
  /\ planned = [verdict |-> "none"] /\ resolved = {}
OrchestrationNext == Plan \/ Resolve
OrchestrationSpec == OrchestrationInit /\ [][OrchestrationNext]_orchestrationVars

----------------------------------------------------------------------------
(* Properties *)

\* Logical separation of author and reviewer: work that needs a review has a reviewer in
\* a later wave than every role that is not one, whoever was asked for by name, and no
\* more run at once than the request allows.  "Integration and independent review run
\* after parallel implementation": of an owner that is a reviewer itself, whom nothing
\* in the planner refuses, this is not true, and of the others it is.
ReviewedLast ==
  IsPlanned =>
    LET w == planned.waves
        req == request.work
        authors == DOMAIN w \ Reviewers(DOMAIN w)
        integrator == planned.tree.integrator
    IN  /\ NeedsReviewer(req) /\ req.problem # "review" =>
             \E v \in Reviewers(DOMAIN w) : \A r \in authors : w[r] < w[v]
        /\ req.parallelism = "write_parallel" /\ req.problem # "review" =>
             /\ \A r \in authors \cap DOMAIN planned.tree.owns : w[r] < w[integrator]
             /\ \A v \in Reviewers(DOMAIN w) : w[integrator] < w[v]
        /\ planned.concurrency <= req.concurrency
=============================================================================
