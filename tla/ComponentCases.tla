--------------------------- MODULE ComponentCases ----------------------------
(***************************************************************************)
(* The small inputs on which TLC checks the components beside the          *)
(* scheduler, component by component.                                      *)
(***************************************************************************)
EXTENDS Integers, Sequences, FiniteSets, TLC

-----------------------------------------------------------------------------
\* Context
(* Four sources, every contradiction among three of them, a chain of         *)
(* references; one source may be stale, above the clearance or the owner's.  *)
Four == 1..4
C(a, b) == <<a, b, "contradicts">>
R(a, b) == <<a, b, "references">>
SomeManifests ==
  {[sources |-> Four, required |-> {1} \cup r, owner |-> o, contradicts |-> c,
    refs |-> f, fresh |-> [n \in Four |-> IF n \in s THEN {0} ELSE {0, 1}],
    level |-> [n \in Four |-> IF n \in h THEN 1 ELSE 0],
    authority |-> [n \in Four |-> IF n = 1 THEN 1 ELSE 3], size |-> [n \in Four |-> n]] :
   r \in {{}, {3}}, o \in {{}, {4}}, c \in {{}, {C(1, 2)}, {C(3, 4)}, {C(2, 3), C(3, 4)}},
   f \in {{R(1, 2), R(2, 3)}}, s \in {{}, {4}}, h \in {{}, {2}}}
Asked(budget, nodes, depth) ==
  {[asof |-> 1, clearance |-> l, required |-> r, seeds |-> s, named |-> {4},
    score |-> [n \in Four |-> IF n = 3 THEN 1 ELSE 0], types |-> {"references"},
    budget |-> budget, nodes |-> nodes, edges |-> 4, depth |-> depth] :
   l \in {0, 1}, r \in {{}, {2}}, s \in {{4}}}
SomeQueries == Asked(40, 4, 2) \cup Asked(13, 3, 1)
TwoHeads == {0, 1}
SomeProposals == {<<>>, <<[level |-> 1, claims |-> {1}]>>}

-----------------------------------------------------------------------------
\* Orchestration
(* Five roles: two writers, one of them low risk, an integrator and two      *)
(* reviewers, one of them for small work; scopes that nest, touch and differ *)
(* and a worktree for two.                                                   *)
Role(write, review, problems, risk, scales) ==
  [write |-> write, review |-> review, problems |-> problems, risk |-> risk, scales |-> scales,
   parallelism |-> {"sequential", "write_parallel"} \cup (IF write THEN {} ELSE {"read_parallel"})]
Coding == {"implementation", "discovery"}
AnyScale == {"small", "large"}
FiveRoles ==
  "api" :> Role(TRUE, FALSE, Coding, "high", AnyScale)
  @@ "join" :> Role(TRUE, FALSE, Coding, "high", AnyScale)
  @@ "audit" :> Role(FALSE, TRUE, {"implementation", "review"}, "high", AnyScale)
  @@ "check" :> Role(FALSE, TRUE, Coding \cup {"review"}, "low", {"small"})
  @@ "ui" :> Role(TRUE, FALSE, Coding, "low", AnyScale)
Sorted == <<"api", "audit", "check", "join", "ui">>
SomeRequests ==
  [problem : {"implementation", "review", "discovery"}, scale : {"small", "large"},
   risk : {"low", "high", "prohibited"}, parallelism : {"sequential", "read_parallel", "write_parallel"},
   roles : {{}, {"ui"}, {"check"}, {"api", "check"}}, native : {TRUE}, session : {FALSE},
   agents : {2, 5}, concurrency : {1, 2}, effort : {1, 2}]
  \cup {[problem |-> "discovery", scale |-> "small", risk |-> "low", parallelism |-> "sequential",
         roles |-> {}, native |-> FALSE, session |-> s, agents |-> 2, concurrency |-> 2,
         effort |-> 2] : s \in BOOLEAN}
Tree(place, api, ui) == [integrator |-> "join", at |-> ("api" :> "w1" @@ "ui" :> place),
                         owns |-> ("api" :> api @@ "ui" :> ui)]
SomeTrees == {Tree("w2", {<<"src", "api">>}, {<<"src", "ui">>}), Tree("w2", {<<"src">>}, {<<"src", "ui">>}),
              Tree("w2", {<<"src">>, <<"docs">>}, {<<"web">>}), Tree("w1", {<<"src">>}, {<<"web">>})}
SomeFindings == [strength : {0, 1}, severity : {0}, example : BOOLEAN]

-----------------------------------------------------------------------------
\* ToolExecution
(* Two owner approvals, one lapsing early, and a technical one.              *)
Probe == [owner |-> "required", technical |-> "may_be_required", attempts |-> 2,
          risk |-> "low", network |-> TRUE, here |-> TRUE]
Grant(i, t, u) == [id |-> i, type |-> t, from |-> 0, until |-> u, risk |-> "low", tool |-> TRUE,
                   by |-> IF t = "owner" THEN "Owner" ELSE "Technical sandbox reviewer"]
First == Grant(1, "owner", 1)
Second == Grant(2, "owner", 2)
Technical == Grant(3, "technical_sandbox", 2)
ThreeGrants == {First, Second, Technical}
SomeOffers == {{First}, {First, Technical}, {Second, Technical}}
Endings == {[end |-> "version", marks |-> {}], [end |-> "exit", marks |-> {"sandbox", "test"}]}

-----------------------------------------------------------------------------
\* Solver
(* Two variables of two values, one problem of every kind of constraint, each *)
(* claim, step limits below and above the search space; one number is beyond *)
(* the adapter.                                                              *)
Binary == <<0, 1>>
Decision(profile, constraints) ==
  [profile |-> profile, domains |-> <<Binary, Binary>>, constraints |-> constraints,
   objective |-> <<>>, claim |-> "decision"]
Optimize(direction, constraints, claim) ==
  [profile |-> "finite-scheduling", domains |-> <<Binary, <<0, 2>> >>, constraints |-> constraints,
   objective |-> <<[direction |-> direction, terms |-> (1 :> 1 @@ 2 :> -1), constant |-> 0]>>,
   claim |-> claim]
Clause(l) == [kind |-> "clause", literals |-> l]
Different == [kind |-> "all-different", over |-> {1, 2}]
AtLeast(n) == [kind |-> "linear", terms |-> (1 :> 1 @@ 2 :> 1), relation |-> "ge", right |-> n]
Rows(rows, allowed) == [kind |-> "table", over |-> <<1, 2>>, rows |-> rows, allowed |-> allowed]
Apart == [kind |-> "non-overlap", left |-> 1, right |-> 2, leftDuration |-> 1, rightDuration |-> 1]
Problems ==
  {Decision("boolean-sat", <<Clause({<<1, 1>>}), Clause({<<2, 0>>})>>),
   Decision("finite-domain", <<Different, Rows({<<0, 1>>, <<1, 0>>}, FALSE)>>)}
    \cup {Optimize("minimize", <<AtLeast(1), Apart>>, k) : k \in {"feasible", "bounded"}}
    \cup {Optimize("maximize", <<AtLeast(1), Apart>>, "optimal")}
    \cup {Optimize("minimize", <<AtLeast(n)>>, "optimal") : n \in {4, 5}}
Request(p, solve, verify, timeout, adapter) ==
  [problem |-> p, solve |-> solve, verify |-> verify, timeout |-> timeout, adapter |-> adapter,
   reserved |-> solve + verify]
SomeMisreported ==
  {Request(Optimize("minimize", <<AtLeast(1), Apart>>, "bounded"), 3, 3, <<>>, "reference"),
   Request(Optimize("maximize", <<AtLeast(1), Apart>>, "optimal"), 4, 4, <<>>, "reference")}
SolverInputs ==
  {Request(p, 3, 4, <<1>>, "reference") : p \in Problems}
    \cup {Request(p, 4, 4, <<>>, "reference") : p \in Problems}
    \cup {Request(Optimize("minimize", <<AtLeast(4)>>, "optimal"), 4, 2, <<>>, a) :
             a \in {"reference", "external-cli"}}
    \cup SomeMisreported
Reference == [problems |-> {"decision", "optimization"},
              profiles |-> {"boolean-sat", "finite-domain", "finite-scheduling"},
              kinds |-> {"linear", "all-different", "table", "clause", "non-overlap"},
              variables |-> 2, values |-> 2, space |-> 4, constraints |-> 2, width |-> 2,
              rows |-> 2, low |-> -4, high |-> 4]

-----------------------------------------------------------------------------
\* Assurance
(* One Must requirement with two criteria, one of them tested; two contents, *)
(* two commits, two writers; reviews with a low or an accepted critical      *)
(* finding, evidence that tests, and where nothing else moves evidence that  *)
(* does not.                                                                 *)
OneBaseline == [must |-> {"q"}, criteria |-> [q \in {"q"} |-> {1, 2}], tested |-> {2}, problems |-> {}]
Claim(s, c) == [reqs |-> {"q"}, criteria |-> c, state |-> s, hard |-> FALSE]
SomeClaims == {"c" :> Claim("verified", {1, 2})}
Rec(t, s, c) == [type |-> t, status |-> s, claims |-> c, whole |-> TRUE]
OneRecord == "test" :> Rec("TEST", "PASS", {"c"})
TwoRecords == OneRecord @@ "lint" :> Rec("STATIC_ANALYSIS", "PASS", {"c"})
Finding(s, t, a) == [severity |-> s, status |-> t, approved |-> a]
SomeReviews == {[completed |-> TRUE, apart |-> TRUE, covers |-> TRUE, findings |-> F] :
                  F \in {{Finding("low", "open", FALSE)}, {Finding("critical", "accepted", TRUE)}}}
SomeUi == {[brief |-> TRUE, attempts |-> <<[pass |-> TRUE, traced |-> TRUE, whole |-> TRUE]>>]}

-----------------------------------------------------------------------------
\* Migrations
(* A registry with two approvals for two outputs, a database with one.       *)
Record(i, s, o) ==
  [id |-> i, source |-> s, version |-> 0, output |-> o, from |-> 0,
   until |-> IF i = 2 THEN 1 ELSE 2]
ThreeApprovals ==
  {Record(1, "registry", "a"), Record(2, "registry", "b"), Record(3, "database", "c")}

-----------------------------------------------------------------------------
\* WorkflowRuntime
(* Four Plans: a release of a plain and a protected task, a review over a bad *)
(* ledger, a solver task whose ledger went stale, and plan-only.              *)
Item(type, good, fresh) == [type |-> type, good |-> good, fresh |-> fresh]
Sound(types) == {Item(type, TRUE, TRUE) : type \in types}
RuntimePlan(kind, evidence, profile, gates, covers, ui, solvers) ==
  [tasks |-> DOMAIN kind, kind |-> kind, evidence |-> evidence, profile |-> profile,
   gates |-> gates, covers |-> covers, ui |-> ui, solvers |-> solvers, blocking |-> {}]
SomePlans ==
  {RuntimePlan([a |-> "plain", b |-> "protected"],
          [a |-> Sound({"ledger", "handoff", "manifest", "ui"}), b |-> Sound({"review", "rc"})],
          "release", {"G1", "G2", "G3", "G4"}, {0}, TRUE, 0),
   RuntimePlan([a |-> "plain"],
          [a |-> Sound({"review", "handoff"}) \cup {Item("ledger", FALSE, TRUE)}],
          "reviewed", {"G1", "G2", "G3"}, {0, 1}, FALSE, 0),
   RuntimePlan([a |-> "solver", b |-> "plain"],
          [a |-> Sound({"solver-result", "solver-verification"}),
           b |-> Sound({"handoff"}) \cup {Item("ledger", TRUE, FALSE)}],
          "implemented", {"G1", "G2"}, {}, FALSE, 1),
   RuntimePlan([a |-> "protected"], [a |-> {}], "plan-only", {"G1"}, {}, FALSE, 0)}
=============================================================================
