--------------------------- MODULE SolverProblem ---------------------------
(***************************************************************************)
(* M7 problems: what a loaded request may say, how the reference adapter   *)
(* evaluates one assignment, and which results a loaded file may state.    *)
(* Variable i of a problem is the i-th in identifier order; an assignment  *)
(* is a sequence of values.  A Python None is the empty sequence, any      *)
(* other optional value a sequence of one.                                 *)
(***************************************************************************)
EXTENDS Integers, Sequences, FiniteSets, SequencesExt, Functions

----------------------------------------------------------------------------
(* Problems *)

Variables(p) == DOMAIN p.domains

\* _parse_variable: values sorted, none twice, at least one; Boolean SAT has only [0, 1].
DomainLoads(p, values) ==
  /\ values # <<>>
  /\ \A i, j \in DOMAIN values : i < j => values[i] < values[j]
  /\ p.profile = "boolean-sat" => values = <<0, 1>>

\* _parse_terms: known variables, each once (terms map them to coefficients), none zero.
TermsLoad(p, terms) ==
  /\ DOMAIN terms # {} /\ DOMAIN terms \subseteq Variables(p)
  /\ \A v \in DOMAIN terms : terms[v] # 0

\* _parse_constraint, kind by kind.
ConstraintLoads(p, c) ==
  CASE c.kind = "linear" -> TermsLoad(p, c.terms)
    [] c.kind = "all-different" -> c.over \subseteq Variables(p) /\ Cardinality(c.over) >= 2
    [] c.kind = "table" ->
         /\ Range(c.over) \subseteq Variables(p) /\ IsInjective(c.over) /\ c.over # <<>>
         /\ \A row \in c.rows :
              /\ Len(row) = Len(c.over)
              /\ \A i \in DOMAIN row : row[i] \in Range(p.domains[c.over[i]])
    [] c.kind = "clause" ->
         /\ c.literals # {}
         /\ \A l \in c.literals : l[1] \in Variables(p) /\ l[2] \in Range(p.domains[l[1]])
    [] c.kind = "non-overlap" ->
         /\ p.profile = "finite-scheduling" /\ c.left # c.right
         /\ {c.left, c.right} \subseteq Variables(p)
         /\ c.leftDuration >= 1 /\ c.rightDuration >= 1

\* _parse_problem and _validate_claim: a decision has no objective, an optimization has one.
ProblemLoads(p) ==
  /\ p.domains # <<>> /\ \A v \in Variables(p) : DomainLoads(p, p.domains[v])
  /\ \A i \in DOMAIN p.constraints : ConstraintLoads(p, p.constraints[i])
  /\ p.objective # <<>> =>
       /\ p.profile # "boolean-sat"
       /\ TermsLoad(p, p.objective[1].terms)
  /\ (p.claim = "decision") <=> (p.objective = <<>>)

\* search_space_size: the number of complete assignments.
Space(p) == FoldLeft(LAMBDA n, values : n * Len(values), 1, p.domains)

\* The k-th assignment itertools.product visits, from 0: the last variable moves fastest.
Assignment(p, k) ==
  LET Stride(v) == FoldLeft(LAMBDA n, values : n * Len(values), 1,
                            SubSeq(p.domains, v + 1, Len(p.domains)))
  IN  [v \in Variables(p) |->
         p.domains[v][((k \div Stride(v)) % Len(p.domains[v])) + 1]]

----------------------------------------------------------------------------
(* Evaluation *)

\* The sum of a linear form; terms map variables to coefficients.
Linear(terms, a) == FoldFunction(+, 0, [v \in DOMAIN terms |-> terms[v] * a[v]])

Relates(relation, left, right) ==
  CASE relation = "eq" -> left = right
    [] relation = "ne" -> left # right
    [] relation = "lt" -> left < right
    [] relation = "le" -> left <= right
    [] relation = "gt" -> left > right
    [] relation = "ge" -> left >= right

Holds(c, a) ==
  CASE c.kind = "linear" -> Relates(c.relation, Linear(c.terms, a), c.right)
    [] c.kind = "all-different" -> \A v, w \in c.over : v # w => a[v] # a[w]
    [] c.kind = "table" -> ([i \in DOMAIN c.over |-> a[c.over[i]]] \in c.rows) <=> c.allowed
    [] c.kind = "clause" -> \E l \in c.literals : a[l[1]] = l[2]
    [] c.kind = "non-overlap" ->
         \/ a[c.left] + c.leftDuration <= a[c.right]
         \/ a[c.right] + c.rightDuration <= a[c.left]

\* evaluate_constraints: in canonical order, stopping at the first that fails; the pair
\* of the verdict and the number of constraints looked at.
Evaluated(p, a) ==
  LET failing == {i \in DOMAIN p.constraints : ~Holds(p.constraints[i], a)}
  IN  IF failing = {} THEN <<TRUE, Len(p.constraints)>>
      ELSE <<FALSE, CHOOSE i \in failing : \A j \in failing : i <= j>>
Satisfies(p, a) == Evaluated(p, a)[1]

Objective(p, a) == p.objective[1].constant + Linear(p.objective[1].terms, a)
Minimizes(p) == p.objective[1].direction = "minimize"

\* objective_domain_bounds: the best and the worst each term can reach on its own.
DomainBound(p, low) ==
  LET terms == p.objective[1].terms
      Reach(v) == {terms[v] * x : x \in Range(p.domains[v])}
      Extreme(S) == CHOOSE x \in S : \A y \in S : IF low THEN x <= y ELSE x >= y
  IN  p.objective[1].constant
        + FoldFunction(+, 0, [v \in DOMAIN terms |-> Extreme(Reach(v))])

\* Assignments as tuples, compared as Python compares them.
Before(a, b) == \E i \in DOMAIN a : a[i] < b[i] /\ \A j \in 1..i - 1 : a[j] = b[j]

\* _is_better: a better objective, or the same one and the smaller assignment.
Improves(p, a, best) ==
  \/ best = <<>>
  \/ LET new == Objective(p, a)
         old == Objective(p, best[1])
     IN  \/ IF Minimizes(p) THEN new < old ELSE new > old
         \/ new = old /\ Before(a, best[1])

----------------------------------------------------------------------------
(* Results *)

Incomplete == {"timeout", "unavailable", "unknown", "error"}
Negative == {"unsatisfiable", "infeasible"}
Positive == {"satisfiable", "feasible", "bounded", "optimal"}

\* The terminations _validate_result_shape allows a status, and the proof it must name.
Terminations(status) ==
  CASE status \in {"satisfiable", "feasible"} -> {"witness-found"}
    [] status \in Negative \cup {"optimal"} -> {"search-exhausted"}
    [] status \in {"bounded", "unknown"} -> {"step-limit"}
    [] status = "timeout" -> {"request-timeout", "lease-deadline"}
    [] status = "unavailable" -> {"adapter-unavailable"}
    [] status = "error" -> {"adapter-error"}
Proof(status) ==
  CASE status \in {"satisfiable", "feasible"} -> "witness"
    [] status \in Negative \cup {"optimal"} -> "exhaustive-enumeration"
    [] status = "bounded" -> "objective-bound"
    [] status \in Incomplete -> "none"

\* _validate_result_shape and _parse_resources: what a result file must say to be loaded.
ResultLoads(r) ==
  /\ r.termination \in Terminations(r.status) /\ r.proof = Proof(r.status)
  /\ r.visited <= r.stepLimit /\ r.visited <= r.space
  /\ r.status \in Positive => r.witness # <<>>
  /\ r.status \in Negative => r.witness = <<>>
  /\ r.status \in {"feasible", "bounded", "optimal"} => r.objective # <<>>
  /\ r.status \in {"satisfiable", "unsatisfiable"} => r.objective = <<>> /\ r.interval = <<>>
  /\ r.status \in {"bounded", "optimal"} => r.interval # <<>>
  /\ r.interval # <<>> => r.interval[1][1] <= r.interval[1][2]
  /\ r.status = "optimal" => r.interval[1][1] = r.interval[1][2]
  /\ r.status \in Positive \cup Negative => r.calls = 1 /\ r.visited > 0
  /\ r.status \in Negative \cup {"optimal"} => r.visited = r.space
  /\ r.status \in {"bounded", "unknown"} =>
       r.calls = 1 /\ r.visited = r.stepLimit /\ r.visited < r.space
  /\ r.status = "timeout" => r.calls = 1 /\ r.visited < r.space
  /\ r.status # "timeout" => r.elapsed = 0
  /\ r.status \in {"unavailable", "error"} => r.visited = 0 /\ r.checks = 0
  /\ r.status = "unavailable" => r.calls = 0
  /\ r.status = "error" => r.calls = 1
=============================================================================
