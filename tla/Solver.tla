------------------------------- MODULE Solver -------------------------------
(***************************************************************************)
(* M7: SolverService.run searches under a current M6 lease and publishes a *)
(* Result, SolverVerificationService.verify replays it, and the scheduler  *)
(* adopts the pair through validate_solver_task_result_evidence.  The      *)
(* lease is renewed by heartbeats and expires while all this happens, a    *)
(* file the request refers to may be replaced, and an adapter may report   *)
(* what it did not find: backend agreement is never a proof rule.          *)
(***************************************************************************)
EXTENDS SolverProblem

CONSTANTS
  SolverRequests,  \* [problem, solve, verify, timeout, adapter, reserved]
  Limits,          \* what the adapter supports, [problems, profiles, kinds], and how much
                   \* of it, [variables, values, space, constraints, width, rows, low, high]
  Ttl,             \* of the lease
  MaxNow,          \* bound: last reading of the clock
  Misreported      \* bound: the requests an adapter that errs may answer

\* What every parsed request is made of: lists of integers for domains, an integer
\* objective, one of the four claims, step limits and a timeout in numbers.
ProblemTyped(p) ==
  /\ p.domains \in Seq(Seq(Int))
  /\ p.constraints \in Seq(Range(p.constraints))
  /\ p.claim \in {"decision", "feasible", "bounded", "optimal"}
  /\ p.objective # <<>> =>
       /\ p.objective[1].constant \in Int
       /\ \A v \in DOMAIN p.objective[1].terms : p.objective[1].terms[v] \in Int
RequestTyped(q) ==
  /\ ProblemTyped(q.problem)
  /\ q.solve \in Nat /\ q.verify \in Nat
  /\ q.timeout # <<>> => q.timeout[1] \in Int

SolverBounds ==
  /\ Ttl \in Nat \ {0} /\ MaxNow \in Nat
  /\ Misreported \subseteq SolverRequests
  /\ \A q \in SolverRequests : RequestTyped(q)

VARIABLES
  asked,     \* the request
  intact,    \* whether every file the request binds still has its digest
  time,
  held,      \* the M6 lease: [current, expires]
  search,    \* <<>> or the run under way: [next, checks, best, start, deadline]
  reported,  \* <<>> or the published Result, with the lease it was found under
  honest,    \* whether the reference adapter found it (history)
  verdict,   \* <<>> or the published Verification
  adopted    \* what the scheduler settled the task with: "none", "succeeded", "failed"

solverVars == <<asked, intact, time, held, search, reported, honest, verdict, adopted>>

----------------------------------------------------------------------------
(* Running *)

\* _constraint_variable_count
ConstraintVariables(c) ==
  CASE c.kind = "linear" -> Cardinality(DOMAIN c.terms)
    [] c.kind = "all-different" -> Cardinality(c.over)
    [] c.kind = "table" -> Len(c.over)
    [] c.kind = "clause" -> Cardinality({l[1] : l \in c.literals})
    [] c.kind = "non-overlap" -> 2

ConstraintScalars(c) ==
  CASE c.kind = "linear" -> Range(c.terms) \cup {c.right}
    [] c.kind = "all-different" -> {}
    [] c.kind = "table" -> UNION {Range(row) : row \in c.rows}
    [] c.kind = "clause" -> {l[2] : l \in c.literals}
    [] c.kind = "non-overlap" -> {c.leftDuration, c.rightDuration}

\* _problem_scalars
Scalars(p) ==
  UNION {Range(p.domains[v]) : v \in Variables(p)}
    \cup UNION {ConstraintScalars(c) : c \in Range(p.constraints)}
    \cup UNION {Range(o.terms) \cup {o.constant} : o \in Range(p.objective)}

\* The adapter covers the problem; the sizes of files are left out.
AdapterCovers(p) ==
  /\ (IF p.objective = <<>> THEN "decision" ELSE "optimization") \in Limits.problems
  /\ p.profile \in Limits.profiles
  /\ Len(p.domains) <= Limits.variables
  /\ \A v \in Variables(p) : Len(p.domains[v]) <= Limits.values
  /\ Space(p) <= Limits.space
  /\ Len(p.constraints) <= Limits.constraints
  /\ \A c \in Range(p.constraints) :
       /\ c.kind \in Limits.kinds
       /\ ConstraintVariables(c) <= Limits.width
       /\ c.kind = "table" => Cardinality(c.rows) <= Limits.rows
  /\ \A x \in Scalars(p) : Limits.low <= x /\ x <= Limits.high

\* validate_request: the references hold and the adapter covers the problem.
RequestHolds == intact /\ ProblemLoads(asked.problem) /\ AdapterCovers(asked.problem)

\* observe and the reservation check of run.
LeaseServes == asked.reserved = asked.solve + asked.verify

BlankResult(status, termination, calls) ==
  [status |-> status, witness |-> <<>>, objective |-> <<>>, interval |-> <<>>,
   proof |-> Proof(status), termination |-> termination, calls |-> calls,
   visited |-> 0, space |-> Space(asked.problem), checks |-> 0, elapsed |-> 0,
   stepLimit |-> asked.solve, lease |-> held.expires]

Publish(r, real) ==
  /\ reported' = <<r>> /\ honest' = real /\ verdict' = <<>>
  /\ UNCHANGED <<asked, intact, time, held, adopted>>

\* run, up to the adapter: the exact current lease, not expired; an external adapter
\* is never called and truthfully reported unavailable.
Authorize ==
  /\ search = <<>> /\ adopted = "none"
  /\ RequestHolds /\ LeaseServes /\ held.current /\ time < held.expires
  /\ IF asked.adapter = "external-cli"
     THEN /\ Publish(BlankResult("unavailable", "adapter-unavailable", 0), TRUE)
          /\ UNCHANGED search
     ELSE /\ search' = <<[next |-> 0, checks |-> 0, best |-> <<>>,
                          start |-> time, deadline |-> held.expires]>>
          /\ UNCHANGED <<asked, intact, time, held, reported, honest, verdict, adopted>>

\* Why solve stops before looking at assignment s.next; tested in this order.
Stopped(s) ==
  IF s.next = Space(asked.problem) THEN "search-exhausted"
  ELSE IF time >= s.deadline THEN "lease-deadline"
  ELSE IF asked.timeout # <<>> /\ time >= s.start + asked.timeout[1] THEN "request-timeout"
  ELSE IF s.next >= asked.solve THEN "step-limit" ELSE "none"

\* A witness ends the search of a decision or of a feasible claim.
FirstEnough == asked.problem.claim \in {"decision", "feasible"}

\* _result_disposition
Disposition(termination, best) ==
  LET decision == asked.problem.objective = <<>>
  IN  CASE termination = "witness-found" -> IF decision THEN "satisfiable" ELSE "feasible"
        [] termination = "search-exhausted" ->
             IF decision THEN "unsatisfiable" ELSE IF best = <<>> THEN "infeasible" ELSE "optimal"
        [] termination = "step-limit" ->
             IF ~decision /\ best # <<>> THEN "bounded" ELSE "unknown"
        [] termination \in {"request-timeout", "lease-deadline"} -> "timeout"

\* The objective of the best witness, when the problem has one.
Value(best) ==
  IF asked.problem.objective = <<>> \/ best = <<>> THEN <<>>
  ELSE <<Objective(asked.problem, best[1])>>

\* _objective_interval
Interval(p, status, value) ==
  IF p.objective = <<>> \/ value = <<>> \/ status \notin {"optimal", "bounded"} THEN <<>>
  ELSE IF status = "optimal" THEN << <<value[1], value[1]>> >>
  ELSE IF Minimizes(p) THEN << <<DomainBound(p, TRUE), value[1]>> >>
  ELSE << <<value[1], DomainBound(p, FALSE)>> >>

Found(s, termination) ==
  LET status == Disposition(termination, s.best)
  IN  [BlankResult(status, termination, 1) EXCEPT
         !.witness = s.best, !.objective = Value(s.best),
         !.interval = Interval(asked.problem, status, Value(s.best)),
         !.visited = s.next, !.checks = s.checks, !.lease = s.deadline,
         !.elapsed = IF status = "timeout" THEN time - s.start ELSE 0]

\* One turn of solve's loop: it stops, or looks at one assignment.  A result that does
\* not load is never published.
Visit ==
  /\ search # <<>>
  /\ LET s == search[1]
         p == asked.problem
         a == Assignment(p, s.next)
         seen == Evaluated(p, a)
         looked == [s EXCEPT !.next = @ + 1, !.checks = @ + seen[2]]
         End(at, termination) ==
           /\ ResultLoads(Found(at, termination))
           /\ search' = <<>>
           /\ Publish(Found(at, termination), TRUE)
     IN  IF Stopped(s) # "none" THEN End(s, Stopped(s))
         ELSE IF seen[1] /\ FirstEnough THEN End([looked EXCEPT !.best = <<a>>], "witness-found")
         ELSE /\ search' = <<IF seen[1] /\ Improves(p, a, s.best)
                             THEN [looked EXCEPT !.best = <<a>>] ELSE looked>>
              /\ UNCHANGED <<asked, intact, time, held, reported, honest, verdict, adopted>>

\* A SolverAdapterError of the adapter port is reported as such.
AdapterFails ==
  /\ search # <<>> /\ search' = <<>>
  /\ Publish([BlankResult("error", "adapter-error", 1) EXCEPT !.lease = search[1].deadline], TRUE)

\* The process ends before it publishes.
Abandon ==
  /\ search # <<>> /\ search' = <<>>
  /\ UNCHANGED <<asked, intact, time, held, reported, honest, verdict, adopted>>

----------------------------------------------------------------------------
(* Verifying *)

\* What _resource_replay_matches finds by going through the first n assignments again,
\* of which those in fits satisfy the problem.
ReplayedOver(n, fits) ==
  LET p == asked.problem
      early == FirstEnough /\ fits # {}
      first == CHOOSE k \in fits : \A j \in fits : k <= j
      last == IF early THEN first ELSE n - 1
      Better(j, k) == Improves(p, Assignment(p, j), <<Assignment(p, k)>>)
      chosen == IF early THEN {first} ELSE {k \in fits : \A j \in fits \ {k} : ~Better(j, k)}
  IN  [early |-> early, steps |-> last + 1,
       checks |-> FoldFunction(+, 0, [k \in 0..last |-> Evaluated(p, Assignment(p, k))[2]]),
       best |-> SetToSeq({Assignment(p, k) : k \in chosen})]
Replayed(n) ==
  ReplayedOver(n, {k \in 0..n - 1 : Satisfies(asked.problem, Assignment(asked.problem, k))})

\* Whether the replayed prefix explains the termination a result names.
Explains(r, replay) ==
  CASE r.termination = "witness-found" -> replay.early
    [] r.termination = "search-exhausted" -> r.visited = r.space /\ ~replay.early
    [] r.termination = "step-limit" ->
         r.visited = asked.solve /\ r.visited < r.space /\ ~replay.early
    [] r.termination = "lease-deadline" -> r.visited < r.space /\ ~replay.early
    [] r.termination = "request-timeout" ->
         /\ r.visited < r.space /\ ~replay.early
         /\ asked.timeout # <<>> /\ r.elapsed >= asked.timeout[1]
    [] OTHER -> FALSE

\* What a result must say when the search it reports is replayed as a whole.
Concludes(r, replay, status) ==
  /\ Explains(r, replay)
  /\ r.checks = replay.checks /\ r.witness = replay.best
  /\ r.objective = Value(replay.best)
  /\ r.status = status /\ r.proof = Proof(status)
  /\ r.interval = Interval(asked.problem, status, r.objective)
  /\ r.status # "timeout" => r.elapsed = 0

\* _resource_replay_matches, given the replay of the first n assignments: whether the
\* evidence stands, whether the replay reached the end of it, the assignments evaluated.
Answer(stands, complete, steps) == [stands |-> stands, complete |-> complete, steps |-> steps]
ReplayMatches(r, n, replay) ==
  LET common == /\ r.space = Space(asked.problem) /\ r.stepLimit = asked.solve
                /\ r.visited <= asked.solve /\ r.calls <= 1
      unused == /\ r.visited = 0 /\ r.checks = 0 /\ r.elapsed = 0
                /\ r.witness = <<>> /\ r.objective = <<>> /\ r.interval = <<>>
  IN  IF ~common THEN Answer(FALSE, TRUE, 0)
      ELSE IF asked.adapter = "external-cli"
           THEN Answer(r.termination = "adapter-unavailable" /\ r.calls = 0 /\ unused
                         /\ r.status = "unavailable", TRUE, 0)
      ELSE IF r.termination = "adapter-error"
           THEN Answer(r.calls = 1 /\ unused /\ r.status = "error", TRUE, 0)
      ELSE IF r.calls # 1 \/ r.visited > r.space THEN Answer(FALSE, TRUE, 0)
      ELSE IF replay.checks > r.checks \/ (replay.early /\ replay.steps # r.visited)
           THEN Answer(FALSE, TRUE, replay.steps)
      ELSE IF n < r.visited THEN Answer(TRUE, FALSE, replay.steps)
      ELSE Answer(Concludes(r, replay, Disposition(r.termination, replay.best)), TRUE, replay.steps)
Replay(r) ==
  LET n == IF r.visited <= asked.verify THEN r.visited ELSE asked.verify
  IN  ReplayMatches(r, n, Replayed(n))

\* _claim_allows
M_ClaimAllows(claim, status) == status \in Positive \cup {"unsatisfiable"}
ClaimAllows(claim, status) ==
  status \in (CASE claim = "decision" -> {"satisfiable", "unsatisfiable"}
                [] claim = "feasible" -> {"feasible", "bounded", "optimal"}
                [] claim = "bounded" -> {"bounded", "optimal"}
                [] claim = "optimal" -> {"optimal"})

\* verify_loaded_solver_result: the whole lease evidence must be equal, its expiry included.
Judged(r, replay) ==
  LET outcome == IF ~replay.stands \/ r.lease # held.expires \/ ~LeaseServes THEN "rejected"
                 ELSE IF r.status \in Incomplete \/ ~replay.complete THEN "inconclusive"
                 ELSE "verified"
  IN  [outcome |-> outcome,
       allowed |-> outcome = "verified" /\ ClaimAllows(asked.problem.claim, r.status),
       steps |-> replay.steps, lease |-> held.expires]
Verification(r) == Judged(r, Replay(r))

\* verify: the lease may be history by now.
Verify ==
  /\ reported # <<>> /\ adopted = "none" /\ RequestHolds
  /\ verdict' = <<Verification(reported[1])>>
  /\ UNCHANGED <<asked, intact, time, held, search, reported, honest, adopted>>

\* validate_solver_task_result_evidence under the current lease: the Verification is
\* reproduced, and success is exactly what it allows.  The result releases the lease.
Adopt ==
  /\ verdict # <<>> /\ adopted = "none" /\ search = <<>>
  /\ RequestHolds /\ held.current /\ time < held.expires
  /\ verdict[1] = Verification(reported[1]) /\ verdict[1].outcome # "rejected"
  /\ adopted' = IF verdict[1].allowed THEN "succeeded" ELSE "failed"
  /\ held' = [held EXCEPT !.current = FALSE]
  /\ UNCHANGED <<asked, intact, time, search, reported, honest, verdict>>

----------------------------------------------------------------------------
(* The environment *)

\* An accepted heartbeat: a new lease artifact, the same authority.
Renew ==
  /\ held.current /\ time < held.expires /\ adopted = "none"
  /\ held' = [held EXCEPT !.expires = time + Ttl]
  /\ UNCHANGED <<asked, intact, time, search, reported, honest, verdict, adopted>>

\* A tick finds the lease expired.
Expire ==
  /\ held.current /\ time >= held.expires
  /\ held' = [held EXCEPT !.current = FALSE]
  /\ UNCHANGED <<asked, intact, time, search, reported, honest, verdict, adopted>>

Tick ==
  /\ time < MaxNow /\ time' = time + 1
  /\ UNCHANGED <<asked, intact, held, search, reported, honest, verdict, adopted>>

\* A referenced file is replaced.
ReplaceFile ==
  /\ intact /\ intact' = FALSE
  /\ UNCHANGED <<asked, time, held, search, reported, honest, verdict, adopted>>

\* An adapter that errs may put anything in a Result that loads: a status it has no ground
\* for, a witness that need not satisfy, the objective of some assignment, a bound at some
\* other.
ObjectivesOf(p) ==
  IF p.objective = <<>> THEN {} ELSE {Objective(p, Assignment(p, k)) : k \in 0..Space(p) - 1}
Stated(status, termination, witness, objective, interval, visited) ==
  [BlankResult(status, termination, 1) EXCEPT
     !.witness = witness, !.objective = objective, !.interval = interval,
     !.visited = visited, !.checks = Replayed(asked.solve).checks]
Misreport ==
  /\ asked \in Misreported /\ search = <<>> /\ reported = <<>> /\ held.current /\ adopted = "none" /\ time = 0
  /\ \E status \in {"satisfiable", "unsatisfiable", "bounded", "optimal", "infeasible"},
        termination \in {"witness-found", "search-exhausted", "step-limit"},
        witness \in {<<>>, <<Assignment(asked.problem, 1)>>},
        objective \in {<<>>} \cup {<<v>> : v \in ObjectivesOf(asked.problem)},
        interval \in {<<>>} \cup {<< <<v, v>> >> : v \in ObjectivesOf(asked.problem)},
        visited \in {asked.solve, Space(asked.problem)} :
       LET r == Stated(status, termination, witness, objective, interval, visited)
       IN  ResultLoads(r) /\ Publish(r, FALSE)
  /\ UNCHANGED search

SolverInit ==
  /\ asked \in SolverRequests /\ ProblemLoads(asked.problem)
  /\ intact = TRUE /\ time = 0 /\ held = [current |-> TRUE, expires |-> Ttl]
  /\ search = <<>> /\ reported = <<>> /\ honest = FALSE /\ verdict = <<>> /\ adopted = "none"

SolverNext ==
  \/ Authorize \/ Visit \/ AdapterFails \/ Abandon \/ Verify \/ Adopt
  \/ Renew \/ Expire \/ Tick \/ ReplaceFile \/ Misreport

SolverSpec == SolverInit /\ [][SolverNext]_solverVars

----------------------------------------------------------------------------
(* Properties *)

Solutions(p) == {a \in {Assignment(p, k) : k \in 0..Space(p) - 1} : Satisfies(p, a)}
Optimal(p, value) ==
  /\ \E a \in Solutions(p) : Objective(p, a) = value
  /\ \A a \in Solutions(p) : IF Minimizes(p) THEN value <= Objective(p, a) ELSE value >= Objective(p, a)

\* What a status says of the problem, without the search that found it.
States(p, r) ==
  /\ r.status \in Positive => r.witness[1] \in Solutions(p)
  /\ r.status \in Negative => Solutions(p) = {}
  /\ r.status \in {"feasible", "bounded", "optimal"} => r.objective[1] = Objective(p, r.witness[1])
  /\ r.status = "optimal" => Optimal(p, r.objective[1])
  /\ r.status \in {"bounded", "optimal"} =>
       \E v \in r.interval[1][1]..r.interval[1][2] : Optimal(p, v)

\* A task succeeds only with a result whose statement is true of the problem and answers
\* the claim, whoever wrote it, and with at most the reserved steps: verification trusts
\* no adapter (docs/mathematical-solver-framework.md, "Verification").
AdoptedIsProved ==
  adopted = "succeeded" =>
    LET r == reported[1]
        p == asked.problem
    IN  /\ States(p, r)
        /\ p.claim \in {"decision", "optimal"} =>
             r.status \in {"satisfiable", "unsatisfiable", "optimal"}
        /\ r.visited + verdict[1].steps <= asked.reserved

\* What ends a search is a result that loads.
FoundIsPublished ==
  \A s \in ToSet(search) : Stopped(s) # "none" => ResultLoads(Found(s, Stopped(s)))

\* Under the lease it was found with, what the reference adapter published is not rejected,
\* and verified when it answers and the replay capacity covers it.
HonestIsVerified ==
  honest /\ verdict # <<>> /\ verdict[1].lease = reported[1].lease =>
    /\ verdict[1].outcome # "rejected"
    /\ reported[1].status \notin Incomplete /\ reported[1].visited <= asked.verify =>
         verdict[1].outcome = "verified"

\* The loop of solve, the loader's accounting rules and the replay of verify, written apart,
\* agree: no honest search is lost at publication and none is rejected at verification.
HonestIsKept == FoundIsPublished /\ HonestIsVerified

\* A task succeeds on a solver only with a result its problem bears out, and no honest
\* search is lost on the way: what verify concludes is exact in both directions.
VerdictsExact == AdoptedIsProved /\ HonestIsKept

\* A heartbeat keeps the authority the result was found under ("Periodic heartbeats
\* refresh a new portable Lease projection without changing the stable authority ID"), so
\* what the adapter truthfully found stays usable after one.
RenewalKeepsEvidence == honest /\ verdict # <<>> => verdict[1].outcome # "rejected"
=============================================================================
