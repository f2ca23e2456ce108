---------------------------- MODULE SolverProofs ----------------------------
(***************************************************************************)
(* Proofs about Solver, for every set of requests, adapter limits, ttl and *)
(* adapter that errs: a task succeeds only with a result its problem bears *)
(* out, and what the reference adapter found survives publication and      *)
(* verification.  The first half is about the problems alone.              *)
(***************************************************************************)
EXTENDS Solver, SumProofs, SequenceTheorems

-----------------------------------------------------------------------------
\* Folds of the community modules.

\* A product, taken from the elements that c picks.
ProductFrom(g, f, c, s) == IF s = {} THEN 1 ELSE g[s \ {c[s]}] * f[c[s]]
ProductOf(g, f, c, A) == g = [s \in SUBSET A |-> ProductFrom(g, f, c, s)]

\* The recursion of a product has a solution, which is a positive number when
\* the factors are.
LEMMA ProductIs ==
  ASSUME NEW A, IsFiniteSet(A), NEW f, \A x \in A : f[x] \in Nat \ {0},
         NEW c, \A s \in SUBSET A : s # {} => c[s] \in s
  PROVE  (CHOOSE g : ProductOf(g, f, c, A))[A] \in Nat \ {0}
<1>. DEFINE P(g) == ProductOf(g, f, c, A)
            Upto(g, n) == \A s \in SUBSET A : Cardinality(s) <= n =>
                             g[s] = ProductFrom(g, f, c, s) /\ g[s] \in Nat \ {0}
            H == {n \in Nat : \E g : Upto(g, n)}
<1>0. \A s \in SUBSET A : IsFiniteSet(s) /\ Cardinality(s) \in Nat
  BY FS_Subset, FS_CardinalityType
<1>1. 0 \in H
  <2>. DEFINE g == [s \in SUBSET A |-> 1]
  <2>1. \A s \in SUBSET A : Cardinality(s) <= 0 => s = {}
    BY <1>0, NoElements
  <2>2. Upto(g, 0)
    BY <2>1 DEF ProductFrom
  <2>. QED BY <2>2
<1>2. ASSUME NEW g, NEW n \in Nat, Upto(g, n)
      PROVE  Upto([s \in SUBSET A |-> ProductFrom(g, f, c, s)], n + 1)
  <2>. DEFINE h == [s \in SUBSET A |-> ProductFrom(g, f, c, s)]
  <2>1. ASSUME NEW s \in SUBSET A, Cardinality(s) <= n + 1, s # {}
        PROVE  /\ h[s \ {c[s]}] = g[s \ {c[s]}] /\ g[s \ {c[s]}] \in Nat \ {0}
               /\ f[c[s]] \in Nat \ {0}
    <3>1. c[s] \in s
      BY <2>1
    <3>2. s \ {c[s]} \in SUBSET A /\ Cardinality(s \ {c[s]}) <= n
      BY <1>0, <2>1, <3>1, Smaller
    <3>. QED BY <1>2, <3>1, <3>2
  <2>2. ASSUME NEW s \in SUBSET A, Cardinality(s) <= n + 1
        PROVE  h[s] = ProductFrom(h, f, c, s) /\ h[s] \in Nat \ {0}
    <3>1. h[s] = ProductFrom(g, f, c, s)
      OBVIOUS
    <3>2. CASE s = {}
      BY <3>1, <3>2 DEF ProductFrom
    <3>3. CASE s # {}
      <4>. HIDE DEF h
      <4>1. ProductFrom(h, f, c, s) = ProductFrom(g, f, c, s)
        BY <2>1, <2>2, <3>3 DEF ProductFrom
      <4>2. \A x, y \in Nat \ {0} : x * y \in Nat \ {0}
        OBVIOUS
      <4>3. ProductFrom(g, f, c, s) \in Nat \ {0}
        BY <2>1, <2>2, <3>3, <4>2 DEF ProductFrom
      <4>. QED BY <3>1, <4>1, <4>3
    <3>. QED BY <3>2, <3>3
  <2>. QED BY <2>2
<1>3. ASSUME NEW n \in Nat, n \in H
      PROVE  n + 1 \in H
  <2>1. PICK g : Upto(g, n)
    BY <1>3
  <2>2. Upto([s \in SUBSET A |-> ProductFrom(g, f, c, s)], n + 1)
    BY <1>2, <2>1
  <2>. HIDE DEF Upto
  <2>. QED BY <2>2
<1>4. Cardinality(A) \in H
  <2>. HIDE DEF H
  <2>. QED BY <1>0, <1>1, <1>3, AllNumbers
<1>5. PICK g : Upto(g, Cardinality(A))
  BY <1>4
<1>6. \A s \in SUBSET A : g[s] = ProductFrom(g, f, c, s)
  <2>1. \A s \in SUBSET A : Cardinality(s) <= Cardinality(A)
    BY FS_Subset
  <2>. QED BY <1>5, <2>1
<1>. DEFINE h == [s \in SUBSET A |-> ProductFrom(g, f, c, s)]
<1>7. \A s \in SUBSET A : ProductFrom(h, f, c, s) = ProductFrom(g, f, c, s)
  BY <1>6 DEF ProductFrom
<1>8. P(h)
  BY <1>7 DEF ProductOf
<1>9. ASSUME NEW k, P(k)
      PROVE  k[A] \in Nat \ {0}
  <2>. DEFINE K == {n \in Nat : \A s \in SUBSET A : Cardinality(s) = n => k[s] \in Nat \ {0}}
  <2>0. \A s \in SUBSET A : k[s] = ProductFrom(k, f, c, s)
    BY <1>9 DEF ProductOf
  <2>1. 0 \in K
    <3>1. ASSUME NEW s \in SUBSET A, Cardinality(s) = 0
          PROVE  k[s] = 1
      BY <1>0, <2>0, <3>1, NoElements DEF ProductFrom
    <3>. QED BY <3>1
  <2>2. ASSUME NEW n \in Nat, n \in K
        PROVE  n + 1 \in K
    <3>1. ASSUME NEW s \in SUBSET A, Cardinality(s) = n + 1
          PROVE  k[s] \in Nat \ {0}
      <4>1. s # {}
        BY <1>0, <3>1, NoElements
      <4>2. c[s] \in s
        BY <4>1
      <4>3. s \ {c[s]} \in SUBSET A /\ Cardinality(s \ {c[s]}) = n
        BY <1>0, <3>1, <4>2, Smaller
      <4>4. k[s \ {c[s]}] \in Nat \ {0} /\ f[c[s]] \in Nat \ {0}
        BY <2>2, <4>2, <4>3
      <4>5. k[s] = k[s \ {c[s]}] * f[c[s]]
        BY <2>0, <4>1 DEF ProductFrom
      <4>6. \A x, y \in Nat \ {0} : x * y \in Nat \ {0}
        OBVIOUS
      <4>. QED BY <4>4, <4>5, <4>6
    <3>. QED BY <3>1
  <2>3. Cardinality(A) \in K
    <3>. HIDE DEF K
    <3>. QED BY <1>0, <2>1, <2>2, AllNumbers
  <2>. QED BY <2>3
<1>10. P(CHOOSE k : P(k))
  <2>. HIDE DEF P, h
  <2>. QED BY <1>8
<1>. HIDE DEF P
<1>11. (CHOOSE k : P(k))[A] \in Nat \ {0}
  BY <1>9, <1>10
<1>. QED BY <1>11 DEF P

\* Domains that are not empty have a product of sizes.
LEMMA SizesMultiply ==
  ASSUME NEW ds \in Seq(Seq(Int)), \A i \in DOMAIN ds : ds[i] # <<>>
  PROVE  FoldLeft(LAMBDA n, values : n * Len(values), 1, ds) \in Nat \ {0}
<1>. DEFINE A == DOMAIN ds
            f == [i \in A |-> Len(ds[i])]
            c == [s \in SUBSET A |-> Max(s)]
            P(g) == ProductOf(g, f, c, A)
            Q(g) == g = [s \in SUBSET A |->
                           IF s = {} THEN 1 ELSE LET x == Max(s) IN g[s \ {x}] * Len(ds[x])]
<1>0. A = 1..Len(ds) /\ Len(ds) \in Nat /\ IsFiniteSet(A) /\ A \in SUBSET Int
  <2>1. A = 1..Len(ds) /\ Len(ds) \in Nat
    OBVIOUS
  <2>. HIDE DEF A
  <2>. QED BY <2>1, FS_Interval
<1>1. \A x \in A : f[x] \in Nat \ {0}
  OBVIOUS
<1>2. ASSUME NEW s \in SUBSET A, s # {}
      PROVE  c[s] = Max(s) /\ c[s] \in s
  <2>1. s \in SUBSET Int /\ IsFiniteSet(s)
    BY <1>0, FS_Subset
  <2>2. \E x \in s : \A y \in s : x >= y
    BY <1>2, <2>1, Extremes
  <2>. QED BY <2>2 DEF Max
<1>3. ASSUME NEW g
      PROVE  P(g) <=> Q(g)
  <2>1. ASSUME NEW s \in SUBSET A
        PROVE  ProductFrom(g, f, c, s)
                 = (IF s = {} THEN 1 ELSE LET x == Max(s) IN g[s \ {x}] * Len(ds[x]))
    BY <1>2 DEF ProductFrom
  <2>2. [s \in SUBSET A |-> ProductFrom(g, f, c, s)]
      = [s \in SUBSET A |-> IF s = {} THEN 1 ELSE LET x == Max(s) IN g[s \ {x}] * Len(ds[x])]
    BY <2>1
  <2>. QED BY <2>2 DEF ProductOf
<1>4. (CHOOSE g : P(g))[A] \in Nat \ {0}
  <2>. HIDE DEF f, c, A
  <2>. QED BY <1>0, <1>1, <1>2, ProductIs
<1>5. FoldLeft(LAMBDA n, values : n * Len(values), 1, ds) = (CHOOSE g : Q(g))[A]
  BY DEF FoldLeft, MapThenFoldSet
<1>. HIDE DEF P, Q, A
<1>6. (CHOOSE g : P(g)) = (CHOOSE g : Q(g))
  BY <1>3
<1>. QED BY <1>4, <1>5, <1>6

\* Adding up a function is the sum of its values.
LEMMA FoldIsTotal ==
  ASSUME NEW A, IsFiniteSet(A), NEW f, DOMAIN f = A
  PROVE  FoldFunction(+, 0, f) = Total(f, A)
<1>. DEFINE Q(g) == g = [s \in SUBSET A |->
                           IF s = {} THEN 0
                           ELSE LET x == CHOOSE x \in s : TRUE IN f[x] + g[s \ {x}]]
<1>1. ASSUME NEW g
      PROVE  FoldOf(g, f, A) <=> Q(g)
  BY DEF FoldOf, SumFrom, Taken, Rest
<1>2. FoldFunction(+, 0, f) = (CHOOSE g : Q(g))[A]
  BY DEF FoldFunction, FoldFunctionOnSet, MapThenFoldSet
<1>. HIDE DEF Q
<1>3. (CHOOSE g : Q(g)) = (CHOOSE g : FoldOf(g, f, A))
  BY <1>1
<1>. QED BY <1>2, <1>3 DEF Total

\* A function of a finite set has a finite range.
LEMMA RangeFinite ==
  ASSUME NEW f, IsFiniteSet(DOMAIN f)
  PROVE  IsFiniteSet(Range(f))
<1>. DEFINE g == [x \in DOMAIN f |-> f[x]]
<1>2. g \in Surjection(DOMAIN f, Range(f))
  BY DEF Surjection, Range
<1>. QED BY <1>2, FS_Surjection

\* Listing a finite set: a first element, unless it has none.
LEMMA ListIs ==
  ASSUME NEW S, IsFiniteSet(S)
  PROVE  /\ S = {} => SetToSeq(S) = <<>>
         /\ S # {} => SetToSeq(S) # <<>> /\ SetToSeq(S)[1] \in S
         /\ \A x : S = {x} => SetToSeq(S) = <<x>>
<1>. DEFINE n == Cardinality(S)
            l == SetToSeq(S)
<1>1. n \in Nat /\ ExistsBijection(1..n, S)
  BY FS_CardinalityType
<1>2. PICK f \in [1..n -> S] : IsInjective(f)
  BY <1>1 DEF ExistsBijection, Bijection, Injection
<1>3. l \in [1..n -> S]
  BY <1>2 DEF SetToSeq
<1>4. S = {} <=> n = 0
  BY FS_EmptySet
<1>5. \A x : S = {x} => n = 1
  BY FS_Singleton
<1>. HIDE DEF n, l
<1>6. S = {} => l = <<>>
  BY <1>3, <1>4
<1>7. S # {} => l # <<>> /\ l[1] \in S
  BY <1>1, <1>3, <1>4
<1>8. ASSUME NEW x, S = {x}
      PROVE  l = <<x>>
  <2>1. n = 1
    BY <1>5, <1>8
  <2>2. l = [i \in 1..1 |-> x]
    BY <1>3, <1>8, <2>1
  <2>3. <<x>> = [i \in 1..1 |-> x]
    OBVIOUS
  <2>. QED BY <2>2, <2>3
<1>. QED BY <1>6, <1>7, <1>8 DEF l

\* A list of one.
LEMMA ListOfOne ==
  ASSUME NEW x
  PROVE  SetToSeq({x}) = <<x>>
<1>1. IsFiniteSet({x})
  BY FS_Singleton
<1>. QED BY <1>1, ListIs

-----------------------------------------------------------------------------
\* Problems.

Loaded(p) == ProblemTyped(p) /\ ProblemLoads(p)

\* A problem has finitely many variables, and some assignments.
LEMMA SpaceIs ==
  ASSUME NEW p, Loaded(p)
  PROVE  /\ Space(p) \in Nat \ {0} /\ IsFiniteSet(Variables(p))
         /\ Len(p.domains) \in Nat /\ Variables(p) = 1..Len(p.domains)
<1>1. /\ p.domains \in Seq(Seq(Int))
      /\ \A v \in DOMAIN p.domains : p.domains[v] # <<>>
  BY DEF Loaded, ProblemTyped, ProblemLoads, DomainLoads, Variables
<1>2. Len(p.domains) \in Nat /\ Variables(p) = 1..Len(p.domains)
  BY <1>1 DEF Variables
<1>3. IsFiniteSet(Variables(p))
  BY <1>2, FS_Interval
<1>4. Space(p) \in Nat \ {0}
  BY <1>1, SizesMultiply DEF Space
<1>. QED BY <1>2, <1>3, <1>4

\* A complete choice of values.
Assigns(p, a) ==
  /\ a \in [Variables(p) -> Int]
  /\ \A v \in Variables(p) : a[v] \in Range(p.domains[v])

\* Every assignment that is visited is one.
LEMMA AssignmentIs ==
  ASSUME NEW p, Loaded(p), NEW k \in Nat
  PROVE  Assigns(p, Assignment(p, k))
<1>. DEFINE Stride(v) == FoldLeft(LAMBDA n, values : n * Len(values), 1,
                                  SubSeq(p.domains, v + 1, Len(p.domains)))
<1>0. /\ p.domains \in Seq(Seq(Int))
      /\ \A v \in Variables(p) : p.domains[v] # <<>>
  BY DEF Loaded, ProblemTyped, ProblemLoads, DomainLoads
<1>1. Assignment(p, k) = [v \in Variables(p) |->
                            p.domains[v][((k \div Stride(v)) % Len(p.domains[v])) + 1]]
  BY DEF Assignment
<1>2. ASSUME NEW v \in Variables(p)
      PROVE  LET x == Assignment(p, k)[v] IN x \in Int /\ x \in Range(p.domains[v])
  <2>. DEFINE rest == SubSeq(p.domains, v + 1, Len(p.domains))
              values == p.domains[v]
  <2>1. v \in 1..Len(p.domains) /\ Len(p.domains) \in Nat
    BY SpaceIs
  <2>2. rest \in Seq(Seq(Int)) /\ \A i \in DOMAIN rest : rest[i] # <<>>
    <3>1. \A i \in (v + 1)..Len(p.domains) : p.domains[i] \in Seq(Int) /\ p.domains[i] # <<>>
      BY <1>0, <2>1 DEF Variables
    <3>2. \A i \in (v + 1)..Len(p.domains) : p.domains[i] \in Seq(Int) \ {<<>>}
      BY <3>1
    <3>3. rest \in Seq(Seq(Int) \ {<<>>})
      <4>. HIDE DEF rest
      <4>1. SubSeq(p.domains, v + 1, Len(p.domains)) \in Seq(Seq(Int) \ {<<>>})
        BY <2>1, <3>2, SubSeqProperties
      <4>. QED BY <4>1 DEF rest
    <3>. HIDE DEF rest
    <3>. QED BY <3>3
  <2>3. Stride(v) \in Nat \ {0}
    <3>. HIDE DEF rest
    <3>1. FoldLeft(LAMBDA n, vs : n * Len(vs), 1, rest) \in Nat \ {0}
      BY <2>2, SizesMultiply
    <3>. QED BY <3>1 DEF rest
  <2>4. values \in Seq(Int) /\ Len(values) \in Nat \ {0} /\ DOMAIN values = 1..Len(values)
    BY <1>0 DEF Variables
  <2>5. Assignment(p, k)[v] = values[((k \div Stride(v)) % Len(values)) + 1]
    BY <1>1
  <2>. HIDE DEF Stride, values
  <2>6. k \div Stride(v) \in Int
    BY <2>3
  <2>7. ((k \div Stride(v)) % Len(values)) + 1 \in DOMAIN values
    BY <2>4, <2>6
  <2>8. values[((k \div Stride(v)) % Len(values)) + 1] \in Int
    BY <2>4, <2>7
  <2>. QED BY <2>5, <2>7, <2>8 DEF Range, values
<1>3. Assignment(p, k) \in [Variables(p) -> Int]
  <2>. HIDE DEF Stride
  <2>. QED BY <1>1, <1>2
<1>. QED BY <1>2, <1>3 DEF Assigns

\* An objective is a number between the best and the worst its terms can reach.
LEMMA ObjectiveIs ==
  ASSUME NEW p, Loaded(p), p.objective # <<>>, NEW a, Assigns(p, a)
  PROVE  /\ Objective(p, a) \in Int
         /\ DomainBound(p, TRUE) \in Int /\ DomainBound(p, FALSE) \in Int
         /\ DomainBound(p, TRUE) <= Objective(p, a)
         /\ Objective(p, a) <= DomainBound(p, FALSE)
<1>. DEFINE terms == p.objective[1].terms
            constant == p.objective[1].constant
            T == DOMAIN terms
            Reach(v) == {terms[v] * x : x \in Range(p.domains[v])}
            f == [v \in T |-> terms[v] * a[v]]
            low == [v \in T |-> CHOOSE x \in Reach(v) :
                              \A y \in Reach(v) : IF TRUE THEN x <= y ELSE x >= y]
            high == [v \in T |-> CHOOSE x \in Reach(v) :
                              \A y \in Reach(v) : IF FALSE THEN x <= y ELSE x >= y]
<1>0. /\ constant \in Int /\ \A v \in T : terms[v] \in Int
      /\ T \in SUBSET Variables(p) /\ p.domains \in Seq(Seq(Int))
  BY DEF Loaded, ProblemTyped, ProblemLoads, TermsLoad
<1>1. IsFiniteSet(T)
  BY <1>0, SpaceIs, FS_Subset
<1>2. ASSUME NEW v \in T
      PROVE  /\ f[v] \in Int /\ low[v] \in Int /\ high[v] \in Int
             /\ low[v] <= f[v] /\ f[v] <= high[v]
  <2>1. a[v] \in Range(p.domains[v]) /\ a[v] \in Int /\ terms[v] \in Int
    BY <1>0 DEF Assigns
  <2>2. p.domains[v] \in Seq(Int)
    BY <1>0 DEF Variables
  <2>3. Range(p.domains[v]) \subseteq Int
    BY <2>2 DEF Range
  <2>4. f[v] \in Reach(v) /\ Reach(v) \in SUBSET Int
    BY <2>1, <2>3
  <2>5. IsFiniteSet(Reach(v))
    <3>1. DOMAIN p.domains[v] = 1..Len(p.domains[v]) /\ Len(p.domains[v]) \in Nat
      BY <2>2
    <3>2. IsFiniteSet(DOMAIN p.domains[v])
      BY <3>1, FS_Interval
    <3>. DEFINE g == [i \in DOMAIN p.domains[v] |-> terms[v] * p.domains[v][i]]
    <3>3. Reach(v) = Range(g) /\ DOMAIN g = DOMAIN p.domains[v]
      BY DEF Range
    <3>. HIDE DEF Reach, g
    <3>. QED BY <3>2, <3>3, RangeFinite
  <2>. HIDE DEF Reach
  <2>6. /\ \E x \in Reach(v) : \A y \in Reach(v) : x <= y
        /\ \E x \in Reach(v) : \A y \in Reach(v) : x >= y
    BY <2>4, <2>5, Extremes
  <2>7. /\ low[v] \in Reach(v) /\ low[v] <= f[v]
        /\ high[v] \in Reach(v) /\ high[v] >= f[v]
    BY <2>4, <2>6
  <2>. QED BY <2>4, <2>7
<1>3. Objective(p, a) = constant + FoldFunction(+, 0, f)
  BY DEF Objective, Linear
<1>8. DomainBound(p, TRUE) = constant + FoldFunction(+, 0, low)
  BY DEF DomainBound
<1>9. DomainBound(p, FALSE) = constant + FoldFunction(+, 0, high)
  BY DEF DomainBound
<1>4. DOMAIN f = T /\ DOMAIN low = T /\ DOMAIN high = T
  OBVIOUS
<1>. HIDE DEF f, low, high, T, constant
<1>5. /\ FoldFunction(+, 0, f) = Total(f, T)
      /\ FoldFunction(+, 0, low) = Total(low, T)
      /\ FoldFunction(+, 0, high) = Total(high, T)
  BY <1>1, <1>4, FoldIsTotal
<1>6. Total(f, T) \in Int /\ Total(low, T) \in Int /\ Total(high, T) \in Int
  BY <1>1, <1>2, TotalType
<1>7. Total(low, T) <= Total(f, T) /\ Total(f, T) <= Total(high, T)
  BY <1>1, <1>2, TotalAtMost
<1>10. /\ Objective(p, a) = constant + Total(f, T)
       /\ DomainBound(p, TRUE) = constant + Total(low, T)
       /\ DomainBound(p, FALSE) = constant + Total(high, T)
  BY <1>3, <1>5, <1>8, <1>9
<1>11. constant \in Int
  BY <1>0
<1>. DEFINE x == Total(f, T)
            y == Total(low, T)
            z == Total(high, T)
<1>12. x \in Int /\ y \in Int /\ z \in Int /\ y <= x /\ x <= z
  BY <1>6, <1>7
<1>. DEFINE value == Objective(p, a)
            worst == DomainBound(p, TRUE)
            best == DomainBound(p, FALSE)
<1>13. value = constant + x /\ worst = constant + y /\ best = constant + z
  BY <1>10
<1>. HIDE DEF x, y, z, value, worst, best
<1>14. value \in Int /\ worst \in Int /\ best \in Int /\ worst <= value /\ value <= best
  BY <1>11, <1>12, <1>13
<1>. QED BY <1>14 DEF value, worst, best
-----------------------------------------------------------------------------
\* What a replay finds.

\* The satisfying ones among the first n assignments.
Fits(p, n) == {k \in 0..n - 1 : Satisfies(p, Assignment(p, k))}

\* Those none of the others improves upon.
Unimproved(p, n) ==
  {k \in Fits(p, n) : \A j \in Fits(p, n) \ {k} :
                        ~Improves(p, Assignment(p, j), <<Assignment(p, k)>>)}

Looked(p, last) == FoldFunction(+, 0, [k \in 0..last |-> Evaluated(p, Assignment(p, k))[2]])

\* A replay stops at the first of them where one is enough, and else chooses
\* among all of them.
LEMMA ReplayIs ==
  ASSUME NEW n \in Nat
  PROVE  LET p == asked.problem
             replay == Replayed(n)
         IN  /\ replay.early <=> FirstEnough /\ Fits(p, n) # {}
             /\ replay.early =>
                  \E k \in Fits(p, n) :
                    /\ \A j \in Fits(p, n) : k <= j
                    /\ replay.steps = k + 1 /\ replay.best = <<Assignment(p, k)>>
             /\ ~replay.early =>
                  /\ replay.steps = n
                  /\ replay.best = SetToSeq({Assignment(p, k) : k \in Unimproved(p, n)})
             /\ replay.checks = Looked(p, replay.steps - 1)
<1>. DEFINE p == asked.problem
            fits == Fits(p, n)
            early == FirstEnough /\ fits # {}
            first == CHOOSE k \in fits : \A j \in fits : k <= j
            last == IF early THEN first ELSE n - 1
            chosen == IF early THEN {first} ELSE Unimproved(p, n)
            best == SetToSeq({Assignment(p, k) : k \in chosen})
            replay == Replayed(n)
<1>1. replay = [early |-> early, steps |-> last + 1, checks |-> Looked(p, last), best |-> best]
  BY DEF Replayed, ReplayedOver, Fits, Unimproved, Looked
<1>2. /\ replay.early = early /\ replay.steps = last + 1
      /\ replay.checks = Looked(p, last) /\ replay.best = best
  <2>. HIDE DEF early, last, best, p, replay
  <2>. QED BY <1>1
<1>3. CASE early
  <2>1. fits \in SUBSET Nat /\ fits # {}
    BY <1>3 DEF Fits
  <2>2. \E k \in fits : \A j \in fits : k <= j
    <3>. HIDE DEF fits
    <3>. QED BY <2>1, LeastNumber
  <2>3. first \in fits /\ \A j \in fits : first <= j
    BY <2>2
  <2>4. last = first /\ chosen = {first} /\ first \in Nat
    BY <1>3, <2>1, <2>3
  <2>5. {Assignment(p, k) : k \in chosen} = {Assignment(p, first)}
    BY <2>4
  <2>6. best = <<Assignment(p, first)>>
    BY <2>5, ListOfOne
  <2>7. last = (last + 1) - 1
    BY <2>4
  <2>. HIDE DEF first, last, best, chosen, fits, early, replay, p
  <2>. QED BY <1>2, <1>3, <2>3, <2>4, <2>6, <2>7 DEF fits, early, replay, p
<1>4. CASE ~early
  <2>1. last = n - 1 /\ chosen = Unimproved(p, n) /\ last = (last + 1) - 1 /\ last + 1 = n
    BY <1>4
  <2>2. best = SetToSeq({Assignment(p, k) : k \in Unimproved(p, n)})
    BY <2>1
  <2>. HIDE DEF first, last, best, chosen, fits, early, replay, p
  <2>. QED BY <1>2, <1>4, <2>1, <2>2 DEF fits, early, replay, p
<1>. QED BY <1>3, <1>4
\* The assignments that satisfy a problem are finitely many, and a full replay
\* sees them all.
LEMMA SolutionsAre ==
  ASSUME NEW p, Loaded(p)
  PROVE  /\ Solutions(p) = {Assignment(p, k) : k \in Fits(p, Space(p))}
         /\ IsFiniteSet(Solutions(p))
         /\ \A a \in Solutions(p) : Assigns(p, a)
         /\ \A n \in Nat : n <= Space(p) => Fits(p, n) \subseteq Fits(p, Space(p))
<1>. DEFINE N == Space(p)
            f == [k \in Fits(p, N) |-> Assignment(p, k)]
<1>0. N \in Nat
  BY SpaceIs
<1>1. Solutions(p) = {Assignment(p, k) : k \in Fits(p, N)}
  BY DEF Solutions, Fits
<1>2. IsFiniteSet(Fits(p, N))
  <2>1. IsFiniteSet(0..N - 1) /\ Fits(p, N) \in SUBSET (0..N - 1)
    BY <1>0, FS_Interval DEF Fits
  <2>. QED BY <2>1, FS_Subset
<1>3. Solutions(p) = Range(f) /\ DOMAIN f = Fits(p, N)
  BY <1>1 DEF Range
<1>4. IsFiniteSet(Solutions(p))
  <2>. HIDE DEF f
  <2>. QED BY <1>2, <1>3, RangeFinite
<1>5. \A a \in Solutions(p) : Assigns(p, a)
  BY <1>1, AssignmentIs DEF Fits
<1>6. \A n \in Nat : n <= N => Fits(p, n) \subseteq Fits(p, N)
  BY <1>0 DEF Fits
<1>. QED BY <1>1, <1>4, <1>5, <1>6

\* A problem with a solution has a best one, as good as the solution and no
\* better than the terms of the objective allow.
LEMMA BestExists ==
  ASSUME NEW p, Loaded(p), p.objective # <<>>, NEW a \in Solutions(p)
  PROVE  LET value == Objective(p, a)
             low == IF Minimizes(p) THEN DomainBound(p, TRUE) ELSE value
             high == IF Minimizes(p) THEN value ELSE DomainBound(p, FALSE)
         IN  \E v \in low..high : Optimal(p, v)
<1>. DEFINE f == [b \in Solutions(p) |-> Objective(p, b)]
            values == Range(f)
            value == Objective(p, a)
            worst == DomainBound(p, TRUE)
            best == DomainBound(p, FALSE)
<1>1. ASSUME NEW b \in Solutions(p)
      PROVE  /\ Objective(p, b) \in Int /\ worst \in Int /\ best \in Int
             /\ worst <= Objective(p, b) /\ Objective(p, b) <= best
  BY SolutionsAre, ObjectiveIs
<1>2. values \in SUBSET Int /\ values # {} /\ IsFiniteSet(values)
  <2>1. values \in SUBSET Int /\ value \in values
    BY <1>1 DEF Range
  <2>2. IsFiniteSet(DOMAIN f)
    BY SolutionsAre
  <2>3. IsFiniteSet(values)
    <3>. HIDE DEF f
    <3>. QED BY <2>2, RangeFinite
  <2>. QED BY <2>1, <2>3
<1>3. \A v : v \in values <=> \E b \in Solutions(p) : v = Objective(p, b)
  BY DEF Range
<1>. HIDE DEF values, worst, best, value
<1>4. PICK least \in values : \A v \in values : least <= v
  BY <1>2, Extremes
<1>5. PICK greatest \in values : \A v \in values : greatest >= v
  BY <1>2, Extremes
<1>6. value \in values
  BY <1>3 DEF value
<1>7. CASE Minimizes(p)
  <2>1. Optimal(p, least)
    BY <1>3, <1>4, <1>7 DEF Optimal
  <2>2. worst <= least
    BY <1>1, <1>3, <1>4
  <2>3. least \in worst..value
    BY <1>1, <1>2, <1>4, <1>6, <2>2 DEF value
  <2>. QED BY <1>7, <2>1, <2>3 DEF worst, value
<1>8. CASE ~Minimizes(p)
  <2>1. Optimal(p, greatest)
    BY <1>3, <1>5, <1>8 DEF Optimal
  <2>2. greatest <= best
    BY <1>1, <1>3, <1>5
  <2>3. greatest \in value..best
    BY <1>1, <1>2, <1>5, <1>6, <2>2 DEF value
  <2>. QED BY <1>8, <2>1, <2>3 DEF best, value
<1>. QED BY <1>7, <1>8

\* Assignments are ordered, value by value.
LEMMA BeforeIs ==
  ASSUME NEW n \in Nat, NEW a \in [1..n -> Int], NEW b \in [1..n -> Int],
         NEW c \in [1..n -> Int]
  PROVE  /\ ~Before(a, a)
         /\ a # b => Before(a, b) \/ Before(b, a)
         /\ Before(a, b) /\ Before(b, c) => Before(a, c)
<1>1. ~Before(a, a)
  BY DEF Before
<1>2. ASSUME a # b
      PROVE  Before(a, b) \/ Before(b, a)
  <2>. DEFINE D == {i \in 1..n : a[i] # b[i]}
  <2>1. D \in SUBSET Nat /\ D # {}
    <3>1. a = [i \in 1..n |-> a[i]] /\ b = [i \in 1..n |-> b[i]]
      OBVIOUS
    <3>2. \E i \in 1..n : a[i] # b[i]
      BY <1>2, <3>1
    <3>3. D # {}
      BY <3>2
    <3>4. D \in SUBSET Nat
      OBVIOUS
    <3>. QED BY <3>3, <3>4
  <2>2. PICK i \in D : \A j \in D : i <= j
    <3>. HIDE DEF D
    <3>. QED BY <2>1, LeastNumber
  <2>3. \A j \in 1..i - 1 : j \in 1..n /\ a[j] = b[j]
    BY <2>2
  <2>4. a[i] < b[i] \/ b[i] < a[i]
    BY <2>2
  <2>. QED BY <2>2, <2>3, <2>4 DEF Before
<1>3. ASSUME Before(a, b), Before(b, c)
      PROVE  Before(a, c)
  <2>1. PICK i \in 1..n : a[i] < b[i] /\ \A k \in 1..i - 1 : a[k] = b[k]
    BY <1>3 DEF Before
  <2>2. PICK j \in 1..n : b[j] < c[j] /\ \A k \in 1..j - 1 : b[k] = c[k]
    BY <1>3 DEF Before
  <2>3. i \in Nat /\ j \in Nat /\ a[i] \in Int /\ b[i] \in Int /\ c[i] \in Int
        /\ a[j] \in Int /\ b[j] \in Int /\ c[j] \in Int
    OBVIOUS
  <2>4. CASE i < j
    <3>1. i \in 1..j - 1
      BY <2>3, <2>4
    <3>2. a[i] < c[i] /\ \A k \in 1..i - 1 : k \in 1..j - 1
      BY <2>1, <2>2, <2>3, <2>4, <3>1
    <3>. QED BY <2>1, <2>2, <3>2 DEF Before
  <2>5. CASE j < i
    <3>1. j \in 1..i - 1
      BY <2>3, <2>5
    <3>2. a[j] < c[j] /\ \A k \in 1..j - 1 : k \in 1..i - 1
      BY <2>1, <2>2, <2>3, <2>5, <3>1
    <3>. QED BY <2>1, <2>2, <3>2 DEF Before
  <2>6. CASE i = j
    <3>1. a[i] < c[i]
      BY <2>1, <2>2, <2>3, <2>6
    <3>. QED BY <2>1, <2>2, <2>6, <3>1 DEF Before
  <2>. QED BY <2>3, <2>4, <2>5, <2>6
<1>. QED BY <1>1, <1>2, <1>3

\* Improving is a strict total order of assignments.
LEMMA ImprovesIs ==
  ASSUME NEW p, Loaded(p), p.objective # <<>>,
         NEW a, Assigns(p, a), NEW b, Assigns(p, b), NEW c, Assigns(p, c)
  PROVE  /\ ~Improves(p, a, <<a>>)
         /\ a # b => Improves(p, a, <<b>>) \/ Improves(p, b, <<a>>)
         /\ Improves(p, a, <<b>>) /\ Improves(p, b, <<c>>) => Improves(p, a, <<c>>)
<1>. DEFINE n == Len(p.domains)
            Better(x, y) == IF Minimizes(p) THEN x < y ELSE x > y
            Beats(x, y) == \/ Better(Objective(p, x), Objective(p, y))
                           \/ Objective(p, x) = Objective(p, y) /\ Before(x, y)
<1>1. n \in Nat /\ a \in [1..n -> Int] /\ b \in [1..n -> Int] /\ c \in [1..n -> Int]
  BY SpaceIs DEF Assigns
<1>2. /\ Objective(p, a) \in Int /\ Objective(p, b) \in Int /\ Objective(p, c) \in Int
  BY ObjectiveIs
<1>3. \A x, y : Improves(p, x, <<y>>) <=> Beats(x, y)
  BY DEF Improves
<1>4. /\ ~Before(a, a)
      /\ a # b => Before(a, b) \/ Before(b, a)
      /\ Before(a, b) /\ Before(b, c) => Before(a, c)
  <2>. HIDE DEF n
  <2>. QED BY <1>1, BeforeIs
<1>5. /\ ~Beats(a, a)
      /\ a # b => Beats(a, b) \/ Beats(b, a)
      /\ Beats(a, b) /\ Beats(b, c) => Beats(a, c)
  BY <1>2, <1>4
<1>. HIDE DEF Beats
<1>. QED BY <1>3, <1>5

\* How many constraints looking at the first n assignments takes.
LEMMA LookedIs ==
  ASSUME NEW p, Loaded(p), NEW n \in Nat
  PROVE  /\ Looked(p, 0 - 1) = 0 /\ Looked(p, n - 1) \in Nat
         /\ Evaluated(p, Assignment(p, n))[2] \in Nat
         /\ Looked(p, n) = Looked(p, n - 1) + Evaluated(p, Assignment(p, n))[2]
<1>. DEFINE e(k) == Evaluated(p, Assignment(p, k))[2]
            f(m) == [k \in 0..m |-> e(k)]
<1>1. ASSUME NEW k \in Nat
      PROVE  e(k) \in Nat
  <2>. DEFINE failing == {i \in DOMAIN p.constraints : ~Holds(p.constraints[i], Assignment(p, k))}
  <2>1. Len(p.constraints) \in Nat /\ DOMAIN p.constraints = 1..Len(p.constraints)
    BY DEF Loaded, ProblemTyped
  <2>2. CASE failing = {}
    BY <2>1, <2>2 DEF Evaluated
  <2>3. CASE failing # {}
    <3>1. failing \in SUBSET Nat
      BY <2>1
    <3>2. \E i \in failing : \A j \in failing : i <= j
      <4>. HIDE DEF failing
      <4>. QED BY <2>3, <3>1, LeastNumber
    <3>3. e(k) = CHOOSE i \in failing : \A j \in failing : i <= j
      BY <2>3 DEF Evaluated
    <3>. HIDE DEF failing, e
    <3>. QED BY <3>1, <3>2, <3>3
  <2>. QED BY <2>2, <2>3
<1>. HIDE DEF e
<1>2. ASSUME NEW m \in Int
      PROVE  /\ IsFiniteSet(0..m) /\ Looked(p, m) = Total(f(m), 0..m)
             /\ \A k \in 0..m : f(m)[k] \in Nat
  <2>1. IsFiniteSet(0..m)
    BY FS_Interval
  <2>2. Looked(p, m) = FoldFunction(+, 0, f(m))
    BY DEF Looked, e
  <2>3. FoldFunction(+, 0, f(m)) = Total(f(m), 0..m)
    <3>1. DOMAIN f(m) = 0..m
      OBVIOUS
    <3>. HIDE DEF f
    <3>. QED BY <2>1, <3>1, FoldIsTotal
  <2>4. \A k \in 0..m : f(m)[k] \in Nat
    BY <1>1
  <2>. QED BY <2>1, <2>2, <2>3, <2>4
<1>3. Looked(p, 0 - 1) = 0
  <2>1. 0..(0 - 1) = {} /\ 0 - 1 \in Int
    OBVIOUS
  <2>. HIDE DEF f
  <2>2. Total(f(0 - 1), {}) = 0
    BY TotalTaken, FS_EmptySet
  <2>. QED BY <1>2, <2>1, <2>2
<1>4. Looked(p, n - 1) \in Nat
  <2>1. n - 1 \in Int
    OBVIOUS
  <2>. HIDE DEF f
  <2>. QED BY <1>2, <2>1, TotalType
<1>5. Looked(p, n) = Looked(p, n - 1) + e(n)
  <2>1. /\ n - 1 \in Int /\ n \in Int /\ n \in 0..n /\ (0..n) \ {n} = 0..n - 1
        /\ f(n)[n] = e(n) /\ \A k \in 0..n - 1 : f(n)[k] = f(n - 1)[k]
        /\ \A k \in 0..n : f(n)[k] \in Int
    BY <1>1
  <2>. HIDE DEF f
  <2>2. Total(f(n), 0..n) = f(n)[n] + Total(f(n), (0..n) \ {n})
    BY <1>2, <2>1, TotalSplit
  <2>3. Total(f(n), 0..n - 1) = Total(f(n - 1), 0..n - 1)
    BY <1>2, <2>1, TotalAgree
  <2>4. e(n) \in Int /\ Looked(p, n - 1) \in Int
    BY <1>1, <1>4
  <2>5. Looked(p, n) = e(n) + Looked(p, n - 1)
    BY <1>2, <2>1, <2>2, <2>3
  <2>. QED BY <2>4, <2>5
<1>. QED BY <1>1, <1>3, <1>4, <1>5 DEF e

\* Looking at more takes no less.
LEMMA LookedMore ==
  ASSUME NEW p, Loaded(p), NEW m \in Nat, NEW n \in Nat, m <= n
  PROVE  Looked(p, m - 1) <= Looked(p, n - 1)
<1>. DEFINE H == {d \in Nat : Looked(p, m - 1) <= Looked(p, (m + d) - 1)}
<1>1. 0 \in H
  <2>1. m + 0 = m /\ Looked(p, m - 1) \in Nat
    BY LookedIs
  <2>. QED BY <2>1
<1>2. ASSUME NEW d \in Nat, d \in H
      PROVE  d + 1 \in H
  <2>. DEFINE k == m + d
  <2>1. k \in Nat /\ (m + (d + 1)) - 1 = k
    OBVIOUS
  <2>. HIDE DEF k
  <2>2. /\ Looked(p, k) = Looked(p, k - 1) + Evaluated(p, Assignment(p, k))[2]
        /\ Evaluated(p, Assignment(p, k))[2] \in Nat /\ Looked(p, k - 1) \in Nat
    BY <2>1, LookedIs
  <2>3. Looked(p, m - 1) \in Nat /\ Looked(p, m - 1) <= Looked(p, k - 1)
    BY <1>2, LookedIs DEF k
  <2>4. Looked(p, m - 1) <= Looked(p, k)
    BY <2>2, <2>3
  <2>. QED BY <2>1, <2>4
<1>3. n - m \in H
  <2>1. n - m \in Nat
    OBVIOUS
  <2>. HIDE DEF H
  <2>. QED BY <1>1, <1>2, <2>1, AllNumbers
<1>4. m + (n - m) = n
  OBVIOUS
<1>. QED BY <1>3, <1>4

-----------------------------------------------------------------------------
\* What verification allows is true.

\* A result that is allowed was replayed as a whole, and says what the replay
\* found.
LEMMA AllowedIsReplayed ==
  ASSUME Loaded(asked.problem), asked.solve \in Nat, asked.verify \in Nat,
         NEW r, r.visited \in Nat, Verification(r).allowed
  PROVE  LET replay == Replayed(r.visited)
         IN  /\ r.visited <= asked.solve /\ r.visited <= asked.verify
             /\ r.space = Space(asked.problem) /\ r.visited <= r.space
             /\ r.status \notin Incomplete
             /\ asked.reserved = asked.solve + asked.verify
             /\ ClaimAllows(asked.problem.claim, r.status)
             /\ replay.early => replay.steps = r.visited
             /\ Concludes(r, replay, Disposition(r.termination, replay.best))
             /\ Verification(r).steps = replay.steps
<1>. DEFINE n == IF r.visited <= asked.verify THEN r.visited ELSE asked.verify
            replay == Replayed(n)
            answer == ReplayMatches(r, n, replay)
            said == Concludes(r, replay, Disposition(r.termination, replay.best))
<1>1. Verification(r) = Judged(r, answer)
  BY DEF Verification, Replay
<1>. HIDE DEF answer, replay, n
<1>2. /\ answer.stands /\ answer.complete /\ r.status \notin Incomplete
      /\ LeaseServes /\ ClaimAllows(asked.problem.claim, r.status)
      /\ Verification(r).steps = answer.steps
  <2>. DEFINE outcome == IF ~answer.stands \/ r.lease # held.expires \/ ~LeaseServes
                           THEN "rejected"
                         ELSE IF r.status \in Incomplete \/ ~answer.complete THEN "inconclusive"
                         ELSE "verified"
              allowed == outcome = "verified" /\ ClaimAllows(asked.problem.claim, r.status)
  <2>1. Verification(r) = [outcome |-> outcome, allowed |-> allowed,
                           steps |-> answer.steps, lease |-> held.expires]
    BY <1>1 DEF Judged
  <2>2. Verification(r).steps = answer.steps
    BY <2>1
  <2>3. allowed
    <3>. HIDE DEF allowed, outcome
    <3>1. Verification(r).allowed = allowed
      BY <2>1
    <3>. QED BY <3>1
  <2>. QED BY <2>2, <2>3
<1>3. /\ r.space = Space(asked.problem) /\ r.visited <= asked.solve
      /\ ~(r.visited > r.space) /\ ~(n < r.visited)
      /\ ~(replay.early /\ replay.steps # r.visited)
      /\ said /\ answer.steps = replay.steps
  BY <1>2 DEF ReplayMatches, Answer, Incomplete, answer
<1>4. n = r.visited /\ r.visited <= asked.verify
  BY <1>3 DEF n
<1>5. r.visited <= r.space
  BY <1>3, SpaceIs
<1>. QED BY <1>2, <1>3, <1>4, <1>5 DEF LeaseServes, replay
\* The interval of a bounded result: as far as the terms of the objective
\* reach, on the side its witness leaves open.
LEMMA IntervalIs ==
  ASSUME NEW p, p.objective # <<>>, NEW value
  PROVE  LET low == IF Minimizes(p) THEN DomainBound(p, TRUE) ELSE value
             high == IF Minimizes(p) THEN value ELSE DomainBound(p, FALSE)
         IN  /\ Interval(p, "bounded", <<value>>) = << <<low, high>> >>
             /\ Interval(p, "optimal", <<value>>) = << <<value, value>> >>
<1>. DEFINE worst == DomainBound(p, TRUE)
            best == DomainBound(p, FALSE)
            Spans(status) ==
              IF p.objective = <<>> \/ <<value>> = <<>> \/ status \notin {"optimal", "bounded"}
              THEN <<>>
              ELSE IF status = "optimal" THEN << <<(<<value>>)[1], (<<value>>)[1]>> >>
              ELSE IF Minimizes(p) THEN << <<worst, (<<value>>)[1]>> >>
              ELSE << <<(<<value>>)[1], best>> >>
<1>1. /\ Interval(p, "bounded", <<value>>) = Spans("bounded")
      /\ Interval(p, "optimal", <<value>>) = Spans("optimal")
  BY DEF Interval
<1>. DEFINE low == IF Minimizes(p) THEN worst ELSE value
            high == IF Minimizes(p) THEN value ELSE best
<1>2. Spans("bounded") = << <<low, high>> >> /\ Spans("optimal") = << <<value, value>> >>
  <2>. HIDE DEF worst, best
  <2>. QED OBVIOUS
<1>. HIDE DEF Spans
<1>. QED BY <1>1, <1>2

\* What a complete replay of an allowed result says of the problem.
LEMMA AllowedIsTrue ==
  ASSUME Loaded(asked.problem), asked.solve \in Nat, asked.verify \in Nat,
         NEW r, r.visited \in Nat, Verification(r).allowed
  PROVE  /\ States(asked.problem, r)
         /\ asked.problem.claim \in {"decision", "optimal"} =>
              r.status \in {"satisfiable", "unsatisfiable", "optimal"}
         /\ r.visited + Verification(r).steps <= asked.reserved
<1>. DEFINE p == asked.problem
            n == r.visited
            N == Space(p)
            replay == Replayed(n)
            decision == p.objective = <<>>
<1>0. /\ N \in Nat \ {0} /\ n \in Nat /\ n <= N
      /\ p.claim \in {"decision", "feasible", "bounded", "optimal"}
      /\ p.claim = "decision" <=> decision
  BY SpaceIs, AllowedIsReplayed DEF Loaded, ProblemTyped, ProblemLoads
<1>1. /\ replay.early <=> FirstEnough /\ Fits(p, n) # {}
      /\ replay.early =>
           \E k \in Fits(p, n) : replay.steps = k + 1 /\ replay.best = <<Assignment(p, k)>>
      /\ ~replay.early =>
           /\ replay.steps = n
           /\ replay.best = SetToSeq({Assignment(p, k) : k \in Unimproved(p, n)})
  BY ReplayIs
<1>2. /\ n <= asked.solve /\ n <= asked.verify /\ r.space = N
      /\ r.status \notin Incomplete /\ asked.reserved = asked.solve + asked.verify
      /\ ClaimAllows(p.claim, r.status)
      /\ replay.early => replay.steps = n
      /\ Concludes(r, replay, Disposition(r.termination, replay.best))
      /\ Verification(r).steps = replay.steps
  BY AllowedIsReplayed
<1>. HIDE DEF replay, N
<1>3. /\ Explains(r, replay) /\ r.witness = replay.best
      /\ r.objective = Value(replay.best)
      /\ r.status = Disposition(r.termination, replay.best)
      /\ r.interval = Interval(p, r.status, r.objective)
  BY <1>2 DEF Concludes
<1>4. r.visited + Verification(r).steps <= asked.reserved
  <2>1. replay.steps = n
    BY <1>1, <1>2
  <2>. QED BY <1>0, <1>2, <2>1
<1>5. p.claim \in {"decision", "optimal"} =>
        r.status \in {"satisfiable", "unsatisfiable", "optimal"}
  BY <1>2 DEF ClaimAllows
<1>6. /\ Solutions(p) = {Assignment(p, k) : k \in Fits(p, N)}
      /\ Fits(p, n) \subseteq Fits(p, N)
      /\ \A a \in Solutions(p) : Assigns(p, a)
      /\ \A k \in Fits(p, n) : Assignment(p, k) \in Solutions(p)
  BY <1>0, SolutionsAre DEF N
<1>7. ~decision => \A a \in Solutions(p) : Objective(p, a) \in Int
  BY <1>6, ObjectiveIs
<1>8. CASE r.termination = "witness-found"
  <2>1. replay.early
    BY <1>3, <1>8 DEF Explains
  <2>2. r.status = IF decision THEN "satisfiable" ELSE "feasible"
    BY <1>3, <1>8 DEF Disposition
  <2>3. PICK k \in Fits(p, n) : replay.best = <<Assignment(p, k)>>
    BY <1>1, <2>1
  <2>4. r.witness # <<>> /\ r.witness[1] \in Solutions(p)
    BY <1>3, <1>6, <2>3
  <2>5. ~decision => r.objective[1] = Objective(p, r.witness[1])
    BY <1>3, <2>3 DEF Value
  <2>6. States(p, r)
    BY <2>2, <2>4, <2>5 DEF States, Positive, Negative
  <2>. QED BY <1>4, <1>5, <2>6
<1>9. ASSUME ~replay.early, replay.best # <<>>
      PROVE  \E k \in Fits(p, n) :
               /\ replay.best[1] = Assignment(p, k)
               /\ \A j \in Fits(p, n) \ {k} :
                    ~Improves(p, Assignment(p, j), <<Assignment(p, k)>>)
  <2>. DEFINE S == {Assignment(p, k) : k \in Unimproved(p, n)}
              f == [k \in Unimproved(p, n) |-> Assignment(p, k)]
  <2>1. IsFiniteSet(Unimproved(p, n))
    <3>1. n - 1 \in Int
      BY <1>0
    <3>2. IsFiniteSet(0..n - 1)
      BY <3>1, FS_Interval
    <3>3. Unimproved(p, n) \in SUBSET (0..n - 1)
      BY DEF Unimproved, Fits
    <3>. QED BY <3>2, <3>3, FS_Subset
  <2>2. S = Range(f) /\ DOMAIN f = Unimproved(p, n)
    BY DEF Range
  <2>3. IsFiniteSet(S)
    <3>. HIDE DEF S, f
    <3>. QED BY <2>1, <2>2, RangeFinite
  <2>4. replay.best[1] \in S
    <3>. HIDE DEF S
    <3>. QED BY <1>1, <1>9, <2>3, ListIs DEF S
  <2>. QED BY <2>4 DEF Unimproved
<1>10. CASE r.termination = "search-exhausted"
  <2>1. n = N /\ ~replay.early
    BY <1>2, <1>3, <1>10 DEF Explains
  <2>2. r.status = IF decision THEN "unsatisfiable"
                   ELSE IF replay.best = <<>> THEN "infeasible" ELSE "optimal"
    BY <1>3, <1>10 DEF Disposition
  <2>3. CASE decision
    <3>1. FirstEnough
      BY <1>0, <2>3 DEF FirstEnough
    <3>2. Solutions(p) = {}
      BY <1>1, <1>6, <2>1, <3>1
    <3>3. States(p, r)
      BY <2>2, <2>3, <3>2 DEF States, Positive, Negative
    <3>. QED BY <1>4, <1>5, <3>3
  <2>4. CASE ~decision
    <3>1. r.status = "optimal" /\ replay.best # <<>>
      BY <1>0, <1>2, <2>2, <2>4 DEF ClaimAllows
    <3>2. PICK k \in Fits(p, n) :
            /\ replay.best[1] = Assignment(p, k)
            /\ \A j \in Fits(p, n) \ {k} :
                 ~Improves(p, Assignment(p, j), <<Assignment(p, k)>>)
      BY <1>9, <2>1, <3>1
    <3>. DEFINE a == Assignment(p, k)
                value == Objective(p, a)
    <3>3. a \in Solutions(p) /\ value \in Int
      BY <1>6, <1>7, <2>4
    <3>4. ASSUME NEW b \in Solutions(p)
          PROVE  IF Minimizes(p) THEN value <= Objective(p, b) ELSE value >= Objective(p, b)
      <4>1. PICK j \in Fits(p, n) : b = Assignment(p, j)
        BY <1>6, <2>1
      <4>2. Objective(p, b) \in Int
        BY <1>7, <2>4
      <4>3. CASE j = k
        BY <3>3, <4>1, <4>3
      <4>4. CASE j # k
        <5>1. ~Improves(p, b, <<a>>)
          BY <3>2, <4>1, <4>4
        <5>2. ~(IF Minimizes(p) THEN Objective(p, b) < value ELSE Objective(p, b) > value)
          BY <5>1 DEF Improves
        <5>. HIDE DEF value
        <5>. QED BY <3>3, <4>2, <5>2
      <4>. QED BY <4>3, <4>4
    <3>5. Optimal(p, value)
      BY <3>3, <3>4 DEF Optimal
    <3>6. /\ r.objective = <<value>> /\ r.witness[1] = a
          /\ r.interval = << <<value, value>> >>
      BY <1>3, <2>4, <3>1, <3>2 DEF Value, Interval
    <3>7. value \in r.interval[1][1]..r.interval[1][2] /\ r.objective[1] = value
      <4>. HIDE DEF value
      <4>. QED BY <3>3, <3>6
    <3>8. States(p, r)
      <4>. HIDE DEF value, a
      <4>1. \E v \in r.interval[1][1]..r.interval[1][2] : Optimal(p, v)
        BY <3>5, <3>7
      <4>2. r.objective[1] = Objective(p, r.witness[1])
        BY <3>6, <3>7 DEF value
      <4>. QED BY <3>1, <3>3, <3>5, <3>6, <3>7, <4>1, <4>2 DEF States, Positive, Negative
    <3>. QED BY <1>4, <1>5, <3>8
  <2>. QED BY <2>3, <2>4
<1>11. CASE r.termination = "step-limit"
  <2>1. ~replay.early
    BY <1>3, <1>11 DEF Explains
  <2>2. r.status = "bounded" /\ ~decision /\ replay.best # <<>>
    BY <1>2, <1>3, <1>11 DEF Disposition, Incomplete
  <2>3. PICK k \in Fits(p, n) : replay.best[1] = Assignment(p, k)
    BY <1>9, <2>1, <2>2
  <2>. DEFINE a == Assignment(p, k)
              value == Objective(p, a)
              low == IF Minimizes(p) THEN DomainBound(p, TRUE) ELSE value
              high == IF Minimizes(p) THEN value ELSE DomainBound(p, FALSE)
  <2>4. a \in Solutions(p)
    BY <1>6
  <2>5. \E v \in low..high : Optimal(p, v)
    BY <2>2, <2>4, BestExists
  <2>6. r.objective = <<value>> /\ r.witness[1] = a
    BY <1>3, <2>2, <2>3 DEF Value
  <2>7. r.interval = << <<low, high>> >>
    <3>1. r.interval = Interval(p, "bounded", <<value>>)
      BY <1>3, <2>2, <2>6
    <3>2. Interval(p, "bounded", <<value>>) = << <<low, high>> >>
      BY <2>2, IntervalIs
    <3>. HIDE DEF low, high, value
    <3>. QED BY <3>1, <3>2
  <2>8. r.interval[1][1] = low /\ r.interval[1][2] = high
    <3>. HIDE DEF low, high
    <3>. QED BY <2>7
  <2>9. \E v \in r.interval[1][1]..r.interval[1][2] : Optimal(p, v)
    <3>. HIDE DEF low, high
    <3>. QED BY <2>5, <2>8
  <2>10. States(p, r)
    <3>1. r.objective[1] = Objective(p, r.witness[1])
      BY <2>6
    <3>. HIDE DEF a, value, low, high
    <3>. QED BY <2>2, <2>4, <2>6, <2>9, <3>1 DEF States, Positive, Negative
  <2>. QED BY <1>4, <1>5, <2>10
<1>12. r.termination \in {"witness-found", "search-exhausted", "step-limit"}
  <2>1. r.termination \in {"witness-found", "search-exhausted", "step-limit",
                           "lease-deadline", "request-timeout"}
    BY <1>3 DEF Explains
  <2>2. r.termination \in {"request-timeout", "lease-deadline"} => r.status = "timeout"
    BY <1>3 DEF Disposition
  <2>. QED BY <1>2, <2>1, <2>2 DEF Incomplete
<1>. QED BY <1>8, <1>10, <1>11, <1>12
-----------------------------------------------------------------------------
\* Theorems.

SearchOf(next, checks, best, start, deadline) ==
  [next |-> next, checks |-> checks, best |-> best, start |-> start, deadline |-> deadline]
Recorded(s) ==
  \E next \in Nat : \E checks, best, start, deadline :
    s = SearchOf(next, checks, best, start, deadline)

\* A look counts one assignment and the constraints it took.
LEMMA LookedAt ==
  ASSUME NEW s, Recorded(s), NEW checks
  PROVE  [s EXCEPT !.next = @ + 1, !.checks = @ + checks]
           = SearchOf(s.next + 1, s.checks + checks, s.best, s.start, s.deadline)
<1>. PICK n, c, b, start, deadline : s = SearchOf(n, c, b, start, deadline)
  BY DEF Recorded
<1>. DEFINE t == [s EXCEPT !.next = @ + 1]
<1>1. t = SearchOf(s.next + 1, s.checks, s.best, s.start, s.deadline)
  BY DEF SearchOf
<1>2. [s EXCEPT !.next = @ + 1, !.checks = @ + checks] = [t EXCEPT !.checks = @ + checks]
  BY Zenon
<1>. HIDE DEF t
<1>3. [t EXCEPT !.checks = @ + checks]
        = SearchOf(s.next + 1, s.checks + checks, s.best, s.start, s.deadline)
  BY <1>1 DEF SearchOf
<1>. QED BY <1>2, <1>3

\* Where a request stands: nothing is searched or reported for a task that is
\* settled, and a verdict is one on a report.
Course ==
  /\ asked \in SolverRequests /\ ProblemLoads(asked.problem)
  /\ search # <<>> => \E s : search = <<s>> /\ Recorded(s)
  /\ reported # <<>> => \E r : reported = <<r>> /\ r.visited \in Nat
  /\ verdict # <<>> => reported # <<>>
  /\ adopted # "none" => search = <<>>

\* A request is over a problem the loader accepts, with a search space that is not empty.
LEMMA RequestIs ==
  ASSUME SolverBounds, Course
  PROVE  /\ Loaded(asked.problem) /\ asked.solve \in Nat /\ asked.verify \in Nat
         /\ Space(asked.problem) \in Nat \ {0}
         /\ asked.timeout # <<>> => asked.timeout[1] \in Int
<1>1. /\ Loaded(asked.problem) /\ asked.solve \in Nat /\ asked.verify \in Nat
      /\ asked.timeout # <<>> => asked.timeout[1] \in Int
  BY DEF SolverBounds, Course, RequestTyped, Loaded
<1>2. Space(asked.problem) \in Nat \ {0}
  BY <1>1, SpaceIs
<1>. QED BY <1>1, <1>2

\* What an action can do: publish a result with a count of visited
\* assignments, search on, judge or settle what is reported, or let time pass.
LEMMA SolverSteps ==
  ASSUME SolverBounds, Course, [SolverNext]_solverVars
  PROVE  /\ asked' = asked
         /\ \/ /\ adopted = "none" /\ adopted' = "none" /\ search' = <<>>
               /\ verdict' = <<>>
               /\ \E r : reported' = <<r>> /\ r.visited \in Nat
            \/ /\ adopted = "none" /\ adopted' = "none"
               /\ \E s : search' = <<s>> /\ Recorded(s)
               /\ UNCHANGED <<reported, verdict>>
            \/ /\ search' \in {search, <<>>}
               /\ UNCHANGED <<reported, verdict, adopted>>
            \/ /\ reported # <<>> /\ adopted = "none" /\ \E v : verdict' = <<v>>
               /\ UNCHANGED <<search, reported, adopted>>
            \/ Adopt /\ UNCHANGED <<search, reported, verdict>>
<1>. DEFINE p == asked.problem
<1>0. /\ Space(p) \in Nat /\ asked.solve \in Nat
      /\ \A status, termination, calls : BlankResult(status, termination, calls).visited \in Nat
  BY RequestIs DEF BlankResult
<1>1. CASE Authorize
  BY <1>0, <1>1 DEF Authorize, Publish, Recorded, SearchOf
<1>2. CASE Visit
  <2>1. PICK s : search = <<s>> /\ Recorded(s)
    BY <1>2 DEF Visit, Course
  <2>2. search # <<>> /\ adopted = "none"
    BY <1>2 DEF Visit, Course
  <2>. DEFINE a == Assignment(p, s.next)
              seen == Evaluated(p, a)
              looked == [s EXCEPT !.next = @ + 1, !.checks = @ + seen[2]]
  <2>. HIDE DEF seen, a
  <2>4. /\ Recorded(looked) /\ Recorded([looked EXCEPT !.best = <<a>>])
        /\ Recorded(s)
    <3>1. looked = SearchOf(s.next + 1, s.checks + seen[2], s.best, s.start, s.deadline)
      BY <2>1, LookedAt
    <3>. HIDE DEF looked
    <3>2. [looked EXCEPT !.best = <<a>>]
            = SearchOf(s.next + 1, s.checks + seen[2], <<a>>, s.start, s.deadline)
      BY <3>1 DEF SearchOf
    <3>3. s.next + 1 \in Nat
      BY <2>1 DEF Recorded, SearchOf
    <3>. QED BY <2>1, <3>1, <3>2, <3>3 DEF Recorded
  <2>. USE DEF seen, a
  <2>. HIDE DEF looked
  <2>5. ASSUME NEW t, Recorded(t), NEW termination
        PROVE  Found(t, termination).visited \in Nat
    BY <2>5 DEF Found, BlankResult, Recorded, SearchOf
  <2>6. \/ \E t, termination : /\ Recorded(t) /\ search' = <<>>
                              /\ Publish(Found(t, termination), TRUE)
        \/ /\ search' \in {<<[looked EXCEPT !.best = <<a>>]>>, <<looked>>}
           /\ UNCHANGED <<asked, intact, time, held, reported, honest, verdict, adopted>>
    <3>1. CASE Stopped(s) # "none"
      BY <1>2, <2>1, <3>1 DEF Visit
    <3>2. CASE Stopped(s) = "none" /\ seen[1] /\ FirstEnough
      <4>1. search' = <<>> /\ Publish(Found([looked EXCEPT !.best = <<a>>], "witness-found"), TRUE)
        BY <1>2, <2>1, <3>2 DEF Visit, looked
      <4>. QED BY <2>4, <4>1
    <3>3. CASE Stopped(s) = "none" /\ ~(seen[1] /\ FirstEnough)
      BY <1>2, <2>1, <3>3 DEF Visit, looked
    <3>. QED BY <3>1, <3>2, <3>3
  <2>. QED BY <2>2, <2>4, <2>5, <2>6 DEF Publish
<1>3. CASE AdapterFails
  BY <1>0, <1>3 DEF AdapterFails, Publish, BlankResult, Course
<1>4. CASE Abandon
  BY <1>4 DEF Abandon
<1>5. CASE Verify
  BY <1>5 DEF Verify
<1>6. CASE Adopt
  BY <1>6 DEF Adopt
<1>7. CASE Renew \/ Expire \/ Tick \/ ReplaceFile
  BY <1>7 DEF Renew, Expire, Tick, ReplaceFile
<1>8. CASE Misreport
  <2>1. \E visited \in {asked.solve, Space(p)} :
          \E status, termination, witness, objective, interval :
            Publish(Stated(status, termination, witness, objective, interval, visited), FALSE)
    BY <1>8 DEF Misreport
  <2>2. PICK visited \in {asked.solve, Space(p)} :
          \E status, termination, witness, objective, interval :
            Publish(Stated(status, termination, witness, objective, interval, visited), FALSE)
    BY <2>1
  <2>3. PICK status, termination, witness, objective, interval :
          Publish(Stated(status, termination, witness, objective, interval, visited), FALSE)
    BY <2>2
  <2>4. Stated(status, termination, witness, objective, interval, visited).visited = visited
    BY DEF Stated, BlankResult
  <2>. QED BY <1>0, <1>8, <2>2, <2>3, <2>4 DEF Misreport, Publish
<1>9. CASE UNCHANGED solverVars
  BY <1>9 DEF solverVars
<1>. QED BY <1>1, <1>2, <1>3, <1>4, <1>5, <1>6, <1>7, <1>8, <1>9 DEF SolverNext

\* The course of a request holds from its arrival on.
LEMMA CourseInvariant == ASSUME SolverBounds PROVE SolverSpec => []Course
<1>1. SolverInit => Course
  BY DEF SolverInit, Course
<1>2. Course /\ [SolverNext]_solverVars => Course'
  <2>. SUFFICES ASSUME Course, [SolverNext]_solverVars PROVE Course'
    OBVIOUS
  <2>1. /\ asked' = asked
        /\ (adopted' # "none" => search' = <<>>)
        /\ (verdict' # <<>> => reported' # <<>>)
        /\ (search' # <<>> => \E s : search' = <<s>> /\ Recorded(s))
        /\ (reported' # <<>> => \E r : reported' = <<r>> /\ r.visited \in Nat)
    BY SolverSteps DEF Course, Adopt
  <2>. QED BY <2>1 DEF Course
<1>. QED BY <1>1, <1>2, PTL DEF SolverSpec

\* A task is settled as succeeded only with a result that is true of its
\* problem and answers its claim, whatever an adapter reported, and within the
\* steps its Lease reserved: validate_solver_task_result_evidence verifies
\* again what it adopts.
THEOREM SuccessIsProved == ASSUME SolverBounds PROVE SolverSpec => []AdoptedIsProved
<1>1. SolverInit => AdoptedIsProved
  BY DEF SolverInit, AdoptedIsProved
<1>2. Course /\ AdoptedIsProved /\ [SolverNext]_solverVars => AdoptedIsProved'
  <2>. SUFFICES ASSUME Course, AdoptedIsProved, [SolverNext]_solverVars,
                       adopted' = "succeeded"
                PROVE  AdoptedIsProved'
    BY DEF AdoptedIsProved
  <2>1. CASE Adopt
    <3>. DEFINE r == reported[1]
    <3>1. verdict[1] = Verification(r) /\ verdict[1].allowed
      BY <2>1 DEF Adopt
    <3>2. r.visited \in Nat
      BY <2>1 DEF Adopt, Course
    <3>3. /\ States(asked.problem, r)
          /\ asked.problem.claim \in {"decision", "optimal"} =>
               r.status \in {"satisfiable", "unsatisfiable", "optimal"}
          /\ r.visited + verdict[1].steps <= asked.reserved
      <4>. HIDE DEF r
      <4>. QED BY <3>1, <3>2, AllowedIsTrue, RequestIs
    <3>4. UNCHANGED <<asked, reported, verdict>>
      BY <2>1 DEF Adopt
    <3>. QED BY <3>3, <3>4 DEF AdoptedIsProved
  <2>2. CASE ~Adopt
    <3>1. UNCHANGED <<asked, reported, verdict, adopted>>
      BY <2>2, SolverSteps
    <3>. QED BY <3>1 DEF AdoptedIsProved
  <2>. QED BY <2>1, <2>2
<1>. QED BY <1>1, <1>2, CourseInvariant, PTL DEF SolverSpec
-----------------------------------------------------------------------------
\* What the reference adapter finds.

\* The best of the satisfying assignments among the first n, if there is one.
IsBest(p, n, best) ==
  IF Fits(p, n) = {} THEN best = <<>>
  ELSE \E k \in Fits(p, n) :
         /\ best = <<Assignment(p, k)>>
         /\ \A j \in Fits(p, n) : ~Improves(p, Assignment(p, j), best)

\* A search that was not ended by its first witness.
Searched(s) ==
  LET p == asked.problem
  IN  /\ Recorded(s) /\ s.next <= Space(p) /\ s.next <= asked.solve /\ s.start \in Int
      /\ s.checks = Looked(p, s.next - 1)
      /\ FirstEnough => Fits(p, s.next) = {}
      /\ IsBest(p, s.next, s.best)

\* Looking at one more assignment keeps the best one.
LEMMA BestSoFar ==
  ASSUME NEW p, Loaded(p), NEW n \in Nat, NEW best, IsBest(p, n, best),
         p.objective # <<>> \/ Fits(p, n + 1) = {}
  PROVE  LET a == Assignment(p, n)
         IN  IsBest(p, n + 1, IF Satisfies(p, a) /\ Improves(p, a, best) THEN <<a>> ELSE best)
<1>. DEFINE a == Assignment(p, n)
            before == Fits(p, n)
            after == Fits(p, n + 1)
<1>1. after = IF Satisfies(p, a) THEN before \cup {n} ELSE before
  BY DEF Fits
<1>2. CASE ~Satisfies(p, a)
  BY <1>1, <1>2 DEF IsBest
<1>3. CASE Satisfies(p, a)
  <2>1. p.objective # <<>> /\ n \in after /\ after # {}
    BY <1>1, <1>3
  <2>2. Assigns(p, a) /\ \A j \in before : Assigns(p, Assignment(p, j))
    BY AssignmentIs DEF Fits
  <2>3. \A j \in after : j = n \/ j \in before
    BY <1>1
  <2>4. CASE before = {}
    <3>1. best = <<>>
      BY <2>4 DEF IsBest
    <3>2. Improves(p, a, best)
      BY <3>1 DEF Improves
    <3>3. ~Improves(p, a, <<a>>)
      BY <2>1, <2>2, ImprovesIs
    <3>4. IsBest(p, n + 1, <<a>>)
      BY <2>1, <2>3, <2>4, <3>3 DEF IsBest
    <3>. QED BY <1>3, <3>2, <3>4
  <2>5. CASE before # {}
    <3>1. PICK k \in before :
            /\ best = <<Assignment(p, k)>>
            /\ \A j \in before : ~Improves(p, Assignment(p, j), best)
      BY <2>5 DEF IsBest
    <3>. DEFINE b == Assignment(p, k)
    <3>2. CASE Improves(p, a, best)
      <4>1. ASSUME NEW j \in after
            PROVE  ~Improves(p, Assignment(p, j), <<a>>)
        <5>1. CASE j = n
          BY <2>1, <2>2, <5>1, ImprovesIs
        <5>2. CASE j \in before
          <6>. DEFINE c == Assignment(p, j)
          <6>1. ~Improves(p, c, <<b>>) /\ Improves(p, a, <<b>>)
            BY <3>1, <3>2, <5>2
          <6>2. Assigns(p, c) /\ Assigns(p, b)
            BY <2>2, <5>2
          <6>. HIDE DEF a, b, c
          <6>. QED BY <2>1, <2>2, <6>1, <6>2, ImprovesIs DEF c
        <5>. QED BY <2>3, <5>1, <5>2
      <4>2. IsBest(p, n + 1, <<a>>)
        BY <2>1, <4>1 DEF IsBest
      <4>. QED BY <1>3, <3>2, <4>2
    <3>3. CASE ~Improves(p, a, best)
      <4>1. k \in after
        BY <1>1, <1>3
      <4>2. \A j \in after : ~Improves(p, Assignment(p, j), best)
        BY <2>3, <3>1, <3>3
      <4>3. IsBest(p, n + 1, best)
        BY <2>1, <3>1, <4>1, <4>2 DEF IsBest
      <4>. QED BY <3>3, <4>3
    <3>. QED BY <3>2, <3>3
  <2>. QED BY <2>4, <2>5
<1>. QED BY <1>2, <1>3

\* A replay that went through n assignments chooses the same one.
LEMMA BestIsChosen ==
  ASSUME NEW p, Loaded(p), NEW n \in Nat, NEW best, IsBest(p, n, best),
         p.objective # <<>> \/ Fits(p, n) = {}
  PROVE  SetToSeq({Assignment(p, k) : k \in Unimproved(p, n)}) = best
<1>1. CASE Fits(p, n) = {}
  <2>1. {Assignment(p, k) : k \in Unimproved(p, n)} = {}
    BY <1>1 DEF Unimproved
  <2>2. SetToSeq({}) = <<>>
    BY ListIs, FS_EmptySet
  <2>. QED BY <1>1, <2>1, <2>2 DEF IsBest
<1>2. CASE Fits(p, n) # {}
  <2>1. PICK k \in Fits(p, n) :
          /\ best = <<Assignment(p, k)>>
          /\ \A j \in Fits(p, n) : ~Improves(p, Assignment(p, j), best)
    BY <1>2 DEF IsBest
  <2>. DEFINE b == Assignment(p, k)
  <2>2. k \in Unimproved(p, n)
    BY <2>1 DEF Unimproved
  <2>3. ASSUME NEW j \in Unimproved(p, n)
        PROVE  Assignment(p, j) = b
    <3>. DEFINE c == Assignment(p, j)
    <3>1. /\ j \in Fits(p, n)
          /\ \A i \in Fits(p, n) \ {j} : ~Improves(p, Assignment(p, i), <<c>>)
      BY DEF Unimproved
    <3>2. ~Improves(p, c, <<b>>)
      BY <2>1, <3>1
    <3>3. k # j => ~Improves(p, b, <<c>>)
      BY <3>1
    <3>4. Assigns(p, b) /\ Assigns(p, c)
      BY <3>1, AssignmentIs DEF Fits
    <3>5. p.objective # <<>>
      BY <1>2
    <3>6. c # b => Improves(p, c, <<b>>) \/ Improves(p, b, <<c>>)
      <4>. HIDE DEF b, c
      <4>. QED BY <3>4, <3>5, ImprovesIs
    <3>. QED BY <3>2, <3>3, <3>6
  <2>4. {Assignment(p, j) : j \in Unimproved(p, n)} = {b}
    BY <2>2, <2>3
  <2>5. SetToSeq({b}) = <<b>>
    BY ListOfOne
  <2>. QED BY <2>1, <2>4, <2>5
<1>. QED BY <1>1, <1>2

\* What a Result of a search says, field by field.
LEMMA FoundIs ==
  ASSUME NEW s, NEW termination
  PROVE  LET r == Found(s, termination)
             status == Disposition(termination, s.best)
         IN  /\ r.status = status /\ r.termination = termination
             /\ r.witness = s.best /\ r.objective = Value(s.best)
             /\ r.interval = Interval(asked.problem, status, Value(s.best))
             /\ r.proof = Proof(status) /\ r.calls = 1
             /\ r.visited = s.next /\ r.space = Space(asked.problem) /\ r.checks = s.checks
             /\ r.elapsed = (IF status = "timeout" THEN time - s.start ELSE 0)
             /\ r.stepLimit = asked.solve /\ r.lease = s.deadline
<1>. DEFINE status == Disposition(termination, s.best)
            blank == BlankResult(status, termination, 1)
            interval == Interval(asked.problem, status, Value(s.best))
            elapsed == IF status = "timeout" THEN time - s.start ELSE 0
<1>1. Found(s, termination) =
        [blank EXCEPT !.witness = s.best, !.objective = Value(s.best), !.interval = interval,
                      !.visited = s.next, !.checks = s.checks, !.lease = s.deadline,
                      !.elapsed = elapsed]
  BY DEF Found
<1>2. blank = [status |-> status, witness |-> <<>>, objective |-> <<>>, interval |-> <<>>,
               proof |-> Proof(status), termination |-> termination, calls |-> 1,
               visited |-> 0, space |-> Space(asked.problem), checks |-> 0, elapsed |-> 0,
               stepLimit |-> asked.solve, lease |-> held.expires]
  BY DEF BlankResult
<1>. HIDE DEF status, interval, elapsed, blank
<1>3. LET r == Found(s, termination)
      IN  /\ r.status = status /\ r.termination = termination
          /\ r.witness = s.best /\ r.objective = Value(s.best)
          /\ r.interval = interval
          /\ r.proof = Proof(status) /\ r.calls = 1
          /\ r.visited = s.next /\ r.space = Space(asked.problem) /\ r.checks = s.checks
          /\ r.elapsed = elapsed
          /\ r.stepLimit = asked.solve /\ r.lease = s.deadline
  BY <1>1, <1>2
<1>. QED BY <1>3 DEF status, interval, elapsed
\* Which terminations and proofs the statuses go with.
LEMMA TerminationsAre ==
  /\ Terminations("unsatisfiable") = {"search-exhausted"}
  /\ Terminations("infeasible") = {"search-exhausted"}
  /\ Terminations("optimal") = {"search-exhausted"}
  /\ Terminations("bounded") = {"step-limit"}
  /\ Terminations("unknown") = {"step-limit"}
  /\ Terminations("timeout") = {"request-timeout", "lease-deadline"}
BY DEF Terminations, Negative

\* What ends a search at its limits loads as a Result.
LEMMA SearchPublishes ==
  ASSUME SolverBounds, Course, NEW s, Searched(s), Stopped(s) # "none"
  PROVE  ResultLoads(Found(s, Stopped(s)))
<1>. DEFINE p == asked.problem
            termination == Stopped(s)
            status == Disposition(termination, s.best)
            value == Value(s.best)
            r == Found(s, termination)
            decision == p.objective = <<>>
<1>1. /\ Loaded(p) /\ Space(p) \in Nat \ {0} /\ asked.solve \in Nat
      /\ s.next \in Nat /\ s.next <= Space(p) /\ s.next <= asked.solve
      /\ decision => FirstEnough
  BY RequestIs DEF Searched, Recorded, SearchOf, FirstEnough, Course, ProblemLoads
<1>2. /\ s.best # <<>> => /\ ~decision /\ s.next > 0
                         /\ \E a \in Solutions(p) : s.best = <<a>>
      /\ decision => s.best = <<>>
  <2>1. CASE Fits(p, s.next) = {}
    BY <2>1 DEF Searched, IsBest
  <2>2. CASE Fits(p, s.next) # {}
    <3>1. PICK k \in Fits(p, s.next) : s.best = <<Assignment(p, k)>>
      BY <2>2 DEF Searched, IsBest
    <3>2. ~decision /\ s.next > 0
      BY <1>1, <2>2 DEF Searched, Fits
    <3>3. Assignment(p, k) \in Solutions(p)
      BY <1>1, SolutionsAre
    <3>. QED BY <3>1, <3>2, <3>3
  <2>. QED BY <2>1, <2>2
<1>3. /\ r.status = status /\ r.termination = termination
      /\ r.witness = s.best /\ r.objective = value
      /\ r.interval = Interval(p, status, value)
      /\ r.proof = Proof(status) /\ r.calls = 1
      /\ r.visited = s.next /\ r.space = Space(p)
      /\ r.elapsed = (IF status = "timeout" THEN time - s.start ELSE 0)
      /\ r.stepLimit = asked.solve
  BY FoundIs
<1>4. value = IF s.best = <<>> THEN <<>> ELSE <<Objective(p, s.best[1])>>
  BY <1>2 DEF Value
<1>. SUFFICES ResultLoads(r)
  OBVIOUS
<1>. HIDE DEF r, value
<1>5. CASE termination = "search-exhausted"
  <2>1. s.next = Space(p)
    BY <1>5 DEF Stopped
  <2>2. status = IF decision THEN "unsatisfiable"
                 ELSE IF s.best = <<>> THEN "infeasible" ELSE "optimal"
    BY <1>5 DEF Disposition
  <2>3. status \in Negative => s.best = <<>> /\ r.interval = <<>>
    BY <1>2, <1>3, <2>2 DEF Negative, Interval
  <2>4. CASE status = "optimal"
    <3>1. /\ s.best # <<>> /\ value = <<Objective(p, s.best[1])>> /\ ~decision
      BY <1>2, <1>4, <2>2, <2>4
    <3>. DEFINE v == Objective(p, s.best[1])
    <3>2. r.interval = << <<v, v>> >>
      BY <1>3, <2>4, <3>1 DEF Interval
    <3>3. v \in Int
      <4>1. PICK a \in Solutions(p) : s.best = <<a>>
        BY <1>2, <3>1
      <4>2. Assigns(p, a) /\ s.best[1] = a
        BY <1>1, <4>1, SolutionsAre
      <4>. QED BY <1>1, <3>1, <4>2, ObjectiveIs
    <3>. HIDE DEF v
    <3>4. r.interval # <<>> /\ r.interval[1][1] <= r.interval[1][2]
          /\ r.interval[1][1] = r.interval[1][2]
      BY <3>2, <3>3
    <3>5. r.objective # <<>>
      BY <1>3, <3>1
    <3>. HIDE DEF status, termination
    <3>. QED BY <1>1, <1>3, <1>5, <2>1, <2>4, <3>1, <3>4, <3>5,
         TerminationsAre DEF ResultLoads, Positive, Negative
  <2>5. CASE status # "optimal"
    <3>1. status \in {"unsatisfiable", "infeasible"} /\ r.interval = <<>> /\ value = <<>>
      BY <1>4, <2>2, <2>3, <2>5 DEF Negative
    <3>2. r.witness = <<>>
      BY <1>3, <2>3, <3>1 DEF Negative
    <3>. HIDE DEF status, termination
    <3>. QED BY <1>1, <1>3, <1>5, <2>1, <3>1, <3>2,
         TerminationsAre DEF ResultLoads, Positive, Negative
  <2>. QED BY <2>4, <2>5
<1>6. CASE termination \in {"lease-deadline", "request-timeout"}
  <2>1. s.next < Space(p)
    BY <1>1, <1>6 DEF Stopped
  <2>2. status = "timeout" /\ r.interval = <<>>
    BY <1>3, <1>6 DEF Disposition, Interval
  <2>. HIDE DEF status, termination
  <2>. QED BY <1>1, <1>3, <1>6, <2>1, <2>2,
       TerminationsAre DEF ResultLoads, Positive, Negative
<1>7. CASE termination = "step-limit"
  <2>1. s.next < Space(p) /\ s.next = asked.solve
    BY <1>1, <1>7 DEF Stopped
  <2>2. status = IF ~decision /\ s.best # <<>> THEN "bounded" ELSE "unknown"
    BY <1>7 DEF Disposition
  <2>3. CASE status = "bounded"
    <3>1. /\ s.best # <<>> /\ value = <<Objective(p, s.best[1])>> /\ ~decision /\ s.next > 0
      BY <1>2, <1>4, <2>2, <2>3
    <3>. DEFINE v == Objective(p, s.best[1])
                low == IF Minimizes(p) THEN DomainBound(p, TRUE) ELSE v
                high == IF Minimizes(p) THEN v ELSE DomainBound(p, FALSE)
    <3>2. r.interval = << <<low, high>> >>
      <4>1. r.interval = Interval(p, "bounded", <<v>>)
        BY <1>3, <2>3, <3>1
      <4>2. Interval(p, "bounded", <<v>>) = << <<low, high>> >>
        BY <3>1, IntervalIs
      <4>. HIDE DEF low, high, v
      <4>. QED BY <4>1, <4>2
    <3>3. low <= high
      <4>1. PICK a \in Solutions(p) : s.best = <<a>>
        BY <1>2, <3>1
      <4>. DEFINE worst == DomainBound(p, TRUE)
                  best == DomainBound(p, FALSE)
      <4>4. Assigns(p, a) /\ s.best[1] = a
        BY <1>1, <4>1, SolutionsAre
      <4>2. v \in Int /\ worst \in Int /\ best \in Int /\ worst <= v /\ v <= best
        BY <1>1, <3>1, <4>4, ObjectiveIs
      <4>. HIDE DEF worst, best, v
      <4>3. (IF Minimizes(p) THEN worst ELSE v) <= (IF Minimizes(p) THEN v ELSE best)
        BY <4>2
      <4>. QED BY <4>3 DEF worst, best
    <3>. HIDE DEF low, high, v
    <3>4. r.interval # <<>> /\ r.interval[1][1] <= r.interval[1][2]
      BY <3>2, <3>3
    <3>5. r.objective # <<>>
      BY <1>3, <3>1
    <3>. HIDE DEF status, termination
    <3>. QED BY <1>1, <1>3, <1>7, <2>1, <2>3, <3>1, <3>4, <3>5,
         TerminationsAre DEF ResultLoads, Positive, Negative
  <2>4. CASE status # "bounded"
    <3>1. status = "unknown" /\ r.interval = <<>>
      BY <1>3, <2>2, <2>4 DEF Interval
    <3>. HIDE DEF status, termination
    <3>. QED BY <1>1, <1>3, <1>7, <2>1, <3>1,
         TerminationsAre DEF ResultLoads, Positive, Negative
  <2>. QED BY <2>3, <2>4
<1>8. termination \in {"search-exhausted", "lease-deadline", "request-timeout", "step-limit"}
  BY DEF Stopped
<1>. QED BY <1>5, <1>6, <1>7, <1>8
\* Whatever the Lease, verification does not refute it, and gets to the end of
\* it when it may take as many steps.
Kept(r) ==
  LET answer == Replay(r)
  IN  /\ answer.stands
      /\ r.status \notin Incomplete /\ r.visited <= asked.verify => answer.complete

\* What a replay must find, of any part of the search and of all of it.
LEMMA KeptWhen ==
  ASSUME SolverBounds, Course, asked.adapter # "external-cli",
         NEW r, r.visited \in Nat, r.calls = 1, r.termination # "adapter-error",
         r.space = Space(asked.problem), r.stepLimit = asked.solve,
         r.visited <= asked.solve, r.visited <= r.space,
         \A n \in Nat : n <= r.visited =>
            LET replay == Replayed(n)
            IN  ~(replay.checks > r.checks) /\ (replay.early => replay.steps = r.visited),
         LET replay == Replayed(r.visited)
         IN  Concludes(r, replay, Disposition(r.termination, replay.best))
  PROVE  Kept(r)
<1>. DEFINE n == IF r.visited <= asked.verify THEN r.visited ELSE asked.verify
            replay == Replayed(n)
            answer == ReplayMatches(r, n, replay)
            said == Concludes(r, replay, Disposition(r.termination, replay.best))
<1>1. /\ asked.verify \in Nat /\ asked.solve \in Nat /\ Space(asked.problem) \in Nat
  BY RequestIs
<1>2. n \in Nat /\ n <= r.visited /\ (n < r.visited \/ n = r.visited)
      /\ (r.visited <= asked.verify => ~(n < r.visited))
  BY <1>1
<1>3. Replay(r) = answer
  BY DEF Replay
<1>. HIDE DEF n
<1>4. ~(replay.checks > r.checks) /\ ~(replay.early /\ replay.steps # r.visited)
  BY <1>2
<1>5. ~(n < r.visited) => said
  BY <1>2
<1>. HIDE DEF replay, said
<1>6. answer = IF n < r.visited THEN Answer(TRUE, FALSE, replay.steps)
               ELSE Answer(said, TRUE, replay.steps)
  <2>1. ~(r.calls # 1 \/ r.visited > r.space)
    BY <1>1
  <2>2. /\ r.space = Space(asked.problem) /\ r.stepLimit = asked.solve
        /\ r.visited <= asked.solve /\ r.calls <= 1
    OBVIOUS
  <2>. QED BY <1>4, <2>1, <2>2 DEF ReplayMatches, said
<1>. HIDE DEF answer
<1>7. answer.stands /\ (~(n < r.visited) => answer.complete)
  BY <1>5, <1>6 DEF Answer
<1>. QED BY <1>2, <1>3, <1>7 DEF Kept

\* A search that ends at one of its limits.
LEMMA FoundIsKept ==
  ASSUME SolverBounds, Course, asked.adapter # "external-cli", time \in Int,
         NEW s, Searched(s), Stopped(s) # "none"
  PROVE  Kept(Found(s, Stopped(s)))
<1>. DEFINE p == asked.problem
            termination == Stopped(s)
            r == Found(s, termination)
<1>1. /\ Loaded(p) /\ Space(p) \in Nat \ {0} /\ asked.solve \in Nat
      /\ s.next \in Nat /\ s.next <= Space(p) /\ s.next <= asked.solve
      /\ s.start \in Int /\ s.checks = Looked(p, s.next - 1)
      /\ IsBest(p, s.next, s.best) /\ (FirstEnough => Fits(p, s.next) = {})
      /\ (p.objective = <<>> => FirstEnough)
      /\ (asked.timeout # <<>> => asked.timeout[1] \in Int)
  BY RequestIs DEF Searched, Recorded, SearchOf, FirstEnough, Course, ProblemLoads
<1>2. /\ r.status = Disposition(termination, s.best) /\ r.termination = termination
      /\ r.witness = s.best /\ r.objective = Value(s.best)
      /\ r.interval = Interval(p, r.status, r.objective)
      /\ r.proof = Proof(r.status) /\ r.calls = 1
      /\ r.visited = s.next /\ r.space = Space(p) /\ r.checks = s.checks
      /\ r.elapsed = (IF r.status = "timeout" THEN time - s.start ELSE 0)
      /\ r.stepLimit = asked.solve
  BY FoundIs
<1>. SUFFICES Kept(r)
  OBVIOUS
<1>. HIDE DEF r
<1>3. ASSUME NEW n \in Nat, n <= s.next
      PROVE  LET replay == Replayed(n)
             IN  ~replay.early /\ replay.steps = n /\ replay.checks = Looked(p, n - 1)
  <2>1. Fits(p, n) \subseteq Fits(p, s.next)
    BY <1>1, <1>3 DEF Fits
  <2>2. ~Replayed(n).early
    BY <1>1, <2>1, ReplayIs
  <2>. QED BY <2>2, ReplayIs
<1>4. ASSUME NEW n \in Nat, n <= r.visited
      PROVE  LET replay == Replayed(n)
             IN  ~(replay.checks > r.checks) /\ (replay.early => replay.steps = r.visited)
  <2>1. /\ Looked(p, n - 1) \in Nat /\ Looked(p, s.next - 1) \in Nat
        /\ Looked(p, n - 1) <= Looked(p, s.next - 1)
    BY <1>1, <1>2, <1>4, LookedIs, LookedMore
  <2>. QED BY <1>1, <1>2, <1>3, <1>4, <2>1
<1>. DEFINE replay == Replayed(r.visited)
<1>5. /\ ~replay.early /\ replay.steps = s.next /\ replay.checks = r.checks
      /\ replay.best = s.best
  <2>1. SetToSeq({Assignment(p, k) : k \in Unimproved(p, s.next)}) = s.best
    BY <1>1, BestIsChosen
  <2>. QED BY <1>1, <1>2, <1>3, <2>1, ReplayIs
<1>. HIDE DEF replay
<1>6. termination \in {"search-exhausted", "lease-deadline", "request-timeout", "step-limit"}
  BY DEF Stopped
<1>7. Explains(r, replay)
  <2>1. termination = "search-exhausted" => s.next = Space(p)
    BY DEF Stopped
  <2>2. termination # "search-exhausted" => s.next < Space(p)
    BY <1>1 DEF Stopped
  <2>3. termination = "step-limit" => s.next = asked.solve
    BY <1>1 DEF Stopped
  <2>4. termination = "request-timeout" =>
          /\ asked.timeout # <<>> /\ r.elapsed >= asked.timeout[1]
    <3>1. SUFFICES ASSUME termination = "request-timeout"
                   PROVE  asked.timeout # <<>> /\ r.elapsed >= asked.timeout[1]
      OBVIOUS
    <3>2. asked.timeout # <<>> /\ time >= s.start + asked.timeout[1]
      BY <3>1 DEF Stopped
    <3>3. r.elapsed = time - s.start
      <4>1. r.status = "timeout"
        BY <1>2, <3>1 DEF Disposition
      <4>. QED BY <1>2, <4>1
    <3>4. \A t, x, y \in Int : x >= y + t => x - y >= t
      OBVIOUS
    <3>. QED BY <1>1, <3>2, <3>3, <3>4
  <2>. HIDE DEF termination
  <2>. QED BY <1>2, <1>5, <1>6, <2>1, <2>2, <2>3, <2>4 DEF Explains
<1>8. Concludes(r, replay, Disposition(r.termination, replay.best))
  <2>. HIDE DEF termination
  <2>. QED BY <1>2, <1>5, <1>7 DEF Concludes
<1>9. r.termination # "adapter-error"
  <2>. HIDE DEF termination
  <2>. QED BY <1>2, <1>6
<1>. HIDE DEF termination
<1>. QED BY <1>1, <1>2, <1>4, <1>8, <1>9, KeptWhen DEF replay

\* A search that ends with its first witness.
LEMMA WitnessIsKept ==
  ASSUME SolverBounds, Course, asked.adapter # "external-cli",
         NEW s, Searched(s), Stopped(s) = "none", FirstEnough,
         Satisfies(asked.problem, Assignment(asked.problem, s.next)),
         NEW t,
         LET p == asked.problem
             a == Assignment(p, s.next)
         IN  t = SearchOf(s.next + 1, s.checks + Evaluated(p, a)[2], <<a>>, s.start, s.deadline)
  PROVE  Kept(Found(t, "witness-found"))
<1>. DEFINE p == asked.problem
            a == Assignment(p, s.next)
            m == s.next + 1
            r == Found(t, "witness-found")
<1>1. /\ Loaded(p) /\ Space(p) \in Nat /\ asked.solve \in Nat
      /\ s.next \in Nat /\ s.next <= Space(p) /\ s.next <= asked.solve
      /\ s.checks = Looked(p, s.next - 1) /\ Fits(p, s.next) = {}
  BY RequestIs DEF Searched, Recorded, SearchOf
<1>2. s.next # Space(p) /\ ~(s.next >= asked.solve)
  BY DEF Stopped
<1>3. m \in Nat /\ m <= Space(p) /\ m <= asked.solve /\ m - 1 = s.next
  BY <1>1, <1>2
<1>4. t.next = m /\ t.checks = Looked(p, m - 1) /\ t.best = <<a>> /\ Looked(p, m - 1) \in Nat
  <2>1. /\ Looked(p, s.next) = Looked(p, s.next - 1) + Evaluated(p, a)[2]
        /\ Looked(p, m - 1) \in Nat
    BY <1>1, <1>3, LookedIs
  <2>. QED BY <1>1, <1>3, <2>1 DEF SearchOf
<1>5. Fits(p, m) = {s.next}
  BY <1>1, <1>3 DEF Fits
<1>6. /\ r.status = Disposition("witness-found", <<a>>) /\ r.termination = "witness-found"
      /\ r.witness = <<a>> /\ r.objective = Value(<<a>>)
      /\ r.interval = Interval(p, r.status, r.objective)
      /\ r.proof = Proof(r.status) /\ r.calls = 1
      /\ r.visited = m /\ r.space = Space(p) /\ r.checks = Looked(p, m - 1)
      /\ (r.status # "timeout" => r.elapsed = 0)
      /\ r.stepLimit = asked.solve
  <2>. HIDE DEF a, m
  <2>. QED BY <1>4, FoundIs
<1>. SUFFICES Kept(r)
  OBVIOUS
<1>. HIDE DEF r, m
<1>10. /\ Replayed(m).early /\ Replayed(m).steps = m
       /\ Replayed(m).best = <<Assignment(p, s.next)>>
       /\ Replayed(m).checks = Looked(p, m - 1)
  <2>. HIDE DEF a
  <2>1. Replayed(m).early <=> FirstEnough /\ Fits(p, m) # {}
    BY <1>3, ReplayIs
  <2>2. Replayed(m).early
    BY <1>5, <2>1
  <2>3. PICK k \in Fits(p, m) :
          Replayed(m).steps = k + 1 /\ Replayed(m).best = <<Assignment(p, k)>>
    BY <1>3, <2>2, ReplayIs
  <2>4. k = s.next
    BY <1>5
  <2>5. Replayed(m).steps = m
    BY <2>3, <2>4 DEF m
  <2>6. Replayed(m).checks = Looked(p, Replayed(m).steps - 1)
    BY <1>3, ReplayIs
  <2>. QED BY <2>2, <2>3, <2>4, <2>5, <2>6
<1>7. ASSUME NEW n \in Nat, n <= r.visited
      PROVE  LET replay == Replayed(n)
             IN  ~(replay.checks > r.checks) /\ (replay.early => replay.steps = r.visited)
  <2>1. CASE n = m
    <3>1. Replayed(n).steps = m /\ Replayed(n).checks = Looked(p, m - 1)
      BY <2>1, <1>10
    <3>. QED BY <1>4, <1>6, <3>1
  <2>2. CASE n # m
    <3>1. n <= s.next /\ n <= m
      BY <1>1, <1>3, <1>6, <1>7, <2>2
    <3>2. Fits(p, n) \subseteq Fits(p, s.next)
      BY <1>1, <3>1 DEF Fits
    <3>3. ~Replayed(n).early /\ Replayed(n).steps = n
      BY <1>1, <3>2, ReplayIs
    <3>4. Replayed(n).checks = Looked(p, n - 1)
      BY <3>3, ReplayIs
    <3>5. Looked(p, n - 1) \in Nat /\ Looked(p, n - 1) <= Looked(p, m - 1)
      BY <1>1, <1>3, <3>1, LookedIs, LookedMore
    <3>. QED BY <1>4, <1>6, <3>3, <3>4, <3>5
  <2>. QED BY <2>1, <2>2
<1>. DEFINE replay == Replayed(r.visited)
<1>8. replay.early /\ replay.checks = r.checks /\ replay.best = <<a>>
  BY <1>6, <1>10
<1>. HIDE DEF replay, a
<1>9. Concludes(r, replay, Disposition(r.termination, replay.best))
  <2>1. Explains(r, replay)
    BY <1>6, <1>8 DEF Explains
  <2>. QED BY <1>6, <1>8, <2>1 DEF Concludes
<1>. QED BY <1>3, <1>6, <1>7, <1>9, KeptWhen DEF replay
-----------------------------------------------------------------------------
\* No honest search is lost.

\* The request of a task does not change, and with it what a replay of a result
\* says.
ReplayOf(p, enough, n, fits) ==
  LET early == enough /\ fits # {}
      first == CHOOSE k \in fits : \A j \in fits : k <= j
      last == IF early THEN first ELSE n - 1
      Better(j, k) == Improves(p, Assignment(p, j), <<Assignment(p, k)>>)
      chosen == IF early THEN {first} ELSE {k \in fits : \A j \in fits \ {k} : ~Better(j, k)}
  IN  [early |-> early, steps |-> last + 1,
       checks |-> FoldFunction(+, 0, [k \in 0..last |-> Evaluated(p, Assignment(p, k))[2]]),
       best |-> SetToSeq({Assignment(p, k) : k \in chosen})]

\* The replay of a service is that of the pure search, on the problem it was asked.
LEMMA ReplayIsOf ==
  \A n : Replayed(n) = ReplayOf(asked.problem, FirstEnough, n, Fits(asked.problem, n))
BY Zenon DEF Replayed, ReplayedOver, ReplayOf, Fits

\* So it is in the next state.
LEMMA ReplayIsOfNext ==
  (\A n : Replayed(n) = ReplayOf(asked.problem, FirstEnough, n, Fits(asked.problem, n)))'
<1>1. \A n : Replayed(n) = ReplayOf(asked.problem, FirstEnough, n, Fits(asked.problem, n))
  BY ReplayIsOf
<1>. QED BY <1>1, PTL

\* Whether an honest result would be kept depends on the request alone.
LEMMA KeptStays ==
  ASSUME asked' = asked, NEW CONSTANT r
  PROVE  Kept(r)' = Kept(r)
<1>1. FirstEnough' = FirstEnough
  BY DEF FirstEnough
<1>2. ASSUME NEW CONSTANT n
      PROVE  Replayed(n)' = Replayed(n)
  <2>1. Replayed(n)' = ReplayOf(asked'.problem, FirstEnough', n, Fits(asked'.problem, n))
    BY ReplayIsOfNext
  <2>. QED BY <1>1, <2>1, ReplayIsOf
<1>3. ASSUME NEW CONSTANT n, NEW CONSTANT replay
      PROVE  ReplayMatches(r, n, replay)' = ReplayMatches(r, n, replay)
  BY DEF ReplayMatches, Concludes, Explains, Value, Disposition
<1>. DEFINE n == IF r.visited <= asked.verify THEN r.visited ELSE asked.verify
<1>4. Replay(r) = ReplayMatches(r, n, Replayed(n))
  BY DEF Replay
<1>5. Replay(r)' = ReplayMatches(r, n, Replayed(n))'
  BY DEF Replay
<1>6. Replay(r)' = Replay(r)
  <2>1. PICK m : m = n
    OBVIOUS
  <2>2. PICK replay : replay = Replayed(m)
    OBVIOUS
  <2>3. Replay(r) = ReplayMatches(r, m, replay)
    BY <1>4, <2>1, <2>2
  <2>4. n' = m /\ Replayed(m)' = replay
    BY <1>2, <2>1, <2>2
  <2>5. Replay(r)' = ReplayMatches(r, m, replay)'
    BY <2>4 DEF Replay
  <2>. QED BY <1>3, <2>3, <2>5
<1>. QED BY <1>6 DEF Kept

\* What run publishes without a search: its adapter is not called, or failed.
LEMMA BlankIsKept ==
  ASSUME SolverBounds, Course, NEW r,
         r.visited = 0, r.checks = 0, r.elapsed = 0, r.witness = <<>>, r.objective = <<>>,
         r.interval = <<>>, r.space = Space(asked.problem), r.stepLimit = asked.solve,
         IF asked.adapter = "external-cli"
         THEN r.status = "unavailable" /\ r.termination = "adapter-unavailable" /\ r.calls = 0
         ELSE r.status = "error" /\ r.termination = "adapter-error" /\ r.calls = 1
  PROVE  Kept(r)
<1>1. asked.solve \in Nat
  BY RequestIs
<1>2. ASSUME NEW n, NEW replay
      PROVE  LET answer == ReplayMatches(r, n, replay)
             IN  answer.stands /\ answer.complete
  <2>. DEFINE unused == /\ r.visited = 0 /\ r.checks = 0 /\ r.elapsed = 0
                        /\ r.witness = <<>> /\ r.objective = <<>> /\ r.interval = <<>>
              absent == /\ r.termination = "adapter-unavailable" /\ r.calls = 0 /\ unused
                        /\ r.status = "unavailable"
              failed == r.calls = 1 /\ unused /\ r.status = "error"
  <2>1. /\ r.space = Space(asked.problem) /\ r.stepLimit = asked.solve
        /\ r.visited <= asked.solve /\ r.calls <= 1
    BY <1>1
  <2>2. CASE asked.adapter = "external-cli"
    <3>1. ReplayMatches(r, n, replay) = Answer(absent, TRUE, 0)
      BY <2>1, <2>2 DEF ReplayMatches
    <3>2. absent
      BY <2>2
    <3>. HIDE DEF absent
    <3>. QED BY <3>1, <3>2 DEF Answer
  <2>3. CASE asked.adapter # "external-cli"
    <3>1. ReplayMatches(r, n, replay) = Answer(failed, TRUE, 0)
      BY <2>1, <2>3 DEF ReplayMatches
    <3>2. failed
      BY <2>3
    <3>. HIDE DEF failed
    <3>. QED BY <3>1, <3>2 DEF Answer
  <2>. QED BY <2>2, <2>3
<1>3. Replay(r).stands /\ Replay(r).complete
  BY <1>2 DEF Replay
<1>. QED BY <1>3 DEF Kept

\* A search under way is one of the reference adapter under a lease that
\* serves it, and what that adapter reported verification keeps.
Served ==
  /\ time \in Int
  /\ search # <<>> => /\ asked.adapter # "external-cli" /\ LeaseServes
                      /\ \E s : search = <<s>> /\ Searched(s)
  /\ honest => LeaseServes /\ \E r : reported = <<r>> /\ Kept(r)

\* A search goes on, or ends with a result that is kept.
LEMMA VisitServes ==
  ASSUME SolverBounds, Course, Served, Visit
  PROVE  \/ /\ \E s : search' = <<s>> /\ Searched(s)
            /\ UNCHANGED <<asked, intact, time, held, reported, honest, verdict, adopted>>
         \/ /\ search' = <<>> /\ \E r : Kept(r) /\ Publish(r, TRUE)
<1>1. PICK s : search = <<s>> /\ Searched(s)
  BY DEF Visit, Served
<1>. DEFINE p == asked.problem
            a == Assignment(p, s.next)
            seen == Evaluated(p, a)
            looked == [s EXCEPT !.next = @ + 1, !.checks = @ + seen[2]]
<1>2. /\ asked.adapter # "external-cli" /\ time \in Int /\ search[1] = s
      /\ Recorded(s) /\ s.next \in Nat
  <2>1. search # <<>> /\ search[1] = s
    BY <1>1
  <2>2. Recorded(s)
    BY <1>1 DEF Searched
  <2>3. s.next \in Nat
    BY <2>2 DEF Recorded, SearchOf
  <2>. QED BY <2>1, <2>2, <2>3 DEF Served
<1>3. looked = SearchOf(s.next + 1, s.checks + seen[2], s.best, s.start, s.deadline)
  <2>. HIDE DEF seen
  <2>. QED BY <1>2, LookedAt
<1>4. [looked EXCEPT !.best = <<a>>]
        = SearchOf(s.next + 1, s.checks + seen[2], <<a>>, s.start, s.deadline)
  <2>. HIDE DEF looked, seen, a
  <2>. QED BY <1>3 DEF SearchOf
<1>. HIDE DEF looked
<1>5. CASE Stopped(s) # "none"
  <2>1. search' = <<>> /\ Publish(Found(s, Stopped(s)), TRUE)
    BY <1>2, <1>5 DEF Visit
  <2>2. Kept(Found(s, Stopped(s)))
    BY <1>1, <1>2, <1>5, FoundIsKept
  <2>. QED BY <2>1, <2>2
<1>6. CASE Stopped(s) = "none" /\ seen[1] /\ FirstEnough
  <2>. DEFINE t == [looked EXCEPT !.best = <<a>>]
  <2>1. search' = <<>> /\ Publish(Found(t, "witness-found"), TRUE)
    BY <1>2, <1>6 DEF Visit, looked
  <2>. HIDE DEF t
  <2>2. Kept(Found(t, "witness-found"))
    BY <1>1, <1>2, <1>4, <1>6, WitnessIsKept DEF Satisfies, t
  <2>. QED BY <2>1, <2>2
<1>7. CASE Stopped(s) = "none" /\ ~(seen[1] /\ FirstEnough)
  <2>. DEFINE better == seen[1] /\ Improves(p, a, s.best)
              t == SearchOf(s.next + 1, s.checks + seen[2],
                            IF better THEN <<a>> ELSE s.best, s.start, s.deadline)
  <2>1. /\ search' = <<IF better THEN [looked EXCEPT !.best = <<a>>] ELSE looked>>
        /\ UNCHANGED <<asked, intact, time, held, reported, honest, verdict, adopted>>
    BY <1>2, <1>7 DEF Visit, looked
  <2>2. (IF better THEN [looked EXCEPT !.best = <<a>>] ELSE looked) = t
    <3>. HIDE DEF better, seen, a
    <3>. QED BY <1>3, <1>4
  <2>3. /\ Loaded(p) /\ Space(p) \in Nat /\ asked.solve \in Nat
        /\ s.next <= Space(p) /\ s.next <= asked.solve /\ s.start \in Int
        /\ s.checks = Looked(p, s.next - 1) /\ IsBest(p, s.next, s.best)
        /\ (FirstEnough => Fits(p, s.next) = {}) /\ (p.objective = <<>> => FirstEnough)
    BY <1>1, RequestIs DEF Searched, FirstEnough, Course, ProblemLoads
  <2>4. s.next # Space(p) /\ ~(s.next >= asked.solve)
    BY <1>7 DEF Stopped
  <2>5. s.next + 1 <= Space(p) /\ s.next + 1 <= asked.solve /\ s.next + 1 - 1 = s.next
    BY <1>2, <2>3, <2>4
  <2>6. FirstEnough => Fits(p, s.next + 1) = {}
    <3>1. SUFFICES ASSUME FirstEnough PROVE Fits(p, s.next + 1) = {}
      OBVIOUS
    <3>2. ~Satisfies(p, a) /\ Fits(p, s.next) = {}
      BY <1>7, <2>3, <3>1 DEF Satisfies
    <3>. QED BY <1>2, <3>2 DEF Fits
  <2>7. IsBest(p, s.next + 1, IF better THEN <<a>> ELSE s.best)
    <3>1. IsBest(p, s.next + 1, IF Satisfies(p, a) /\ Improves(p, a, s.best) THEN <<a>> ELSE s.best)
      BY <1>2, <2>3, <2>6, BestSoFar
    <3>. QED BY <3>1 DEF Satisfies
  <2>8. s.checks + seen[2] = Looked(p, s.next)
    BY <1>2, <2>3, LookedIs
  <2>9. /\ t.next = s.next + 1 /\ t.checks = s.checks + seen[2] /\ t.start = s.start
        /\ t.best = IF better THEN <<a>> ELSE s.best
        /\ Recorded(t)
    <3>. DEFINE best == IF better THEN <<a>> ELSE s.best
    <3>. HIDE DEF best
    <3>1. t = SearchOf(s.next + 1, s.checks + seen[2], best, s.start, s.deadline)
      BY DEF best
    <3>. HIDE DEF better, seen, a, t
    <3>2. /\ t.next = s.next + 1 /\ t.checks = s.checks + seen[2] /\ t.start = s.start
          /\ t.best = best
      BY <3>1 DEF SearchOf
    <3>3. Recorded(t)
      BY <1>2, <3>1 DEF Recorded
    <3>. QED BY <3>2, <3>3 DEF best
  <2>. HIDE DEF t, better, seen, a
  <2>10. Searched(t)
    <3>1. t.next - 1 = s.next
      BY <1>2, <2>5, <2>9
    <3>2. t.checks = Looked(p, t.next - 1)
      BY <2>8, <2>9, <3>1
    <3>3. IsBest(p, t.next, t.best) /\ (FirstEnough => Fits(p, t.next) = {})
      BY <2>6, <2>7, <2>9
    <3>. QED BY <2>3, <2>5, <2>9, <3>2, <3>3 DEF Searched
  <2>. QED BY <2>1, <2>2, <2>10
<1>. QED BY <1>5, <1>6, <1>7
\* What an action can do to what is searched, reported and judged.
LEMMA ServedSteps ==
  ASSUME SolverBounds, Course, Served, [SolverNext]_solverVars
  PROVE  /\ asked' = asked /\ time' \in Int
         /\ \/ /\ LeaseServes /\ search' = <<>> /\ verdict' = <<>>
               /\ \E r : reported' = <<r>> /\ Kept(r)
            \/ search = <<>> /\ search' = <<>> /\ honest' = FALSE
            \/ /\ asked.adapter # "external-cli" /\ LeaseServes
               /\ \E s : search' = <<s>> /\ Searched(s)
               /\ UNCHANGED <<reported, honest, verdict>>
            \/ search' \in {search, <<>>} /\ UNCHANGED <<reported, honest, verdict>>
            \/ UNCHANGED <<search, reported, honest>> /\ Verify
<1>. DEFINE p == asked.problem
<1>1. CASE Authorize
  <2>1. /\ LeaseServes /\ search = <<>> /\ Loaded(p) /\ Space(p) \in Nat /\ asked.solve \in Nat
    BY <1>1, RequestIs DEF Authorize
  <2>2. CASE asked.adapter = "external-cli"
    <3>. DEFINE r == BlankResult("unavailable", "adapter-unavailable", 0)
    <3>1. Publish(r, TRUE) /\ search' = search
      BY <1>1, <2>2 DEF Authorize
    <3>2. Kept(r)
      BY <2>2, BlankIsKept DEF BlankResult
    <3>. HIDE DEF r
    <3>. QED BY <2>1, <3>1, <3>2 DEF Publish, Served
  <2>3. CASE asked.adapter # "external-cli"
    <3>. DEFINE s == SearchOf(0, 0, <<>>, time, held.expires)
    <3>1. /\ search' = <<s>>
          /\ UNCHANGED <<asked, intact, time, held, reported, honest, verdict, adopted>>
      BY <1>1, <2>3 DEF Authorize, SearchOf
    <3>2. Fits(p, 0) = {}
      BY DEF Fits
    <3>3. Looked(p, 0 - 1) = 0
      BY <2>1, LookedIs
    <3>4. /\ s.next = 0 /\ s.checks = 0 /\ s.best = <<>> /\ s.start = time /\ Recorded(s)
      BY DEF SearchOf, Recorded
    <3>5. IsBest(p, 0, <<>>)
      BY <3>2 DEF IsBest
    <3>. HIDE DEF s
    <3>6. Searched(s)
      BY <2>1, <3>2, <3>3, <3>4, <3>5 DEF Searched, Served
    <3>. QED BY <2>1, <2>3, <3>1, <3>6 DEF Served
  <2>. QED BY <2>2, <2>3
<1>2. CASE Visit
  <2>1. search # <<>>
    BY <1>2 DEF Visit
  <2>. QED BY <1>2, <2>1, VisitServes DEF Publish, Served
<1>3. CASE AdapterFails
  <2>. DEFINE blank == BlankResult("error", "adapter-error", 1)
              r == [blank EXCEPT !.lease = search[1].deadline]
  <2>1. search # <<>> /\ search' = <<>> /\ Publish(r, TRUE)
    BY <1>3 DEF AdapterFails
  <2>2. LeaseServes /\ asked.adapter # "external-cli"
    BY <2>1 DEF Served
  <2>3. Kept(r)
    BY <2>2, BlankIsKept DEF BlankResult
  <2>. HIDE DEF r
  <2>. QED BY <2>1, <2>2, <2>3 DEF Publish, Served
<1>4. CASE Abandon
  BY <1>4 DEF Abandon, Served
<1>5. CASE Verify
  BY <1>5 DEF Verify, Served
<1>6. CASE Adopt
  BY <1>6 DEF Adopt, Served
<1>7. CASE Renew \/ Expire \/ ReplaceFile
  BY <1>7 DEF Renew, Expire, ReplaceFile, Served
<1>8. CASE Tick
  BY <1>8 DEF Tick, Served
<1>9. CASE Misreport
  <2>1. /\ search = <<>> /\ search' = search
        /\ \E r : Publish(r, FALSE)
    BY <1>9 DEF Misreport
  <2>. QED BY <2>1 DEF Publish, Served
<1>10. CASE UNCHANGED solverVars
  BY <1>10 DEF solverVars, Served
<1>. QED BY <1>1, <1>2, <1>3, <1>4, <1>5, <1>6, <1>7, <1>8, <1>9, <1>10 DEF SolverNext

\* What verification said of a result holds from the verdict on.
LEMMA ServedInvariant == ASSUME SolverBounds PROVE SolverSpec => []Served
<1>1. SolverInit => Served
  BY DEF SolverInit, Served
<1>2. Course /\ Served /\ [SolverNext]_solverVars => Served'
  <2>. SUFFICES ASSUME Course, Served, [SolverNext]_solverVars PROVE Served'
    OBVIOUS
  <2>1. asked' = asked /\ time' \in Int
    BY ServedSteps
  <2>2. /\ LeaseServes' = LeaseServes
        /\ \A s : Searched(s) => Searched(s)'
    BY <2>1 DEF LeaseServes, Searched, FirstEnough
  <2>3. ASSUME NEW CONSTANT r, Kept(r)
        PROVE  Kept(r)'
    BY <2>1, <2>3, KeptStays
  <2>4. search' # <<>> => /\ asked'.adapter # "external-cli" /\ LeaseServes'
                          /\ \E s : search' = <<s>> /\ Searched(s)'
    <3>1. \/ search' = <<>> \/ search' = search
          \/ /\ asked.adapter # "external-cli" /\ LeaseServes
             /\ \E s : search' = <<s>> /\ Searched(s)
      BY ServedSteps
    <3>. QED BY <2>1, <2>2, <3>1 DEF Served
  <2>5. honest' => LeaseServes' /\ \E r : reported' = <<r>> /\ Kept(r)'
    <3>1. \/ LeaseServes /\ \E r : reported' = <<r>> /\ Kept(r)
          \/ ~honest' \/ UNCHANGED <<reported, honest>>
      BY ServedSteps
    <3>. QED BY <2>2, <2>3, <3>1 DEF Served
  <2>. QED BY <2>1, <2>4, <2>5 DEF Served
<1>. QED BY <1>1, <1>2, CourseInvariant, PTL DEF SolverSpec

\* The loop of solve, the loader's accounting rules and the replay of verify,
\* written apart, agree for every request: no search of the reference adapter
\* is lost at publication, and under the lease it was found with none is
\* rejected at verification.
THEOREM HonestSearchesKept == ASSUME SolverBounds PROVE SolverSpec => []HonestIsKept
<1>1. Course /\ Served => FoundIsPublished
  <2>. SUFFICES ASSUME Course, Served, NEW s \in ToSet(search), Stopped(s) # "none"
                PROVE  ResultLoads(Found(s, Stopped(s)))
    BY DEF FoundIsPublished
  <2>1. search # <<>>
    BY DEF ToSet
  <2>2. PICK t : search = <<t>> /\ Searched(t)
    BY <2>1 DEF Served
  <2>3. s = t
    BY <2>2 DEF ToSet
  <2>. QED BY <2>2, <2>3, SearchPublishes
<1>2. SolverInit => HonestIsVerified
  BY DEF SolverInit, HonestIsVerified
<1>3. Course /\ Served /\ HonestIsVerified /\ [SolverNext]_solverVars => HonestIsVerified'
  <2>. SUFFICES ASSUME Course, Served, HonestIsVerified, [SolverNext]_solverVars
                PROVE  HonestIsVerified'
    OBVIOUS
  <2>1. asked' = asked
    BY ServedSteps
  <2>2. CASE verdict' = <<>> \/ ~honest'
    BY <2>2 DEF HonestIsVerified
  <2>3. CASE UNCHANGED <<reported, honest, verdict>>
    BY <2>1, <2>3 DEF HonestIsVerified
  <2>4. CASE Verify /\ honest
    <3>1. PICK r : reported = <<r>> /\ Kept(r)
      BY <2>4 DEF Served
    <3>2. LeaseServes /\ verdict' = <<Judged(r, Replay(r))>> /\ reported' = <<r>>
      BY <2>4, <3>1 DEF Verify, Verification, Served
    <3>. DEFINE v == Judged(r, Replay(r))
    <3>3. v.lease = r.lease =>
            /\ v.outcome # "rejected"
            /\ r.status \notin Incomplete /\ r.visited <= asked.verify => v.outcome = "verified"
      BY <3>1, <3>2 DEF Judged, Kept
    <3>. HIDE DEF v
    <3>4. verdict'[1] = v /\ reported'[1] = r
      BY <3>2 DEF v
    <3>. QED BY <2>1, <3>3, <3>4 DEF HonestIsVerified
  <2>5. CASE Verify /\ ~honest
    BY <2>5 DEF Verify, HonestIsVerified
  <2>. QED BY <2>2, <2>3, <2>4, <2>5, ServedSteps
<1>. QED BY <1>1, <1>2, <1>3, CourseInvariant, ServedInvariant, PTL DEF SolverSpec, HonestIsKept

\* What verification concludes is exact in both directions: only what is true
\* is adopted as success, and nothing truly found is lost or rejected.
THEOREM VerdictsAreExact == ASSUME SolverBounds PROVE SolverSpec => []VerdictsExact
BY SuccessIsProved, HonestSearchesKept, PTL DEF VerdictsExact
=============================================================================
