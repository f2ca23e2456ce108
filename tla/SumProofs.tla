------------------------------ MODULE SumProofs ------------------------------
(***************************************************************************)
(* Sums over finite sets, the way MapThenSumSet of FiniteSetsExt folds     *)
(* them: what a sum is when one summand changes, and over which elements   *)
(* it may be taken.  Induction is by the least counterexample.             *)
(***************************************************************************)
EXTENDS Integers, FiniteSetsExt, FiniteSetTheorems, WellFoundedInduction, TLAPS

\* The element that the fold takes next.
Taken(s) == CHOOSE x \in s : TRUE

Rest(s) == s \ {Taken(s)}

\* The recursion of MapThenSumSet, of the summands f[x].
SumFrom(g, f, s) == IF s = {} THEN 0 ELSE f[Taken(s)] + g[Rest(s)]
FoldOf(g, f, A) == g = [s \in SUBSET A |-> SumFrom(g, f, s)]

Total(f, A) == (CHOOSE g : FoldOf(g, f, A))[A]

-----------------------------------------------------------------------------
\* Numbers and cardinalities.

\* A set of natural numbers that is not empty has a least element.
LEMMA LeastNumber ==
  ASSUME NEW T \in SUBSET Nat, T # {}
  PROVE  \E m \in T : \A n \in T : m <= n
<1>1. IsWellFoundedOn(OpToRel(<, Nat), Nat)
  BY NatLessThanWellFounded
<1>2. PICK m \in T : \A n \in T : <<n, m>> \notin OpToRel(<, Nat)
  BY <1>1, WFMin
<1>3. \A n \in T : ~(n < m)
  BY <1>2 DEF OpToRel
<1>. QED BY <1>3

\* What holds of zero, and of the next number when it holds of one, holds of
\* all of them: H is the set of numbers of which it holds.
LEMMA AllNumbers ==
  ASSUME NEW H, 0 \in H, \A n \in Nat : n \in H => n + 1 \in H
  PROVE  \A n \in Nat : n \in H
<1>. SUFFICES ASSUME NEW k \in Nat, k \notin H
              PROVE  FALSE
  OBVIOUS
<1>. DEFINE T == {n \in Nat : n \notin H}
<1>1. PICK m \in T : \A n \in T : m <= n
  <2>1. T \in SUBSET Nat /\ T # {}
    OBVIOUS
  <2>. HIDE DEF T
  <2>. QED BY <2>1, LeastNumber
<1>2. m \in Nat /\ m # 0 /\ m - 1 \in Nat
  OBVIOUS
<1>3. m - 1 \in H
  BY <1>1, <1>2
<1>4. (m - 1) + 1 \in H
  BY <1>2, <1>3
<1>. QED BY <1>1, <1>2, <1>4

\* Every nonempty set of numbers with an upper bound has a largest element.
LEMMA LargestNumber ==
  ASSUME NEW N \in Nat, NEW S \in SUBSET (0 .. N), S # {}
  PROVE  \E w \in S : \A v \in S : v <= w
<1> DEFINE left == {N - w : w \in S}
<1>0. \A w \in S : w \in Nat /\ N - w \in Nat
  OBVIOUS
<1>1. left \in SUBSET Nat /\ left # {}
  BY <1>0
<1> HIDE DEF left
<1>2. PICK x \in left : \A y \in left : x <= y
  BY <1>1, LeastNumber
<1> USE DEF left
<1>3. PICK w \in S : x = N - w
  BY <1>2
<1>4. \A v \in S : v <= w
  <2> TAKE v \in S
  <2>1. N - w <= N - v
    BY <1>2, <1>3
  <2> QED BY <1>0, <2>1
<1> QED BY <1>4

\* An element taken from a finite set leaves a smaller one.
LEMMA Smaller ==
  ASSUME NEW A, IsFiniteSet(A), NEW s \in SUBSET A, NEW x \in s
  PROVE  /\ IsFiniteSet(s) /\ Cardinality(s) \in Nat
         /\ IsFiniteSet(s \ {x}) /\ Cardinality(s \ {x}) = Cardinality(s) - 1
         /\ Cardinality(s \ {x}) \in Nat
<1>1. IsFiniteSet(s)
  BY FS_Subset
<1>2. Cardinality(s) \in Nat
  BY <1>1, FS_CardinalityType
<1>3. IsFiniteSet(s \ {x}) /\ Cardinality(s \ {x}) = Cardinality(s) - 1
  BY <1>1, FS_RemoveElement
<1>4. Cardinality(s \ {x}) \in Nat
  BY <1>3, FS_CardinalityType
<1>. QED BY <1>1, <1>2, <1>3, <1>4

\* A set without elements is the only one of cardinality zero.
LEMMA NoElements ==
  ASSUME NEW s, IsFiniteSet(s)
  PROVE  Cardinality(s) \in Nat /\ (Cardinality(s) = 0 <=> s = {})
BY FS_EmptySet, FS_CardinalityType

\* Some integers that are finitely many have a least and a greatest one.
LEMMA Extremes ==
  ASSUME NEW S \in SUBSET Int, IsFiniteSet(S), S # {}
  PROVE  /\ \E x \in S : \A y \in S : x <= y
         /\ \E x \in S : \A y \in S : x >= y
<1>. DEFINE Ends(s) == /\ \E x \in s : \A y \in s : x <= y
                       /\ \E x \in s : \A y \in s : x >= y
            H == {n \in Nat : \A s \in SUBSET S : Cardinality(s) = n /\ s # {} => Ends(s)}
<1>0. \A s \in SUBSET S : IsFiniteSet(s) /\ Cardinality(s) \in Nat
  BY FS_Subset, FS_CardinalityType
<1>1. 0 \in H
  BY <1>0, NoElements
<1>2. ASSUME NEW n \in Nat, n \in H
      PROVE  n + 1 \in H
  <2>1. ASSUME NEW s \in SUBSET S, Cardinality(s) = n + 1, s # {}
        PROVE  Ends(s)
    <3>1. PICK e \in s : TRUE
      BY <2>1
    <3>. DEFINE r == s \ {e}
    <3>2. r \in SUBSET S /\ Cardinality(r) = n /\ e \in Int
      BY <1>0, <2>1, Smaller
    <3>3. CASE r = {}
      <4>1. s = {e}
        BY <3>3
      <4>. QED BY <3>2, <4>1
    <3>4. CASE r # {}
      <4>1. PICK x \in r : \A y \in r : x <= y
        BY <1>2, <3>2, <3>4
      <4>2. PICK z \in r : \A y \in r : z >= y
        BY <1>2, <3>2, <3>4
      <4>3. s = r \cup {e} /\ r \subseteq Int
        OBVIOUS
      <4>. HIDE DEF r
      <4>4. \E w \in s : \A y \in s : w <= y
        BY <3>2, <4>1, <4>3
      <4>5. \E w \in s : \A y \in s : w >= y
        BY <3>2, <4>2, <4>3
      <4>. QED BY <4>4, <4>5
    <3>. QED BY <3>3, <3>4
  <2>. QED BY <2>1
<1>3. Cardinality(S) \in H
  <2>. HIDE DEF H
  <2>. QED BY <1>0, <1>1, <1>2, AllNumbers
<1>. QED BY <1>3

\* The element a set is taken apart by is one of its own.
LEMMA TakenFrom ==
  ASSUME NEW s, s # {}
  PROVE  Taken(s) \in s
BY DEF Taken

-----------------------------------------------------------------------------
\* The recursion has one solution.

\* Subsets of up to n elements can be summed up.
LEMMA FoldExists ==
  ASSUME NEW A, IsFiniteSet(A), NEW f
  PROVE  \E g : FoldOf(g, f, A)
<1>. DEFINE Upto(g, n) == \A s \in SUBSET A : Cardinality(s) <= n => g[s] = SumFrom(g, f, s)
            H == {n \in Nat : \E g : Upto(g, n)}
<1>0. \A s \in SUBSET A : IsFiniteSet(s) /\ Cardinality(s) \in Nat
  BY FS_Subset, FS_CardinalityType
<1>1. 0 \in H
  <2>. DEFINE g == [s \in SUBSET A |-> 0]
  <2>1. \A s \in SUBSET A : Cardinality(s) <= 0 => s = {}
    BY <1>0, NoElements
  <2>2. Upto(g, 0)
    BY <2>1 DEF SumFrom
  <2>. QED BY <2>2
<1>2. ASSUME NEW g, NEW n \in Nat, Upto(g, n)
      PROVE  Upto([s \in SUBSET A |-> SumFrom(g, f, s)], n + 1)
  <2>. DEFINE h == [s \in SUBSET A |-> SumFrom(g, f, s)]
  <2>1. ASSUME NEW s \in SUBSET A, Cardinality(s) <= n + 1, s # {}
        PROVE  h[Rest(s)] = g[Rest(s)]
    <3>1. Rest(s) \in SUBSET A /\ Cardinality(Rest(s)) <= n
      BY <1>0, <2>1, TakenFrom, Smaller DEF Rest
    <3>. QED BY <1>2, <3>1
  <2>. QED BY <2>1 DEF SumFrom
<1>3. ASSUME NEW n \in Nat, n \in H
      PROVE  n + 1 \in H
  <2>1. PICK g : Upto(g, n)
    BY <1>3
  <2>2. Upto([s \in SUBSET A |-> SumFrom(g, f, s)], n + 1)
    BY <1>2, <2>1
  <2>. HIDE DEF Upto
  <2>. QED BY <2>2
<1>4. Cardinality(A) \in H
  <2>. HIDE DEF H
  <2>. QED BY <1>0, <1>1, <1>3, AllNumbers
<1>5. PICK g : Upto(g, Cardinality(A))
  BY <1>4
<1>6. \A s \in SUBSET A : g[s] = SumFrom(g, f, s)
  <2>1. \A s \in SUBSET A : Cardinality(s) <= Cardinality(A)
    BY FS_Subset
  <2>. QED BY <1>5, <2>1
<1>. DEFINE h == [s \in SUBSET A |-> SumFrom(g, f, s)]
<1>7. \A s \in SUBSET A : SumFrom(h, f, s) = SumFrom(g, f, s)
  BY <1>6, TakenFrom DEF SumFrom, Rest
<1>8. h = [s \in SUBSET A |-> SumFrom(h, f, s)]
  BY <1>7
<1>. QED BY <1>8 DEF FoldOf

\* Where two folds sum up the same, they are the same.
LEMMA FoldUnique ==
  ASSUME NEW A, IsFiniteSet(A), NEW B, NEW f, NEW k, NEW g, NEW h,
         FoldOf(g, f, A), FoldOf(h, k, B),
         NEW r \in SUBSET (A \cap B), \A x \in r : f[x] = k[x]
  PROVE  g[r] = h[r]
<1>. DEFINE H == {n \in Nat : \A s \in SUBSET r : Cardinality(s) = n => g[s] = h[s]}
<1>0. \A s \in SUBSET r : /\ IsFiniteSet(s) /\ Cardinality(s) \in Nat
                          /\ s \in SUBSET A /\ s \in SUBSET B
  BY FS_Subset, FS_CardinalityType
<1>1. \A s \in SUBSET r : g[s] = SumFrom(g, f, s) /\ h[s] = SumFrom(h, k, s)
  BY <1>0 DEF FoldOf
<1>2. 0 \in H
  <2>1. ASSUME NEW s \in SUBSET r, Cardinality(s) = 0
        PROVE  g[s] = h[s]
    <3>1. s = {}
      BY <1>0, <2>1, NoElements
    <3>. QED BY <1>1, <3>1 DEF SumFrom
  <2>. QED BY <2>1
<1>3. ASSUME NEW n \in Nat, n \in H
      PROVE  n + 1 \in H
  <2>1. ASSUME NEW s \in SUBSET r, Cardinality(s) = n + 1
        PROVE  g[s] = h[s]
    <3>1. s # {}
      BY <2>1, FS_EmptySet
    <3>2. Taken(s) \in s
      BY <3>1, TakenFrom
    <3>3. Rest(s) \in SUBSET r /\ Cardinality(Rest(s)) = n
      BY <1>0, <2>1, <3>2, Smaller DEF Rest
    <3>4. g[Rest(s)] = h[Rest(s)]
      BY <1>3, <3>3
    <3>. QED BY <1>1, <3>1, <3>2, <3>4 DEF SumFrom
  <2>. QED BY <2>1
<1>4. Cardinality(r) \in H
  <2>. HIDE DEF H
  <2>. QED BY <1>0, <1>2, <1>3, AllNumbers
<1>. QED BY <1>4

\* Every fold over a finite set computes the totals of its subsets.
LEMMA TotalIs ==
  ASSUME NEW A, IsFiniteSet(A), NEW f, NEW g, FoldOf(g, f, A), NEW s \in SUBSET A
  PROVE  g[s] = Total(f, s)
<1>1. IsFiniteSet(s)
  BY FS_Subset
<1>2. FoldOf(CHOOSE h : FoldOf(h, f, s), f, s)
  BY <1>1, FoldExists
<1>. QED BY <1>2, FoldUnique DEF Total

\* The recursion of a sum.
LEMMA TotalTaken ==
  ASSUME NEW A, IsFiniteSet(A), NEW f
  PROVE  Total(f, A) = IF A = {} THEN 0 ELSE f[Taken(A)] + Total(f, Rest(A))
<1>1. PICK g : FoldOf(g, f, A)
  BY FoldExists
<1>2. g[A] = SumFrom(g, f, A)
  BY <1>1 DEF FoldOf
<1>3. g[A] = Total(f, A) /\ g[Rest(A)] = Total(f, Rest(A))
  BY <1>1, TotalIs DEF Rest
<1>. QED BY <1>2, <1>3 DEF SumFrom

-----------------------------------------------------------------------------
\* What sums are.

\* The same summands have the same sum.
LEMMA TotalAgree ==
  ASSUME NEW A, IsFiniteSet(A), NEW f, NEW k, \A x \in A : f[x] = k[x]
  PROVE  Total(f, A) = Total(k, A)
<1>1. PICK g : FoldOf(g, f, A)
  BY FoldExists
<1>2. PICK h : FoldOf(h, k, A)
  BY FoldExists
<1>3. g[A] = h[A]
  BY <1>1, <1>2, FoldUnique
<1>. QED BY <1>1, <1>2, <1>3, TotalIs

\* A sum of numbers is a number, and of natural ones a natural one.
LEMMA TotalType ==
  ASSUME NEW A, IsFiniteSet(A), NEW f, NEW N \in {Nat, Int}, \A x \in A : f[x] \in N
  PROVE  Total(f, A) \in N
<1>. DEFINE H == {n \in Nat : \A s \in SUBSET A : Cardinality(s) = n => Total(f, s) \in N}
<1>0. \A s \in SUBSET A : IsFiniteSet(s) /\ Cardinality(s) \in Nat
  BY FS_Subset, FS_CardinalityType
<1>1. 0 \in H
  <2>1. ASSUME NEW s \in SUBSET A, Cardinality(s) = 0
        PROVE  Total(f, s) = 0
    BY <1>0, <2>1, NoElements, TotalTaken
  <2>. QED BY <2>1
<1>2. ASSUME NEW n \in Nat, n \in H
      PROVE  n + 1 \in H
  <2>1. ASSUME NEW s \in SUBSET A, Cardinality(s) = n + 1
        PROVE  Total(f, s) \in N
    <3>1. s # {}
      BY <2>1, FS_EmptySet
    <3>2. Taken(s) \in s
      BY <3>1, TakenFrom
    <3>3. Rest(s) \in SUBSET A /\ Cardinality(Rest(s)) = n
      BY <1>0, <2>1, <3>2, Smaller DEF Rest
    <3>4. Total(f, Rest(s)) \in N /\ f[Taken(s)] \in N
      BY <1>2, <3>2, <3>3
    <3>5. Total(f, s) = f[Taken(s)] + Total(f, Rest(s))
      BY <1>0, <3>1, TotalTaken
    <3>. QED BY <3>4, <3>5
  <2>. QED BY <2>1
<1>3. Cardinality(A) \in H
  <2>. HIDE DEF H
  <2>. QED BY <1>0, <1>1, <1>2, AllNumbers
<1>. QED BY <1>3

\* Any summand may be taken out first.
LEMMA TotalSplit ==
  ASSUME NEW A, IsFiniteSet(A), NEW f, \A x \in A : f[x] \in Int, NEW y \in A
  PROVE  Total(f, A) = f[y] + Total(f, A \ {y})
<1>. DEFINE H == {n \in Nat : \A s \in SUBSET A : Cardinality(s) = n =>
                     \A x \in s : Total(f, s) = f[x] + Total(f, s \ {x})}
<1>0. \A s \in SUBSET A : IsFiniteSet(s) /\ Cardinality(s) \in Nat
  BY FS_Subset, FS_CardinalityType
<1>1. 0 \in H
  BY <1>0, NoElements
<1>2. ASSUME NEW n \in Nat, n \in H
      PROVE  n + 1 \in H
  <2>1. ASSUME NEW s \in SUBSET A, Cardinality(s) = n + 1, NEW x \in s
        PROVE  Total(f, s) = f[x] + Total(f, s \ {x})
    <3>. DEFINE p == Taken(s)
                r == s \ {p}
    <3>1. p \in s
      BY TakenFrom
    <3>2. Total(f, s) = f[p] + Total(f, r)
      BY <1>0, TotalTaken DEF Rest
    <3>3. CASE x = p
      BY <3>2, <3>3
    <3>4. CASE x # p
      <4>1. r \in SUBSET A /\ Cardinality(r) = n /\ x \in r
        BY <1>0, <2>1, <3>1, <3>4, Smaller
      <4>2. s \ {x} \in SUBSET A /\ Cardinality(s \ {x}) = n /\ p \in s \ {x}
        BY <1>0, <2>1, <3>1, <3>4, Smaller
      <4>3. Total(f, r) = f[x] + Total(f, r \ {x})
        BY <1>2, <4>1
      <4>4. Total(f, s \ {x}) = f[p] + Total(f, (s \ {x}) \ {p})
        BY <1>2, <4>2
      <4>5. Total(f, (s \ {x}) \ {p}) = Total(f, r \ {x})
        <5>1. (s \ {x}) \ {p} = r \ {x}
          OBVIOUS
        <5>. QED BY <5>1
      <4>6. Total(f, r \ {x}) \in Int /\ f[x] \in Int /\ f[p] \in Int
        BY <1>0, <3>1, TotalType
      <4>. HIDE DEF H, p, r
      <4>. DEFINE rest == Total(f, r \ {x})
                  left == Total(f, s \ {x})
                  most == Total(f, r)
      <4>7. /\ Total(f, s) = f[p] + most /\ most = f[x] + rest /\ left = f[p] + rest
            /\ rest \in Int
        BY <3>2, <4>3, <4>4, <4>5, <4>6
      <4>. HIDE DEF rest, left, most
      <4>8. Total(f, s) = f[x] + left
        BY <4>6, <4>7
      <4>. QED BY <4>8 DEF left
    <3>. QED BY <3>3, <3>4
  <2>. QED BY <2>1
<1>3. Cardinality(A) \in H
  <2>. HIDE DEF H
  <2>. QED BY <1>0, <1>1, <1>2, AllNumbers
<1>. QED BY <1>3

\* When one summand changes, the sum changes by as much.
LEMMA TotalChange ==
  ASSUME NEW A, IsFiniteSet(A), NEW f, NEW k, NEW y \in A,
         \A x \in A : f[x] \in Int /\ k[x] \in Int,
         \A x \in A \ {y} : f[x] = k[x]
  PROVE  Total(k, A) = Total(f, A) + k[y] - f[y]
<1>1. /\ Total(f, A) = f[y] + Total(f, A \ {y})
      /\ Total(k, A) = k[y] + Total(k, A \ {y})
  BY TotalSplit
<1>2. IsFiniteSet(A \ {y})
  BY FS_Subset
<1>3. Total(f, A \ {y}) = Total(k, A \ {y}) /\ Total(f, A \ {y}) \in Int
  BY <1>2, TotalAgree, TotalType
<1>. QED BY <1>1, <1>3

\* Summands that are zero need not be summed up.
LEMMA TotalOver ==
  ASSUME NEW A, IsFiniteSet(A), NEW B \in SUBSET A, NEW f,
         \A x \in A : f[x] \in Int, \A x \in A \ B : f[x] = 0
  PROVE  Total(f, A) = Total(f, B)
<1>. DEFINE H == {n \in Nat : \A s \in SUBSET A : Cardinality(s) = n =>
                     Total(f, s) = Total(f, s \cap B)}
<1>0. \A s \in SUBSET A : IsFiniteSet(s) /\ Cardinality(s) \in Nat
  BY FS_Subset, FS_CardinalityType
<1>1. 0 \in H
  <2>1. ASSUME NEW s \in SUBSET A, Cardinality(s) = 0
        PROVE  s \cap B = s
    BY <1>0, <2>1, NoElements
  <2>. QED BY <2>1
<1>2. ASSUME NEW n \in Nat, n \in H
      PROVE  n + 1 \in H
  <2>1. ASSUME NEW s \in SUBSET A, Cardinality(s) = n + 1
        PROVE  Total(f, s) = Total(f, s \cap B)
    <3>1. PICK x : x \in s
      BY <2>1, FS_EmptySet
    <3>. DEFINE r == s \ {x}
    <3>2. r \in SUBSET A /\ Cardinality(r) = n
      BY <1>0, <2>1, <3>1, Smaller
    <3>3. Total(f, r) = Total(f, r \cap B)
      BY <1>2, <3>2
    <3>4. Total(f, s) = f[x] + Total(f, r)
      BY <1>0, <3>1, TotalSplit
    <3>5. CASE x \in B
      <4>1. IsFiniteSet(s \cap B) /\ x \in s \cap B /\ \A z \in s \cap B : f[z] \in Int
        BY <1>0, <3>1, <3>5
      <4>2. Total(f, s \cap B) = f[x] + Total(f, (s \cap B) \ {x})
        BY <4>1, TotalSplit
      <4>3. Total(f, (s \cap B) \ {x}) = Total(f, r \cap B)
        <5>1. (s \cap B) \ {x} = r \cap B
          OBVIOUS
        <5>. QED BY <5>1
      <4>. HIDE DEF r
      <4>. QED BY <3>3, <3>4, <4>2, <4>3
    <3>6. CASE x \notin B
      <4>1. Total(f, s \cap B) = Total(f, r \cap B)
        <5>1. s \cap B = r \cap B
          BY <3>6
        <5>. QED BY <5>1
      <4>2. Total(f, r) \in Int /\ f[x] = 0
        BY <1>0, <3>1, <3>2, <3>6, TotalType
      <4>. HIDE DEF r
      <4>. QED BY <3>3, <3>4, <4>1, <4>2
    <3>. QED BY <3>5, <3>6
  <2>. QED BY <2>1
<1>3. Cardinality(A) \in H
  <2>. HIDE DEF H
  <2>. QED BY <1>0, <1>1, <1>2, AllNumbers
<1>4. A \cap B = B
  OBVIOUS
<1>. QED BY <1>3, <1>4

\* A sum of zeros is zero.
LEMMA TotalZero ==
  ASSUME NEW A, IsFiniteSet(A), NEW f, \A x \in A : f[x] = 0
  PROVE  Total(f, A) = 0
<1>1. IsFiniteSet({}) /\ {} \in SUBSET A
  BY FS_EmptySet
<1>2. Total(f, {}) = 0
  BY <1>1, TotalTaken
<1>3. Total(f, A) = Total(f, {})
  BY <1>1, TotalOver
<1>. QED BY <1>2, <1>3

\* Smaller summands have a smaller sum.
LEMMA TotalAtMost ==
  ASSUME NEW A, IsFiniteSet(A), NEW f, NEW k,
         \A x \in A : f[x] \in Int /\ k[x] \in Int /\ f[x] <= k[x]
  PROVE  Total(f, A) <= Total(k, A)
<1>. DEFINE H == {n \in Nat : \A s \in SUBSET A : Cardinality(s) = n =>
                     Total(f, s) <= Total(k, s)}
<1>0. \A s \in SUBSET A : IsFiniteSet(s) /\ Cardinality(s) \in Nat
  BY FS_Subset, FS_CardinalityType
<1>1. 0 \in H
  <2>1. ASSUME NEW s \in SUBSET A, Cardinality(s) = 0
        PROVE  Total(f, s) = 0 /\ Total(k, s) = 0
    BY <1>0, <2>1, NoElements, TotalTaken
  <2>. QED BY <2>1
<1>2. ASSUME NEW n \in Nat, n \in H
      PROVE  n + 1 \in H
  <2>1. ASSUME NEW s \in SUBSET A, Cardinality(s) = n + 1
        PROVE  Total(f, s) <= Total(k, s)
    <3>1. PICK y : y \in s
      BY <2>1, FS_EmptySet
    <3>. DEFINE r == s \ {y}
    <3>2. r \in SUBSET A /\ Cardinality(r) = n
      BY <1>0, <2>1, <3>1, Smaller
    <3>3. Total(f, r) <= Total(k, r)
      BY <1>2, <3>2
    <3>4. Total(f, s) = f[y] + Total(f, r) /\ Total(k, s) = k[y] + Total(k, r)
      BY <1>0, <3>1, TotalSplit
    <3>5. Total(f, r) \in Int /\ Total(k, r) \in Int
      BY <1>0, <3>2, TotalType
    <3>. HIDE DEF r
    <3>. QED BY <3>1, <3>3, <3>4, <3>5
  <2>. QED BY <2>1
<1>3. Cardinality(A) \in H
  <2>. HIDE DEF H
  <2>. QED BY <1>0, <1>1, <1>2, AllNumbers
<1>. QED BY <1>3

-----------------------------------------------------------------------------
\* Folds in the order of the indices.

\* A fold in the order of the indices has a solution.
LastOf(s) == CHOOSE x \in s : \A y \in s : x >= y

\* The last of some positions is one of them.
LEMMA LastIn ==
  ASSUME NEW m \in Nat, NEW s \in SUBSET (1..m), s # {}
  PROVE  LastOf(s) \in s /\ Max(s) = LastOf(s)
<1>0. s \in SUBSET (0..m) /\ \A x \in s : x \in Nat
  OBVIOUS
<1>1. \E w \in s : \A v \in s : v <= w
  BY <1>0, LargestNumber
<1>2. \E w \in s : \A v \in s : w >= v
  BY <1>0, <1>1
<1>. QED BY <1>2 DEF LastOf, Max

\* A fold over positions 1..m, from the last of them down.
FoldStep(g, F, b, s) == IF s = {} THEN b ELSE F[LastOf(s)][g[s \ {LastOf(s)}]]
FoldsTo(g, F, b, m) == g = [s \in SUBSET (1..m) |-> FoldStep(g, F, b, s)]

\* There is such a fold for every list of steps.
LEMMA FoldsExist ==
  ASSUME NEW m \in Nat, NEW X, NEW b \in X, NEW F,
         \A i \in 1..m : \A x \in X : F[i][x] \in X
  PROVE  \E g \in [SUBSET (1..m) -> X] : FoldsTo(g, F, b, m)
<1>. DEFINE A == 1..m
            Upto(g, n) == \A s \in SUBSET A : Cardinality(s) <= n =>
                            g[s] \in X /\ g[s] = FoldStep(g, F, b, s)
            H == {n \in Nat : \E g : Upto(g, n)}
<1>0. IsFiniteSet(A) /\ \A s \in SUBSET A : IsFiniteSet(s) /\ Cardinality(s) \in Nat
  <2>1. IsFiniteSet(A)
    BY FS_Interval
  <2>. HIDE DEF A
  <2>. QED BY <2>1, FS_Subset, FS_CardinalityType
<1>0a. \A s \in SUBSET A : s # {} => LastOf(s) \in s
  BY LastIn
<1>. HIDE DEF A
<1>1. 0 \in H
  <2>. DEFINE g == [s \in SUBSET A |-> b]
  <2>1. \A s \in SUBSET A : Cardinality(s) <= 0 => s = {}
    BY <1>0, NoElements
  <2>2. Upto(g, 0)
    BY <2>1 DEF FoldStep
  <2>. QED BY <2>2
<1>2. ASSUME NEW g, NEW n \in Nat, Upto(g, n)
      PROVE  Upto([s \in SUBSET A |-> FoldStep(g, F, b, s)], n + 1)
  <2>. DEFINE h == [s \in SUBSET A |-> FoldStep(g, F, b, s)]
  <2>1. ASSUME NEW s \in SUBSET A, Cardinality(s) <= n + 1, s # {}
        PROVE  LET r == s \ {LastOf(s)} IN h[r] = g[r] /\ g[r] \in X
    <3>1. LET r == s \ {LastOf(s)} IN r \in SUBSET A /\ Cardinality(r) <= n
      BY <1>0, <1>0a, <2>1, Smaller
    <3>. QED BY <1>2, <3>1
  <2>2. ASSUME NEW s \in SUBSET A, Cardinality(s) <= n + 1
        PROVE  h[s] \in X /\ h[s] = FoldStep(h, F, b, s)
    <3>1. CASE s = {}
      BY <3>1 DEF FoldStep
    <3>2. CASE s # {}
      <4>. DEFINE r == s \ {LastOf(s)}
      <4>1. h[r] = g[r] /\ g[r] \in X
        BY <2>1, <2>2, <3>2
      <4>2. LastOf(s) \in 1..m
        BY <1>0a, <3>2 DEF A
      <4>3. h[s] = F[LastOf(s)][g[r]]
        BY <3>2 DEF FoldStep
      <4>4. FoldStep(h, F, b, s) = F[LastOf(s)][h[r]]
        BY <3>2 DEF FoldStep
      <4>. HIDE DEF h, r
      <4>. QED BY <4>1, <4>2, <4>3, <4>4
    <3>. QED BY <3>1, <3>2
  <2>. QED BY <2>2
<1>3. ASSUME NEW n \in Nat, n \in H
      PROVE  n + 1 \in H
  <2>1. PICK g : Upto(g, n)
    BY <1>3
  <2>2. Upto([s \in SUBSET A |-> FoldStep(g, F, b, s)], n + 1)
    BY <1>2, <2>1
  <2>. HIDE DEF Upto
  <2>. QED BY <2>2
<1>4. Cardinality(A) \in H
  <2>. HIDE DEF H
  <2>. QED BY <1>0, <1>1, <1>3, AllNumbers
<1>5. PICK g : Upto(g, Cardinality(A))
  BY <1>4
<1>6. \A s \in SUBSET A : g[s] \in X /\ g[s] = FoldStep(g, F, b, s)
  <2>1. \A s \in SUBSET A : Cardinality(s) <= Cardinality(A)
    BY <1>0, FS_Subset
  <2>. QED BY <1>5, <2>1
<1>. DEFINE h == [s \in SUBSET A |-> FoldStep(g, F, b, s)]
<1>7. \A s \in SUBSET A : h[s] = g[s] /\ FoldStep(h, F, b, s) = FoldStep(g, F, b, s)
  BY <1>6, <1>0a DEF FoldStep
<1>8. h = [s \in SUBSET A |-> FoldStep(h, F, b, s)] /\ h \in [SUBSET A -> X]
  BY <1>6, <1>7
<1>. QED BY <1>8 DEF A, FoldsTo

\* What holds before the first index, and after each one when it holds before
\* it, holds of the fold: P[s] are the results allowed for the indices s.
LEMMA FoldHolds ==
  ASSUME NEW m \in Nat, NEW g, NEW P, g[{}] \in P[{}],
         \A s \in SUBSET (1..m) : s # {} /\ g[s \ {LastOf(s)}] \in P[s \ {LastOf(s)}] => g[s] \in P[s]
  PROVE  g[1..m] \in P[1..m]
<1>. DEFINE A == 1..m
            H == {n \in Nat : \A s \in SUBSET A : Cardinality(s) = n => g[s] \in P[s]}
<1>0. IsFiniteSet(A) /\ \A s \in SUBSET A : IsFiniteSet(s) /\ Cardinality(s) \in Nat
  <2>1. IsFiniteSet(A)
    BY FS_Interval
  <2>. HIDE DEF A
  <2>. QED BY <2>1, FS_Subset, FS_CardinalityType
<1>0a. \A s \in SUBSET A : s # {} => LastOf(s) \in s
  BY LastIn
<1>0b. \A s \in SUBSET A : s # {} /\ g[s \ {LastOf(s)}] \in P[s \ {LastOf(s)}] => g[s] \in P[s]
  OBVIOUS
<1>. HIDE DEF A
<1>1. 0 \in H
  <2>1. \A s \in SUBSET A : Cardinality(s) = 0 => s = {}
    BY <1>0, NoElements
  <2>. QED BY <2>1
<1>2. ASSUME NEW n \in Nat, n \in H
      PROVE  n + 1 \in H
  <2>1. ASSUME NEW s \in SUBSET A, Cardinality(s) = n + 1
        PROVE  g[s] \in P[s]
    <3>1. s # {}
      BY <1>0, <2>1, NoElements
    <3>2. LET r == s \ {LastOf(s)} IN r \in SUBSET A /\ Cardinality(r) = n
      BY <1>0, <1>0a, <2>1, <3>1, Smaller
    <3>. QED BY <1>0b, <1>2, <3>1, <3>2
  <2>. QED BY <2>1
<1>3. Cardinality(A) \in H
  <2>. HIDE DEF H
  <2>. QED BY <1>0, <1>1, <1>2, AllNumbers
<1>. QED BY <1>0, <1>3 DEF A
=============================================================================
