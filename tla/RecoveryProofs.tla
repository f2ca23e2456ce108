---------------------------- MODULE RecoveryProofs ----------------------------
(***************************************************************************)
(* A recovery publishes the mutable rows the scheduler itself had written: *)
(* after every step of every handler, folding the evidence over the seed   *)
(* gives the task, lease, worktree, budget and approval rows the handler   *)
(* left, for every graph and vocabulary and however calls and crashes      *)
(* interleave.                                                             *)
(***************************************************************************)
EXTENDS SchedulerProofs, SchedulerRecovery, SumProofs, SequenceTheorems

-----------------------------------------------------------------------------
\* Tables that grow by rows.

Listed(s) == \E S : s \in Seq(S)

\* Appending a row adds it at the end and moves no other.
LEMMA AppendIs ==
  ASSUME NEW s, Listed(s), NEW x
  PROVE  /\ Listed(Append(s, x)) /\ Len(s) \in Nat /\ Len(Append(s, x)) = Len(s) + 1
         /\ DOMAIN s = 1..Len(s) /\ DOMAIN Append(s, x) = 1..(Len(s) + 1)
         /\ \A i \in 1..Len(s) : Append(s, x)[i] = s[i]
         /\ Append(s, x)[Len(s) + 1] = x
         /\ ToSet(Append(s, x)) = ToSet(s) \cup {x}
         /\ Last(Append(s, x)) = x
<1>1. PICK S : s \in Seq(S)
  BY DEF Listed
<1>. DEFINE T == S \cup {x}
<1>2. s \in Seq(T) /\ x \in T
  BY <1>1
<1>. HIDE DEF T
<1>3. /\ Append(s, x) \in Seq(T) /\ Len(s) \in Nat /\ Len(Append(s, x)) = Len(s) + 1
      /\ DOMAIN s = 1..Len(s) /\ DOMAIN Append(s, x) = 1..(Len(s) + 1)
      /\ \A i \in 1..Len(s) : Append(s, x)[i] = s[i]
      /\ Append(s, x)[Len(s) + 1] = x
  BY <1>2
<1>4. ToSet(Append(s, x)) = ToSet(s) \cup {x}
  <2>1. \A i \in 1..(Len(s) + 1) : i \in 1..Len(s) \/ i = Len(s) + 1
    BY <1>3
  <2>2. \A i \in 1..Len(s) : i \in 1..(Len(s) + 1)
    BY <1>3
  <2>3. Len(s) + 1 \in 1..(Len(s) + 1)
    BY <1>3
  <2>. QED BY <1>3, <2>1, <2>2, <2>3 DEF ToSet
<1>. QED BY <1>3, <1>4 DEF Listed, Last

\* So does concatenating the rows of one event, of which there is at most one.
LEMMA RowsAdded ==
  ASSUME NEW s, Listed(s)
  PROVE  s \o <<>> = s /\ \A x : s \o <<x>> = Append(s, x)
<1>1. PICK S : s \in Seq(S)
  BY DEF Listed
<1>2. ASSUME NEW x
      PROVE  s \o <<x>> = Append(s, x)
  <2>. DEFINE T == S \cup {x}
  <2>1. s \in Seq(T) /\ x \in T
    BY <1>1
  <2>. HIDE DEF T
  <2>. QED BY <2>1, AppendIsConcat
<1>. QED BY <1>1, <1>2

\* A row whose number is greater than all others' is the latest.
LEMMA LatestIs ==
  ASSUME NEW R, NEW x, x.n \in Nat, \A r \in R : r.n \in Nat /\ r.n < x.n
  PROVE  Latest(R \cup {x}) = x
<1>1. \A y \in R \cup {x} : (\A r \in R \cup {x} : r.n <= y.n) <=> y = x
  OBVIOUS
<1>. QED BY <1>1 DEF Latest

-----------------------------------------------------------------------------
\* Folding the events.

\* A set that the first m steps do not leave, and a fold over these steps.
StaysIn(X, F, m) == \A i \in 1..m : \A x \in X : F[i][x] \in X
Folded(h, F, b, X, m) ==
  /\ h[{}] = b
  /\ \A s \in SUBSET (1..m) : s # {} /\ h[s \ {LastOf(s)}] \in X =>
       h[s] = F[LastOf(s)][h[s \ {LastOf(s)}]]

\* Folds of the same steps from the same start agree, and stay in the set the
\* steps stay in.
LEMMA FoldsAgree ==
  ASSUME NEW m \in Nat, NEW X, NEW b \in X, NEW F, StaysIn(X, F, m),
         NEW h, Folded(h, F, b, X, m), NEW k, Folded(k, F, b, X, m)
  PROVE  h[1..m] = k[1..m] /\ h[1..m] \in X
<1>. DEFINE P == [s \in SUBSET (1..m) |-> {k[s]} \cap X]
<1>1. h[{}] \in P[{}]
  BY DEF Folded
<1>2. ASSUME NEW s \in SUBSET (1..m), s # {}, h[s \ {LastOf(s)}] \in P[s \ {LastOf(s)}]
      PROVE  h[s] \in P[s]
  <2>1. LastOf(s) \in 1..m
    BY <1>2, LastIn
  <2>2. h[s \ {LastOf(s)}] = k[s \ {LastOf(s)}] /\ h[s \ {LastOf(s)}] \in X
    BY <1>2
  <2>3. h[s] = k[s] /\ h[s] \in X
    BY <1>2, <2>1, <2>2 DEF Folded, StaysIn
  <2>. QED BY <2>3
<1>3. h[1..m] \in P[1..m]
  <2>. HIDE DEF P
  <2>. QED BY <1>1, <1>2, FoldHolds
<1>. QED BY <1>3

\* The last of the first m + 1 positions.
LEMMA LastOfAll ==
  ASSUME NEW m \in Nat
  PROVE  LastOf(1..(m + 1)) = m + 1 /\ (1..(m + 1)) \ {m + 1} = 1..m
<1>1. \A x \in 1..(m + 1) : (\A y \in 1..(m + 1) : x >= y) <=> x = m + 1
  OBVIOUS
<1>. QED BY <1>1 DEF LastOf

\* One event more is one step more.
LEMMA FoldGrows ==
  ASSUME NEW m \in Nat, NEW X, NEW b \in X, NEW F, StaysIn(X, F, m + 1),
         NEW h, Folded(h, F, b, X, m), NEW k, Folded(k, F, b, X, m + 1)
  PROVE  k[1..(m + 1)] = F[m + 1][h[1..m]] /\ h[1..m] \in X
<1>1. 1..m \subseteq 1..(m + 1) /\ SUBSET (1..m) \subseteq SUBSET (1..(m + 1))
  OBVIOUS
<1>2. StaysIn(X, F, m) /\ Folded(k, F, b, X, m)
  BY <1>1 DEF StaysIn, Folded
<1>3. h[1..m] = k[1..m] /\ h[1..m] \in X
  BY <1>2, FoldsAgree
<1>. DEFINE a == 1..(m + 1)
<1>4a. LastOf(a) = m + 1 /\ a \ {m + 1} = 1..m
  BY LastOfAll
<1>4. LastOf(a) = m + 1 /\ a \ {m + 1} = 1..m /\ a # {} /\ a \in SUBSET (1..(m + 1))
  <2>1. m + 1 \in a
    OBVIOUS
  <2>. QED BY <1>4a, <2>1
<1>5. k[a \ {LastOf(a)}] \in X => k[a] = F[LastOf(a)][k[a \ {LastOf(a)}]]
  BY <1>4 DEF Folded
<1>. QED BY <1>3, <1>4, <1>5

\* What one event does to the task projections, and to the capabilities known.
TaskStep(tasks, event) ==
  IF event.after = Absent THEN tasks ELSE [tasks EXCEPT ![event.task] = event.after]
CapStep(caps, event) ==
  IF event.cause # "capability-observed" THEN caps
  ELSE [caps EXCEPT ![event.msg.sender] = event.msg.say.caps]

Seed == [t \in Tasks |-> InitialProjection(t)]
NoCaps == [h \in Hosts |-> {}]

\* The projections are a fold over the events.
LEMMA TasksFold ==
  ASSUME NEW e, NEW m \in Nat, DOMAIN e.events = 1..m,
         NEW X, Seed \in X, \A i \in 1..m : \A x \in X : TaskStep(x, e.events[i]) \in X
  PROVE  \E h : /\ h[{}] = Seed
                /\ \A s \in SUBSET (1..m) : s # {} =>
                     h[s] = TaskStep(h[s \ {LastOf(s)}], e.events[LastOf(s)])
                /\ RebuiltTasks(e) = h[1..m]
<1>. DEFINE o == e.events
            b == Seed
            Op(x, i) == TaskStep(x, o[i])
            F == [i \in 1..m |-> [x \in X |-> Op(x, i)]]
            Q(h) == h = [s \in SUBSET (DOMAIN o) |->
                           IF s = {} THEN b ELSE LET i == Max(s) IN Op(h[s \ {i}], i)]
            h == CHOOSE h : Q(h)
<1>1. RebuiltTasks(e) = h[DOMAIN o]
  BY DEF RebuiltTasks, FoldLeft, MapThenFoldSet, Seed, TaskStep
<1>2. DOMAIN o = 1..m /\ b \in X /\ \A i \in 1..m : \A x \in X : Op(x, i) \in X
  OBVIOUS
<1>. HIDE DEF o, b, Op
<1>3. \E g : Q(g)
  <2>1. \A i \in 1..m : \A x \in X : F[i][x] = Op(x, i) /\ F[i][x] \in X
    BY <1>2
  <2>. HIDE DEF F
  <2>3. PICK g \in [SUBSET (1..m) -> X] : FoldsTo(g, F, b, m)
    BY <1>2, <2>1, FoldsExist
  <2>3a. g \in [SUBSET (1..m) -> X] /\ g = [s \in SUBSET (1..m) |-> FoldStep(g, F, b, s)]
    BY <2>3 DEF FoldsTo
  <2>4. ASSUME NEW s \in SUBSET (1..m)
        PROVE  FoldStep(g, F, b, s) = (IF s = {} THEN b ELSE LET i == Max(s) IN Op(g[s \ {i}], i))
    <3>1. CASE s # {}
      <4>1. LastOf(s) \in 1..m /\ Max(s) = LastOf(s)
        BY <3>1, LastIn
      <4>2. g[s \ {LastOf(s)}] \in X
        BY <2>3a
      <4>. QED BY <2>1, <3>1, <4>1, <4>2 DEF FoldStep
    <3>. QED BY <3>1 DEF FoldStep
  <2>5. [s \in SUBSET (1..m) |-> FoldStep(g, F, b, s)]
      = [s \in SUBSET (1..m) |-> IF s = {} THEN b ELSE LET i == Max(s) IN Op(g[s \ {i}], i)]
    BY <2>4
  <2>6. Q(g)
    BY <1>2, <2>3a, <2>5
  <2>. HIDE DEF Q
  <2>. QED BY <2>6
<1>4. Q(h)
  <2>. HIDE DEF Q
  <2>. QED BY <1>3
<1>. HIDE DEF h
<1>5. h[{}] = b
  BY <1>2, <1>4
<1>6. ASSUME NEW s \in SUBSET (1..m), s # {}
      PROVE  h[s] = Op(h[s \ {LastOf(s)}], LastOf(s))
  <2>1. Max(s) = LastOf(s)
    BY <1>6, LastIn
  <2>. QED BY <1>2, <1>4, <1>6, <2>1
<1>. QED BY <1>1, <1>2, <1>5, <1>6 DEF Op, o, b

\* So are the capabilities observed.
LEMMA CapsFold ==
  ASSUME NEW e, NEW m \in Nat, DOMAIN e.events = 1..m,
         NEW X, NoCaps \in X, \A i \in 1..m : \A x \in X : CapStep(x, e.events[i]) \in X
  PROVE  \E h : /\ h[{}] = NoCaps
                /\ \A s \in SUBSET (1..m) : s # {} =>
                     h[s] = CapStep(h[s \ {LastOf(s)}], e.events[LastOf(s)])
                /\ RebuiltCaps(e) = h[1..m]
<1>. DEFINE o == e.events
            b == NoCaps
            Op(x, i) == CapStep(x, o[i])
            F == [i \in 1..m |-> [x \in X |-> Op(x, i)]]
            Q(h) == h = [s \in SUBSET (DOMAIN o) |->
                           IF s = {} THEN b ELSE LET i == Max(s) IN Op(h[s \ {i}], i)]
            h == CHOOSE h : Q(h)
<1>1. RebuiltCaps(e) = h[DOMAIN o]
  BY DEF RebuiltCaps, FoldLeft, MapThenFoldSet, NoCaps, CapStep
<1>2. DOMAIN o = 1..m /\ b \in X /\ \A i \in 1..m : \A x \in X : Op(x, i) \in X
  OBVIOUS
<1>. HIDE DEF o, b, Op
<1>3. \E g : Q(g)
  <2>1. \A i \in 1..m : \A x \in X : F[i][x] = Op(x, i) /\ F[i][x] \in X
    BY <1>2
  <2>. HIDE DEF F
  <2>3. PICK g \in [SUBSET (1..m) -> X] : FoldsTo(g, F, b, m)
    BY <1>2, <2>1, FoldsExist
  <2>3a. g \in [SUBSET (1..m) -> X] /\ g = [s \in SUBSET (1..m) |-> FoldStep(g, F, b, s)]
    BY <2>3 DEF FoldsTo
  <2>4. ASSUME NEW s \in SUBSET (1..m)
        PROVE  FoldStep(g, F, b, s) = (IF s = {} THEN b ELSE LET i == Max(s) IN Op(g[s \ {i}], i))
    <3>1. CASE s # {}
      <4>1. LastOf(s) \in 1..m /\ Max(s) = LastOf(s)
        BY <3>1, LastIn
      <4>2. g[s \ {LastOf(s)}] \in X
        BY <2>3a
      <4>. QED BY <2>1, <3>1, <4>1, <4>2 DEF FoldStep
    <3>. QED BY <3>1 DEF FoldStep
  <2>5. [s \in SUBSET (1..m) |-> FoldStep(g, F, b, s)]
      = [s \in SUBSET (1..m) |-> IF s = {} THEN b ELSE LET i == Max(s) IN Op(g[s \ {i}], i)]
    BY <2>4
  <2>6. Q(g)
    BY <1>2, <2>3a, <2>5
  <2>. HIDE DEF Q
  <2>. QED BY <2>6
<1>4. Q(h)
  <2>. HIDE DEF Q
  <2>. QED BY <1>3
<1>. HIDE DEF h
<1>5. h[{}] = b
  BY <1>2, <1>4
<1>6. ASSUME NEW s \in SUBSET (1..m), s # {}
      PROVE  h[s] = Op(h[s \ {LastOf(s)}], LastOf(s))
  <2>1. Max(s) = LastOf(s)
    BY <1>6, LastIn
  <2>. QED BY <1>2, <1>4, <1>6, <2>1
<1>. QED BY <1>1, <1>2, <1>5, <1>6 DEF Op, o, b

\* One more event moves one projection more.
LEMMA TasksGrow ==
  ASSUME NEW e, Listed(e.events), NEW f, NEW v, f.events = Append(e.events, v)
  PROVE  RebuiltTasks(f) = TaskStep(RebuiltTasks(e), v)
<1>. DEFINE m == Len(e.events)
            V == {InitialProjection(t) : t \in Tasks} \cup {f.events[i].after : i \in 1..(m + 1)}
            X == [Tasks -> V]
            F == [i \in 1..(m + 1) |-> [x \in X |-> TaskStep(x, f.events[i])]]
<1>1. /\ m \in Nat /\ DOMAIN e.events = 1..m /\ DOMAIN f.events = 1..(m + 1)
      /\ \A i \in 1..m : f.events[i] = e.events[i] /\ i \in 1..(m + 1)
      /\ f.events[m + 1] = v /\ m + 1 \in 1..(m + 1) /\ m + 1 \in Nat
  BY AppendIs
<1>. HIDE DEF m
<1>2. Seed \in X /\ \A i \in 1..(m + 1) : \A x \in X : TaskStep(x, f.events[i]) \in X
  BY DEF Seed, TaskStep
<1>. HIDE DEF X
<1>3. \A i \in 1..(m + 1) : \A x \in X : F[i][x] = TaskStep(x, f.events[i])
  OBVIOUS
<1>4. StaysIn(X, F, m + 1)
  BY <1>2, <1>3 DEF StaysIn
<1>. HIDE DEF F
<1>5. PICK h : /\ h[{}] = Seed
               /\ \A s \in SUBSET (1..m) : s # {} =>
                    h[s] = TaskStep(h[s \ {LastOf(s)}], e.events[LastOf(s)])
               /\ RebuiltTasks(e) = h[1..m]
  <2>1. \A i \in 1..m : \A x \in X : TaskStep(x, e.events[i]) \in X
    BY <1>1, <1>2
  <2>. QED BY <1>1, <1>2, <2>1, TasksFold
<1>6. PICK k : /\ k[{}] = Seed
               /\ \A s \in SUBSET (1..(m + 1)) : s # {} =>
                    k[s] = TaskStep(k[s \ {LastOf(s)}], f.events[LastOf(s)])
               /\ RebuiltTasks(f) = k[1..(m + 1)]
  BY <1>1, <1>2, TasksFold
<1>7. Folded(h, F, Seed, X, m)
  <2>1. \A s \in SUBSET (1..m) : s # {} => LastOf(s) \in 1..m
    BY <1>1, LastIn
  <2>2. ASSUME NEW s \in SUBSET (1..m), s # {}, h[s \ {LastOf(s)}] \in X
        PROVE  h[s] = F[LastOf(s)][h[s \ {LastOf(s)}]]
    <3>1. h[s] = TaskStep(h[s \ {LastOf(s)}], e.events[LastOf(s)])
      BY <1>5, <2>2
    <3>2. e.events[LastOf(s)] = f.events[LastOf(s)] /\ LastOf(s) \in 1..(m + 1)
      BY <1>1, <2>1, <2>2
    <3>. QED BY <1>3, <2>2, <3>1, <3>2
  <2>. QED BY <1>5, <2>2 DEF Folded
<1>8. Folded(k, F, Seed, X, m + 1)
  <2>1. \A s \in SUBSET (1..(m + 1)) : s # {} => LastOf(s) \in 1..(m + 1)
    BY <1>1, LastIn
  <2>. QED BY <1>1, <1>3, <1>6, <2>1 DEF Folded
<1>9. k[1..(m + 1)] = F[m + 1][h[1..m]] /\ h[1..m] \in X
  BY <1>1, <1>2, <1>4, <1>7, <1>8, FoldGrows
<1>. QED BY <1>1, <1>3, <1>5, <1>6, <1>9

\* And teaches the capabilities of one host more.
LEMMA CapsGrow ==
  ASSUME NEW e, Listed(e.events), NEW f, NEW v, f.events = Append(e.events, v)
  PROVE  RebuiltCaps(f) = CapStep(RebuiltCaps(e), v)
<1>. DEFINE m == Len(e.events)
            V == {{}} \cup {f.events[i].msg.say.caps : i \in 1..(m + 1)}
            X == [Hosts -> V]
            F == [i \in 1..(m + 1) |-> [x \in X |-> CapStep(x, f.events[i])]]
<1>1. /\ m \in Nat /\ DOMAIN e.events = 1..m /\ DOMAIN f.events = 1..(m + 1)
      /\ \A i \in 1..m : f.events[i] = e.events[i] /\ i \in 1..(m + 1)
      /\ f.events[m + 1] = v /\ m + 1 \in 1..(m + 1) /\ m + 1 \in Nat
  BY AppendIs
<1>. HIDE DEF m
<1>2. NoCaps \in X /\ \A i \in 1..(m + 1) : \A x \in X : CapStep(x, f.events[i]) \in X
  BY DEF NoCaps, CapStep
<1>. HIDE DEF X
<1>3. \A i \in 1..(m + 1) : \A x \in X : F[i][x] = CapStep(x, f.events[i])
  OBVIOUS
<1>4. StaysIn(X, F, m + 1)
  BY <1>2, <1>3 DEF StaysIn
<1>. HIDE DEF F
<1>5. PICK h : /\ h[{}] = NoCaps
               /\ \A s \in SUBSET (1..m) : s # {} =>
                    h[s] = CapStep(h[s \ {LastOf(s)}], e.events[LastOf(s)])
               /\ RebuiltCaps(e) = h[1..m]
  <2>1. \A i \in 1..m : \A x \in X : CapStep(x, e.events[i]) \in X
    BY <1>1, <1>2
  <2>. QED BY <1>1, <1>2, <2>1, CapsFold
<1>6. PICK k : /\ k[{}] = NoCaps
               /\ \A s \in SUBSET (1..(m + 1)) : s # {} =>
                    k[s] = CapStep(k[s \ {LastOf(s)}], f.events[LastOf(s)])
               /\ RebuiltCaps(f) = k[1..(m + 1)]
  BY <1>1, <1>2, CapsFold
<1>7. Folded(h, F, NoCaps, X, m)
  <2>1. \A s \in SUBSET (1..m) : s # {} => LastOf(s) \in 1..m
    BY <1>1, LastIn
  <2>2. ASSUME NEW s \in SUBSET (1..m), s # {}, h[s \ {LastOf(s)}] \in X
        PROVE  h[s] = F[LastOf(s)][h[s \ {LastOf(s)}]]
    <3>1. h[s] = CapStep(h[s \ {LastOf(s)}], e.events[LastOf(s)])
      BY <1>5, <2>2
    <3>2. e.events[LastOf(s)] = f.events[LastOf(s)] /\ LastOf(s) \in 1..(m + 1)
      BY <1>1, <2>1, <2>2
    <3>. QED BY <1>3, <2>2, <3>1, <3>2
  <2>. QED BY <1>5, <2>2 DEF Folded
<1>8. Folded(k, F, NoCaps, X, m + 1)
  <2>1. \A s \in SUBSET (1..(m + 1)) : s # {} => LastOf(s) \in 1..(m + 1)
    BY <1>1, LastIn
  <2>. QED BY <1>1, <1>3, <1>6, <2>1 DEF Folded
<1>9. k[1..(m + 1)] = F[m + 1][h[1..m]] /\ h[1..m] \in X
  BY <1>1, <1>2, <1>4, <1>7, <1>8, FoldGrows
<1>. QED BY <1>1, <1>3, <1>5, <1>6, <1>9

-----------------------------------------------------------------------------
\* Evidence and the store it tells of.

\* The rows of a table with n events, and what one event adds to it.
Numbered(s, n) == Listed(s) /\ \A row \in ToSet(s) : row.n \in 1..n
Alone(rows, x) == rows = <<x>>
Gains(s2, s, x) == ToSet(s2) = ToSet(s) \cup {x}
OneRow(rows, n) == rows = <<>> \/ \E x : Alone(rows, x) /\ x.n = n

\* No row of a table is numbered beyond the events.
Shape(e) ==
  /\ e = [events |-> e.events, mail |-> e.mail, leases |-> e.leases, trees |-> e.trees,
          ledgers |-> e.ledgers]
  /\ Listed(e.events) /\ Listed(e.mail) /\ Listed(e.ledgers)
  /\ Numbered(e.leases, Len(e.events)) /\ Numbered(e.trees, Len(e.events))

RebuiltLeases(e) == [t \in Tasks |-> RebuiltLease(e, t)]
RebuiltTrees(e) == [t \in Tasks |-> RebuiltTree(e, t)]

Tells(e, d) == Shape(e) /\ Rebuilt(e) = RowsOf(d)

\* What a row of a store may be between two events of one handler.
Projections ==
  [state : States \cup {"verification"}, phase : Phases, outcome : Outcomes,
   attempt : Nat, fence : Nat, blockers : SUBSET Reasons]
Rows(d) ==
  /\ d.task \in [Tasks -> Projections]
  /\ d.lease \in [Tasks -> LeaseRows \cup {NoLease}]
  /\ d.tree \in [Tasks -> {"none", "requested", "observed"}]
  /\ \A t \in Tasks : Held(d, t) => d.lease[t].id.task = t

\* The event says what was done to the rows from store d to store d2.
Follows(d, d2, event) ==
  /\ \A u \in Tasks \ {event.task} : /\ d2.task[u] = d.task[u] /\ d2.lease[u] = d.lease[u]
                                     /\ d2.tree[u] = d.tree[u]
  /\ IF event.task = NoLease THEN event.after = NoLease
     ELSE event.task \in Tasks /\ event.after = d2.task[event.task]
  /\ event.task # NoLease /\ d2.tree[event.task] # "none" =>
       \/ d2.tree[event.task] = d.tree[event.task] /\ event.cause # "worktree-observed"
       \/ event.lease.fence \in Nat
  /\ d2.consumed = IF event.cause = "approval-consumed" THEN d.consumed \cup {event.msg}
                                                       ELSE d.consumed
  /\ d2.caps = CapStep(d.caps, event)

\* The tables are rebuilt one by one.
LEMMA TellsMeans ==
  ASSUME NEW e, NEW d
  PROVE  Tells(e, d) <=>
           /\ Shape(e)
           /\ RebuiltTasks(e) = d.task
           /\ RebuiltLeases(e) = d.lease
           /\ RebuiltTrees(e) = d.tree
           /\ Last(e.ledgers).reserved = d.reserved
           /\ Last(e.ledgers).used = d.used
           /\ {v.msg : v \in {v \in ToSet(e.events) : v.cause = "approval-consumed"}} = d.consumed
           /\ RebuiltCaps(e) = d.caps
<1>. DEFINE a == RebuiltTasks(e)
            b == RebuiltLeases(e)
            c == RebuiltTrees(e)
            r == Last(e.ledgers).reserved
            u == Last(e.ledgers).used
            m == {v.msg : v \in {v \in ToSet(e.events) : v.cause = "approval-consumed"}}
            k == RebuiltCaps(e)
<1>1. Rebuilt(e) = [task |-> a, lease |-> b, tree |-> c, reserved |-> r, used |-> u,
                    consumed |-> m, caps |-> k]
  BY DEF Rebuilt, RebuiltLeases, RebuiltTrees
<1>. HIDE DEF a, b, c, r, u, m, k
<1>2. Rebuilt(e) = RowsOf(d) <=>
        /\ a = d.task /\ b = d.lease /\ c = d.tree /\ r = d.reserved /\ u = d.used
        /\ m = d.consumed /\ k = d.caps
  BY <1>1 DEF RowsOf
<1>. QED BY <1>2 DEF Tells, a, b, c, r, u, m, k

\* The rows of a table after one is added, or none.
LEMMA TableGrows ==
  ASSUME NEW s, NEW n \in Nat, Numbered(s, n), NEW rows, OneRow(rows, n + 1),
         NEW s2, s2 = s \o rows
  PROVE  /\ Numbered(s2, n + 1)
         /\ rows = <<>> => s2 = s
         /\ \A x : Alone(rows, x) => Gains(s2, s, x)
<1>0. Listed(s) /\ \A row \in ToSet(s) : row.n \in 1..n
  BY DEF Numbered
<1>1. CASE rows = <<>>
  <2>1. s2 = s
    BY <1>0, <1>1, RowsAdded
  <2>2. \A x : ~Alone(rows, x)
    BY <1>1 DEF Alone
  <2>3. \A i \in 1..n : i \in 1..(n + 1)
    OBVIOUS
  <2>. QED BY <1>0, <2>1, <2>2, <2>3 DEF Numbered
<1>2. CASE \E x : Alone(rows, x) /\ x.n = n + 1
  <2>1. PICK x : rows = <<x>> /\ x.n = n + 1
    BY <1>2 DEF Alone
  <2>2. s2 = Append(s, x)
    BY <1>0, <2>1, RowsAdded
  <2>3. Listed(Append(s, x)) /\ ToSet(Append(s, x)) = ToSet(s) \cup {x}
    BY <1>0, AppendIs
  <2>4. \A i \in 1..n : i \in 1..(n + 1)
    OBVIOUS
  <2>5. \A y : Alone(rows, y) => y = x
    BY <2>1 DEF Alone
  <2>6. rows # <<>>
    BY <2>1
  <2>7. n + 1 \in 1..(n + 1)
    OBVIOUS
  <2>. QED BY <1>0, <2>1, <2>2, <2>3, <2>4, <2>5, <2>6, <2>7 DEF Numbered, Gains
<1>. QED BY <1>1, <1>2 DEF OneRow

\* Nothing but the entry of one task changes.
Elsewhere(f, g, t) == \A u \in Tasks \ {t} : g[u] = f[u]

\* The rows written beside an event: none, or the Lease the task has now, or
\* the one it had, released.
LeaseTold(rows, n, t, d, d2) ==
  \/ rows = <<>> /\ d2.lease = d.lease
  \/ \E x : /\ Alone(rows, x) /\ x.n = n /\ x.task = t /\ t \in Tasks
            /\ IF Held(d2, t)
                 THEN x.status = "current" /\ x # NoLease
                      /\ d2.lease[t] = [id |-> x.id, expires |-> x.expires]
                 ELSE x.status = "released"

\* They are.
LEMMA LeaseIsTold ==
  ASSUME NEW n \in Nat, NEW d, Rows(d), NEW d2, Rows(d2), NEW event, Follows(d, d2, event)
  PROVE  LeaseTold(LeaseRowsOf(n, d, d2, event), n, event.task, d, d2)
<1>. DEFINE t == event.task
            rows == LeaseRowsOf(n, d, d2, event)
            A == Held(d2, t) /\ (event.cause = "heartbeat" \/ d2.lease[t] # d.lease[t])
            B == Held(d, t) /\ ~Held(d2, t)
<1>0. /\ d.lease \in [Tasks -> LeaseRows \cup {NoLease}]
      /\ d2.lease \in [Tasks -> LeaseRows \cup {NoLease}]
  BY DEF Rows
<1>1. CASE t = NoLease
  <2>1. rows = <<>>
    BY <1>1 DEF LeaseRowsOf, None
  <2>2. \A u \in Tasks : d2.lease[u] = d.lease[u]
    BY <1>1, NullAssumption DEF Follows
  <2>3. d2.lease = d.lease
    BY <1>0, <2>2
  <2>. QED BY <2>1, <2>3 DEF LeaseTold
<1>2. CASE t # NoLease /\ A
  <2>. DEFINE x == LeaseRow(n, d2.lease[t], "current", "none")
  <2>0. t \in Tasks
    BY <1>2 DEF Follows
  <2>1. rows = <<x>>
    BY <1>2 DEF LeaseRowsOf, None
  <2>2. d2.lease[t] \in LeaseRows /\ d2.lease[t].id.task = t
    BY <1>0, <1>2, <2>0 DEF Held, Rows
  <2>3. /\ x = [n |-> n, task |-> t, id |-> d2.lease[t].id, expires |-> d2.lease[t].expires,
                status |-> "current", outcome |-> "none"]
        /\ d2.lease[t].id \in LeaseIds /\ d2.lease[t].expires \in Nat
        /\ d2.lease[t] = [id |-> d2.lease[t].id, expires |-> d2.lease[t].expires]
    BY <2>2 DEF LeaseRow, LeaseRows
  <2>4. x \in [n : Nat, task : Tasks, id : LeaseIds, expires : Nat,
               status : {"current"}, outcome : {"none"}]
    BY <2>0, <2>3
  <2>5. x # NoLease
    BY <2>4, NullAssumption
  <2>6. x.n = n /\ x.task = t /\ x.status = "current" /\ x.id = d2.lease[t].id
        /\ x.expires = d2.lease[t].expires
    BY <2>3
  <2>. HIDE DEF x
  <2>. QED BY <1>2, <2>0, <2>1, <2>3, <2>5, <2>6 DEF LeaseTold, Alone
<1>3. CASE t # NoLease /\ ~A /\ B
  <2>1. t \in Tasks
    BY <1>3 DEF Follows
  <2>2. d.lease[t].id.task = t
    BY <1>3, <2>1 DEF Rows
  <2>3. PICK outcome : rows = <<LeaseRow(n, d.lease[t], "released", outcome)>>
    BY <1>3 DEF LeaseRowsOf, None
  <2>. DEFINE x == LeaseRow(n, d.lease[t], "released", outcome)
  <2>4. x.n = n /\ x.task = t /\ x.status = "released"
    BY <2>2 DEF LeaseRow
  <2>. HIDE DEF x
  <2>. QED BY <1>3, <2>1, <2>3, <2>4 DEF LeaseTold, Alone, x
<1>4. CASE t # NoLease /\ ~A /\ ~B
  <2>1. rows = <<>>
    BY <1>4 DEF LeaseRowsOf, None
  <2>2. t \in Tasks /\ d2.lease[t] = d.lease[t]
    BY <1>4 DEF Follows, Held
  <2>3. \A u \in Tasks : d2.lease[u] = d.lease[u]
    BY <2>2 DEF Follows
  <2>4. d2.lease = d.lease
    BY <1>0, <2>3
  <2>. QED BY <2>1, <2>4 DEF LeaseTold
<1>. HIDE DEF A, B, rows
<1>. QED BY <1>1, <1>2, <1>3, <1>4

\* Likewise for worktrees.
TreeTold(rows, n, t, d, d2) ==
  \/ rows = <<>> /\ d2.tree = d.tree
  \/ \E x : /\ Alone(rows, x) /\ x.n = n /\ x.task = t /\ t \in Tasks
            /\ IF d2.tree[t] # "none" THEN x.status = d2.tree[t] /\ x # NoLease
               ELSE x.status \in {"released", "blocked", "integrated"}

\* They too are what an event leaves behind.
LEMMA TreeIsTold ==
  ASSUME NEW n \in Nat, NEW d, Rows(d), NEW d2, Rows(d2), NEW event, Follows(d, d2, event)
  PROVE  TreeTold(TreeRowsOf(n, d, d2, event), n, event.task, d, d2)
<1>. DEFINE t == event.task
            rows == TreeRowsOf(n, d, d2, event)
<1>0. /\ d.tree \in [Tasks -> {"none", "requested", "observed"}]
      /\ d2.tree \in [Tasks -> {"none", "requested", "observed"}]
  BY DEF Rows
<1>1. CASE t = NoLease
  <2>1. rows = <<>>
    BY <1>1 DEF TreeRowsOf, None
  <2>2. \A u \in Tasks : d2.tree[u] = d.tree[u]
    BY <1>1, NullAssumption DEF Follows
  <2>3. d2.tree = d.tree
    BY <1>0, <2>2
  <2>. QED BY <2>1, <2>3 DEF TreeTold
<1>2. CASE t # NoLease /\ (d2.tree[t] # d.tree[t] \/ event.cause = "worktree-observed")
  <2>. DEFINE x == [n |-> n, task |-> t, fence |-> event.lease.fence,
                    status |-> TreeStatus(d2, event)]
  <2>1. rows = <<x>>
    BY <1>2 DEF TreeRowsOf, None
  <2>2. t \in Tasks
    BY <1>2 DEF Follows
  <2>3. d2.tree[t] = "none" => x.status \in {"released", "blocked", "integrated"}
    BY DEF TreeStatus
  <2>4. d2.tree[t] # "none" => x.status = d2.tree[t] /\ x # NoLease
    <3>1. SUFFICES ASSUME d2.tree[t] # "none"
                   PROVE  x.status = d2.tree[t] /\ x # NoLease
      OBVIOUS
    <3>2. TreeStatus(d2, event) = d2.tree[t] /\ d2.tree[t] \in {"requested", "observed"}
      BY <1>0, <2>2, <3>1 DEF TreeStatus
    <3>3. event.lease.fence \in Nat
      BY <1>2, <3>1 DEF Follows
    <3>4. x \in [n : Nat, task : Tasks, fence : Nat, status : {"requested", "observed"}]
      BY <2>2, <3>2, <3>3
    <3>. QED BY <3>2, <3>4, NullAssumption
  <2>5. x.n = n /\ x.task = t
    OBVIOUS
  <2>. HIDE DEF x
  <2>. QED BY <2>1, <2>2, <2>3, <2>4, <2>5 DEF TreeTold, Alone
<1>3. CASE t # NoLease /\ ~(d2.tree[t] # d.tree[t] \/ event.cause = "worktree-observed")
  <2>1. rows = <<>>
    BY <1>3 DEF TreeRowsOf, None
  <2>2. \A u \in Tasks : d2.tree[u] = d.tree[u]
    BY <1>3 DEF Follows
  <2>3. d2.tree = d.tree
    BY <1>0, <2>2
  <2>. QED BY <2>1, <2>3 DEF TreeTold
<1>. QED BY <1>1, <1>2, <1>3

\* The Lease row of a task is told by the latest of its rows.
LEMMA LeasesTell ==
  ASSUME NEW e, NEW f, NEW d, NEW d2, NEW t, NEW rows, NEW n \in Nat,
         Rows(d), Rows(d2), LeaseTold(rows, n + 1, t, d, d2),
         Elsewhere(d.lease, d2.lease, t),
         f.leases = e.leases \o rows, Numbered(e.leases, n),
         RebuiltLeases(e) = d.lease
  PROVE  /\ RebuiltLeases(f) = d2.lease
         /\ Numbered(f.leases, n + 1)
<1>0. OneRow(rows, n + 1)
  BY DEF LeaseTold, OneRow
<1>1. /\ Numbered(f.leases, n + 1)
      /\ rows = <<>> => f.leases = e.leases
      /\ \A x : Alone(rows, x) => Gains(f.leases, e.leases, x)
  <2>. DEFINE s == e.leases
              s2 == f.leases
  <2>1. Numbered(s, n) /\ s2 = s \o rows
    OBVIOUS
  <2>. HIDE DEF s, s2
  <2>2. /\ Numbered(s2, n + 1)
        /\ rows = <<>> => s2 = s
        /\ \A x : Alone(rows, x) => Gains(s2, s, x)
    BY <1>0, <2>1, TableGrows
  <2>. QED BY <2>2 DEF s, s2
<1>2. CASE rows = <<>> /\ d2.lease = d.lease
  <2>1. \A u : RebuiltLease(f, u) = RebuiltLease(e, u)
    BY <1>1, <1>2 DEF RebuiltLease
  <2>. QED BY <1>1, <1>2, <2>1 DEF RebuiltLeases
<1>3. CASE ~(rows = <<>> /\ d2.lease = d.lease)
  <2>1. PICK x : /\ Alone(rows, x) /\ x.n = n + 1 /\ x.task = t /\ t \in Tasks
                 /\ IF Held(d2, t)
                      THEN x.status = "current" /\ x # NoLease
                           /\ d2.lease[t] = [id |-> x.id, expires |-> x.expires]
                      ELSE x.status = "released"
    BY <1>3 DEF LeaseTold
  <2>2. ToSet(f.leases) = ToSet(e.leases) \cup {x}
    BY <1>1, <2>1 DEF Gains
  <2>3. ASSUME NEW u \in Tasks, u # t
        PROVE  RebuiltLease(f, u) = d2.lease[u]
    <3>1. Historied(f.leases, u) = Historied(e.leases, u)
      BY <2>1, <2>2, <2>3 DEF Historied
    <3>2. RebuiltLease(f, u) = RebuiltLease(e, u)
      BY <3>1 DEF RebuiltLease
    <3>. QED BY <2>3, <3>2 DEF RebuiltLeases, Elsewhere
  <2>4. RebuiltLease(f, t) = d2.lease[t]
    <3>1. Historied(f.leases, t) = Historied(e.leases, t) \cup {x}
      BY <2>1, <2>2 DEF Historied
    <3>2. \A row \in Historied(e.leases, t) : row.n \in Nat /\ row.n < x.n
      BY <2>1 DEF Historied, Numbered
    <3>. DEFINE R == Historied(e.leases, t)
    <3>2a. x.n \in Nat /\ \A row \in R : row.n \in Nat /\ row.n < x.n
      BY <2>1, <3>2
    <3>3. Latest(Historied(f.leases, t)) = x
      <4>. HIDE DEF R
      <4>1. Latest(R \cup {x}) = x
        BY <3>2a, LatestIs
      <4>. QED BY <3>1, <4>1 DEF R
    <3>. HIDE DEF R
    <3>. QED BY <2>1, <3>3 DEF RebuiltLease, IsCurrent, Absent, Held
  <2>5. \A u \in Tasks : RebuiltLease(f, u) = d2.lease[u]
    BY <2>3, <2>4
  <2>. QED BY <1>1, <2>5 DEF Rows, RebuiltLeases
<1>. QED BY <1>2, <1>3

\* And so is its worktree.
LEMMA TreesTell ==
  ASSUME NEW e, NEW f, NEW d, NEW d2, NEW t, NEW rows, NEW n \in Nat,
         Rows(d), Rows(d2), TreeTold(rows, n + 1, t, d, d2),
         Elsewhere(d.tree, d2.tree, t),
         f.trees = e.trees \o rows, Numbered(e.trees, n),
         RebuiltTrees(e) = d.tree
  PROVE  /\ RebuiltTrees(f) = d2.tree
         /\ Numbered(f.trees, n + 1)
<1>0. OneRow(rows, n + 1)
  BY DEF TreeTold, OneRow
<1>1. /\ Numbered(f.trees, n + 1)
      /\ rows = <<>> => f.trees = e.trees
      /\ \A x : Alone(rows, x) => Gains(f.trees, e.trees, x)
  <2>. DEFINE s == e.trees
              s2 == f.trees
  <2>1. Numbered(s, n) /\ s2 = s \o rows
    OBVIOUS
  <2>. HIDE DEF s, s2
  <2>2. /\ Numbered(s2, n + 1)
        /\ rows = <<>> => s2 = s
        /\ \A x : Alone(rows, x) => Gains(s2, s, x)
    BY <1>0, <2>1, TableGrows
  <2>. QED BY <2>2 DEF s, s2
<1>2. CASE rows = <<>> /\ d2.tree = d.tree
  <2>1. \A u : RebuiltTree(f, u) = RebuiltTree(e, u)
    BY <1>1, <1>2 DEF RebuiltTree
  <2>. QED BY <1>1, <1>2, <2>1 DEF RebuiltTrees
<1>3. CASE ~(rows = <<>> /\ d2.tree = d.tree)
  <2>1. PICK x : /\ Alone(rows, x) /\ x.n = n + 1 /\ x.task = t /\ t \in Tasks
                 /\ IF d2.tree[t] # "none" THEN x.status = d2.tree[t] /\ x # NoLease
                    ELSE x.status \in {"released", "blocked", "integrated"}
    BY <1>3 DEF TreeTold
  <2>2. ToSet(f.trees) = ToSet(e.trees) \cup {x}
    BY <1>1, <2>1 DEF Gains
  <2>3. ASSUME NEW u \in Tasks, u # t
        PROVE  RebuiltTree(f, u) = d2.tree[u]
    <3>1. Historied(f.trees, u) = Historied(e.trees, u)
      BY <2>1, <2>2, <2>3 DEF Historied
    <3>2. RebuiltTree(f, u) = RebuiltTree(e, u)
      BY <3>1 DEF RebuiltTree
    <3>. QED BY <2>3, <3>2 DEF RebuiltTrees, Elsewhere
  <2>4. RebuiltTree(f, t) = d2.tree[t]
    <3>1. Historied(f.trees, t) = Historied(e.trees, t) \cup {x}
      BY <2>1, <2>2 DEF Historied
    <3>2. \A row \in Historied(e.trees, t) : row.n \in Nat /\ row.n < x.n
      BY <2>1 DEF Historied, Numbered
    <3>. DEFINE R == Historied(e.trees, t)
    <3>2a. x.n \in Nat /\ \A row \in R : row.n \in Nat /\ row.n < x.n
      BY <2>1, <3>2
    <3>3. Latest(Historied(f.trees, t)) = x
      <4>. HIDE DEF R
      <4>1. Latest(R \cup {x}) = x
        BY <3>2a, LatestIs
      <4>. QED BY <3>1, <4>1 DEF R
    <3>. HIDE DEF R
    <3>4. d2.tree[t] \in {"none", "requested", "observed"}
      BY <2>1 DEF Rows
    <3>. QED BY <2>1, <3>3, <3>4 DEF RebuiltTree, ActiveTree, Absent
  <2>5. \A u \in Tasks : RebuiltTree(f, u) = d2.tree[u]
    BY <2>3, <2>4
  <2>. QED BY <1>1, <2>5 DEF Rows, RebuiltTrees
<1>. QED BY <1>2, <1>3

\* The ledger is told by its last snapshot.
LedgerTold(e, d) ==
  /\ Listed(e.ledgers)
  /\ Last(e.ledgers).reserved = d.reserved /\ Last(e.ledgers).used = d.used

\* A new snapshot tells of the new ledger.
LEMMA LedgersTell ==
  ASSUME NEW e, NEW f, NEW d, NEW d2, NEW n, LedgerTold(e, d),
         f.ledgers = e.ledgers \o LedgerRowsOf(n, d, d2)
  PROVE  LedgerTold(f, d2)
<1>0. /\ Listed(e.ledgers)
      /\ Last(e.ledgers).reserved = d.reserved /\ Last(e.ledgers).used = d.used
  BY DEF LedgerTold
<1>1. CASE <<d2.reserved, d2.used>> = <<d.reserved, d.used>>
  <2>1. f.ledgers = e.ledgers
    BY <1>0, <1>1, RowsAdded DEF LedgerRowsOf
  <2>. QED BY <1>0, <1>1, <2>1 DEF LedgerTold
<1>2. CASE <<d2.reserved, d2.used>> # <<d.reserved, d.used>>
  <2>. DEFINE x == [n |-> n, reserved |-> d2.reserved, used |-> d2.used]
  <2>1. f.ledgers = Append(e.ledgers, x)
    BY <1>0, <1>2, RowsAdded DEF LedgerRowsOf
  <2>2. x.reserved = d2.reserved /\ x.used = d2.used
    OBVIOUS
  <2>. HIDE DEF x
  <2>. QED BY <1>0, <2>1, <2>2, AppendIs DEF LedgerTold
<1>. QED BY <1>1, <1>2

\* Evidence that told of a store tells of the next one, once it has the rows
\* of the event between them.
LEMMA WroteTells ==
  ASSUME NEW e, NEW d, NEW d2, NEW event, Tells(e, d), Rows(d), Rows(d2),
         Follows(d, d2, event)
  PROVE  Tells(Wrote(e, d, d2, event), d2)
<1>. DEFINE n == Len(e.events)
            f == Wrote(e, d, d2, event)
<1>0. /\ Shape(e)
      /\ RebuiltTasks(e) = d.task
      /\ RebuiltLeases(e) = d.lease
      /\ RebuiltTrees(e) = d.tree
      /\ Last(e.ledgers).reserved = d.reserved
      /\ Last(e.ledgers).used = d.used
      /\ {v.msg : v \in {v \in ToSet(e.events) : v.cause = "approval-consumed"}} = d.consumed
      /\ RebuiltCaps(e) = d.caps
  BY TellsMeans
<1>1. /\ f.events = Append(e.events, event)
      /\ f.leases = e.leases \o LeaseRowsOf(n + 1, d, d2, event)
      /\ f.trees = e.trees \o TreeRowsOf(n + 1, d, d2, event)
      /\ f.ledgers = e.ledgers \o LedgerRowsOf(n + 1, d, d2)
  BY DEF Wrote
<1>1a. f.mail = e.mail \/ f.mail = Append(e.mail, event.msg)
  BY DEF Wrote
<1>1b. f = [events |-> f.events, mail |-> f.mail, leases |-> f.leases, trees |-> f.trees,
            ledgers |-> f.ledgers]
  BY DEF Wrote
<1>. HIDE DEF f
<1>1c. Listed(f.mail)
  <2>1. Listed(e.mail)
    BY <1>0 DEF Shape
  <2>2. \A x : Listed(Append(e.mail, x))
    BY <2>1, AppendIs
  <2>. QED BY <1>1a, <2>1, <2>2
<1>2. /\ n \in Nat /\ Listed(f.events) /\ Len(f.events) = n + 1
      /\ ToSet(f.events) = ToSet(e.events) \cup {event}
  BY <1>0, <1>1, AppendIs DEF Shape
<1>3. Numbered(e.leases, n) /\ Numbered(e.trees, n) /\ n + 1 \in Nat
  BY <1>0, <1>2 DEF Shape
<1>. HIDE DEF n
<1>4. RebuiltTasks(f) = d2.task
  <2>1. RebuiltTasks(f) = TaskStep(d.task, event)
    <3>1. Listed(e.events) /\ f.events = Append(e.events, event)
      BY <1>0, <1>1 DEF Shape
    <3>. QED BY <1>0, <3>1, TasksGrow
  <2>2. \A t \in Tasks : d2.task[t] # NoLease
    BY NullAssumption DEF Rows, Projections
  <2>3. CASE event.task = NoLease
    <3>1. \A u \in Tasks : d2.task[u] = d.task[u]
      BY <2>3, NullAssumption DEF Follows
    <3>2. d2.task = d.task
      BY <3>1 DEF Rows
    <3>. QED BY <2>1, <2>3, <3>2 DEF Follows, TaskStep, Absent
  <2>4. CASE event.task # NoLease
    <3>1. /\ event.task \in Tasks /\ event.after = d2.task[event.task]
          /\ event.after # NoLease
      BY <2>2, <2>4 DEF Follows
    <3>2. \A u \in Tasks : d2.task[u] = [d.task EXCEPT ![event.task] = event.after][u]
      BY <3>1 DEF Follows, Rows
    <3>3. d2.task = [d.task EXCEPT ![event.task] = event.after]
      BY <3>2 DEF Rows
    <3>. QED BY <2>1, <3>1, <3>3 DEF TaskStep, Absent
  <2>. QED BY <2>3, <2>4
<1>5. /\ RebuiltLeases(f) = d2.lease
      /\ Numbered(f.leases, n + 1)
  <2>. PICK m \in Nat : m = n + 1
    BY <1>3
  <2>. PICK t : t = event.task
    OBVIOUS
  <2>. PICK rows : rows = LeaseRowsOf(m, d, d2, event)
    OBVIOUS
  <2>1. LeaseTold(rows, m, t, d, d2)
    BY LeaseIsTold
  <2>2. Elsewhere(d.lease, d2.lease, t) /\ f.leases = e.leases \o rows /\ LeaseTold(rows, n + 1, t, d, d2)
    BY <1>1, <2>1 DEF Follows, Elsewhere
  <2>. QED BY <1>0, <1>2, <1>3, <2>2, LeasesTell
<1>6. /\ RebuiltTrees(f) = d2.tree
      /\ Numbered(f.trees, n + 1)
  <2>. PICK m \in Nat : m = n + 1
    BY <1>3
  <2>. PICK t : t = event.task
    OBVIOUS
  <2>. PICK rows : rows = TreeRowsOf(m, d, d2, event)
    OBVIOUS
  <2>1. TreeTold(rows, m, t, d, d2)
    BY TreeIsTold
  <2>2. Elsewhere(d.tree, d2.tree, t) /\ f.trees = e.trees \o rows /\ TreeTold(rows, n + 1, t, d, d2)
    BY <1>1, <2>1 DEF Follows, Elsewhere
  <2>. QED BY <1>0, <1>2, <1>3, <2>2, TreesTell
<1>7. /\ Listed(f.ledgers)
      /\ Last(f.ledgers).reserved = d2.reserved /\ Last(f.ledgers).used = d2.used
  <2>. PICK m : m = n + 1
    OBVIOUS
  <2>1. LedgerTold(e, d) /\ f.ledgers = e.ledgers \o LedgerRowsOf(m, d, d2)
    BY <1>0, <1>1 DEF Shape, LedgerTold
  <2>2. LedgerTold(f, d2)
    BY <2>1, LedgersTell
  <2>. QED BY <2>2 DEF LedgerTold
<1>8. {v.msg : v \in {v \in ToSet(f.events) : v.cause = "approval-consumed"}} = d2.consumed
  <2>1. CASE event.cause = "approval-consumed"
    <3>1. d2.consumed = d.consumed \cup {event.msg}
      BY <2>1 DEF Follows
    <3>2. {v \in ToSet(f.events) : v.cause = "approval-consumed"}
          = {v \in ToSet(e.events) : v.cause = "approval-consumed"} \cup {event}
      BY <1>2, <2>1
    <3>. QED BY <1>0, <3>1, <3>2
  <2>2. CASE event.cause # "approval-consumed"
    <3>1. d2.consumed = d.consumed
      BY <2>2 DEF Follows
    <3>2. {v \in ToSet(f.events) : v.cause = "approval-consumed"}
          = {v \in ToSet(e.events) : v.cause = "approval-consumed"}
      BY <1>2, <2>2
    <3>. QED BY <1>0, <3>1, <3>2
  <2>. QED BY <2>1, <2>2
<1>9. RebuiltCaps(f) = d2.caps
  <2>1. Listed(e.events) /\ f.events = Append(e.events, event)
    BY <1>0, <1>1 DEF Shape
  <2>2. RebuiltCaps(f) = CapStep(RebuiltCaps(e), event)
    BY <2>1, CapsGrow
  <2>. QED BY <1>0, <2>2 DEF Follows
<1>10. Shape(f)
  BY <1>1b, <1>1c, <1>2, <1>5, <1>6, <1>7 DEF Shape
<1>. QED BY <1>4, <1>5, <1>6, <1>7, <1>8, <1>9, <1>10, TellsMeans DEF f

-----------------------------------------------------------------------------
\* What the operators on stores touch.

\* From store d to store e nothing is touched but the rows of task t, the
\* ledger and the messages.
Touches(d, e, t) ==
  /\ \A u \in Tasks \ {t} : /\ e.task[u] = d.task[u] /\ e.lease[u] = d.lease[u]
                            /\ e.tree[u] = d.tree[u]
  /\ e.consumed = d.consumed /\ e.caps = d.caps

\* Touching the rows of one task twice is touching them.
LEMMA TouchesTwice ==
  ASSUME NEW c, NEW d, NEW e, NEW t, Touches(c, d, t), Touches(d, e, t)
  PROVE  Touches(c, e, t)
BY DEF Touches

\* A store of the code's has rows the evidence can tell of, once it is sound.
LEMMA RowsHold ==
  ASSUME NEW d, StoreType(d), Sound(d)
  PROVE  Rows(d)
<1>1. TaskRows \subseteq Projections
  BY DEF TaskRows, Projections
<1>2. \A t \in Tasks : Held(d, t) => d.lease[t].id.task = t
  BY DEF Sound, AuthorityAt
<1>. QED BY <1>1, <1>2 DEF Rows, StoreType

\* The row a transition writes.
MovedTask(row, state, phase, outcome, blockers) ==
  [row EXCEPT !.state = state, !.phase = phase, !.outcome = outcome, !.blockers = blockers]

\* It writes no other.
LEMMA MovedRow ==
  ASSUME NEW d, StoreType(d), NEW t \in Tasks, NEW state, NEW phase,
         NEW outcome, NEW blockers, NEW e,
         e = Moved(d, t, state, phase, outcome, blockers)
  PROVE  /\ e.task = [d.task EXCEPT ![t] =
                        MovedTask(d.task[t], state, phase, outcome, blockers)]
         /\ e.lease = d.lease /\ e.tree = d.tree /\ e.consumed = d.consumed /\ e.caps = d.caps
         /\ e.reserved = d.reserved /\ e.used = d.used
         /\ DOMAIN e = DOMAIN d
<1>. DEFINE row == MovedTask(d.task[t], state, phase, outcome, blockers)
<1>1. e = [d EXCEPT !.task = [d.task EXCEPT ![t] = row]]
  BY DEF Moved, StoreType, MovedTask
<1>. HIDE DEF row
<1>2. /\ e.task = [d.task EXCEPT ![t] = row]
      /\ e.lease = d.lease /\ e.tree = d.tree /\ e.consumed = d.consumed /\ e.caps = d.caps
      /\ e.reserved = d.reserved /\ e.used = d.used
      /\ DOMAIN e = DOMAIN d
  BY <1>1 DEF StoreType
<1>. QED BY <1>2 DEF row

\* It touches no other.
LEMMA MovedTouches ==
  ASSUME NEW d, StoreType(d), NEW t \in Tasks, NEW state, NEW phase,
         NEW outcome, NEW blockers, NEW e,
         e = Moved(d, t, state, phase, outcome, blockers)
  PROVE  /\ Touches(d, e, t) /\ e.tree = d.tree /\ e.lease = d.lease
         /\ e.task[t].state = state /\ e.task[t].outcome = outcome
         /\ DOMAIN e = DOMAIN d
<1>. DEFINE row == MovedTask(d.task[t], state, phase, outcome, blockers)
<1>1. d.task[t] \in TaskRows
  BY DEF StoreType
<1>2. row.state = state /\ row.outcome = outcome
  BY <1>1 DEF TaskRows, MovedTask
<1>. HIDE DEF row
<1>3. /\ e.task = [d.task EXCEPT ![t] = row]
      /\ e.lease = d.lease /\ e.tree = d.tree /\ e.consumed = d.consumed /\ e.caps = d.caps
      /\ DOMAIN e = DOMAIN d
  BY MovedRow DEF row
<1>4. e.task[t] = row /\ \A u \in Tasks \ {t} : e.task[u] = d.task[u]
  BY <1>3 DEF StoreType
<1>. QED BY <1>2, <1>3, <1>4 DEF Touches

\* So does readiness.
LEMMA ReadiedTouches ==
  ASSUME NEW d, StoreType(d), NEW t \in Tasks, NEW state, NEW blockers, NEW e,
         e = Readied(d, t, state, blockers)
  PROVE  /\ Touches(d, e, t) /\ e.tree = d.tree
         /\ e.task[t].state = state
<1>. DEFINE row == [d.task[t] EXCEPT !.state = state, !.blockers = blockers]
<1>1. d.task[t] \in TaskRows
  BY DEF StoreType
<1>2. row.state = state
  BY <1>1 DEF TaskRows
<1>3. e = [d EXCEPT !.task = [d.task EXCEPT ![t] = row]]
  BY DEF Readied, StoreType
<1>. HIDE DEF row
<1>4. /\ e.task = [d.task EXCEPT ![t] = row]
      /\ e.lease = d.lease /\ e.tree = d.tree /\ e.consumed = d.consumed /\ e.caps = d.caps
  BY <1>3 DEF StoreType
<1>. QED BY <1>2, <1>4 DEF Touches, StoreType

\* So does the end of an attempt.
LEMMA ClosedTouches ==
  ASSUME NEW d, StoreType(d), NEW t \in Tasks, NEW charge, NEW e, e = Closed(d, t, charge)
  PROVE  Touches(d, e, t) /\ e.tree[t] = "none" /\ e.lease[t] = NoLease
<1>1. /\ e.task = d.task /\ e.consumed = d.consumed /\ e.caps = d.caps
      /\ e.lease = [d.lease EXCEPT ![t] = NoLease]
      /\ e.tree = [d.tree EXCEPT ![t] = "none"]
  BY DEF Closed, StoreType
<1>. QED BY <1>1 DEF Touches, StoreType

\* However it ends.
LEMMA EndedTouches ==
  ASSUME NEW d, StoreType(d), NEW t \in Tasks,
         NEW charge \in [AttemptResources -> Int], NEW e,
         \/ \E reason : \/ e = Retried(Closed(d, t, charge), t, reason)
                        \/ e = Quarantined(Closed(d, t, charge), t, reason)
         \/ \E state, phase, outcome, blockers :
              /\ state # "running"
              /\ e = Moved(Closed(d, t, charge), t, state, phase, outcome, blockers)
  PROVE  Touches(d, e, t) /\ e.tree[t] = "none" /\ e.task[t].state # "running"
<1>. DEFINE c == Closed(d, t, charge)
<1>1. StoreType(c) /\ Touches(d, c, t) /\ c.tree[t] = "none"
  BY ClosedType, ClosedTouches
<1>. HIDE DEF c
<1>2. Touches(c, e, t) /\ e.tree = c.tree /\ e.task[t].state # "running"
  <2>1. ASSUME NEW state, NEW phase, NEW outcome, NEW blockers, state # "running",
               e = Moved(c, t, state, phase, outcome, blockers)
        PROVE  <1>2!:
    BY <1>1, <2>1, MovedTouches
  <2>2. ASSUME NEW reason, e = Retried(c, t, reason)
        PROVE  <1>2!:
    <3>. DEFINE f == Moved(c, t, "ready", "not_dispatched", "failed", {reason})
    <3>1. /\ Touches(c, f, t) /\ f.tree = c.tree /\ f.task[t].state = "ready"
          /\ DOMAIN f = DOMAIN c
      BY <1>1, MovedTouches
    <3>2. e = [f EXCEPT !.used["retries"] = @ + 1]
      BY <2>2 DEF Retried
    <3>. HIDE DEF f
    <3>3. /\ e.lease = f.lease /\ e.tree = f.tree /\ e.task = f.task
          /\ e.consumed = f.consumed /\ e.caps = f.caps
      BY <1>1, <3>1, <3>2 DEF StoreType
    <3>. QED BY <3>1, <3>3 DEF Touches
  <2>3. ASSUME NEW reason, e = Quarantined(c, t, reason)
        PROVE  <1>2!:
    BY <1>1, <2>3, MovedTouches DEF Quarantined
  <2>. QED BY <2>1, <2>2, <2>3 DEF c
<1>3. Touches(d, e, t)
  BY <1>1, <1>2, TouchesTwice
<1>. QED BY <1>1, <1>2, <1>3

\* So does a withdrawal.
LEMMA WithdrawnTouches ==
  ASSUME NEW d, StoreType(d), NEW t \in Tasks, NEW e, e = Withdrawn(d, t)
  PROVE  Touches(d, e, t) /\ e.tree[t] = "none" /\ e.task[t].state = "ready"
<1>1. /\ e.tree[t] = "none" /\ e.task[t].state = "ready"
      /\ \A u \in Tasks \ {t} : /\ e.task[u] = d.task[u]
                                /\ e.lease[u] = d.lease[u]
                                /\ e.tree[u] = d.tree[u]
  BY WithdrawnParts
<1>0. PICK f : f = Moved(d, t, "ready", "not_dispatched", d.task[t].outcome, {})
  OBVIOUS
<1>2. f.consumed = d.consumed /\ f.caps = d.caps /\ DOMAIN f = DOMAIN d
  BY <1>0, MovedTouches DEF Touches
<1>3. e.consumed = f.consumed /\ e.caps = f.caps
  BY <1>0, <1>2 DEF Withdrawn, StoreType
<1>. QED BY <1>1, <1>2, <1>3 DEF Touches

\* So does the Lease proposed to the task.
LEMMA WithLeaseTouches ==
  ASSUME NEW d, StoreType(d), NEW t \in Tasks, NEW e, e = WithLease(d, t)
  PROVE  Touches(d, e, t) /\ e.tree = d.tree
<1>1. CASE Held(d, t)
  BY <1>1 DEF WithLease, Touches
<1>2. CASE ~Held(d, t)
  <2>. DEFINE id == Proposed(d, t).id
              row == [id |-> id, expires |-> Proposed(d, t).expires]
              task == [d.task[t] EXCEPT !.attempt = id.attempt, !.fence = id.fence]
  <2>1. e = [d EXCEPT !.lease = [d.lease EXCEPT ![t] = row],
                      !.history = d.history \cup {row},
                      !.task = [d.task EXCEPT ![t] = task]]
    BY <1>2 DEF WithLease, Leased, StoreType
  <2>. HIDE DEF row, task
  <2>2. /\ e.lease = [d.lease EXCEPT ![t] = row] /\ e.task = [d.task EXCEPT ![t] = task]
        /\ e.tree = d.tree /\ e.consumed = d.consumed /\ e.caps = d.caps
    BY <2>1 DEF StoreType
  <2>. QED BY <2>2 DEF Touches, StoreType
<1>. QED BY <1>1, <1>2

\* A dispatch intent touches the ledger and the outbox alone.
LEMMA IntentTouches ==
  ASSUME NEW d, StoreType(d), NEW t, NEW id, NEW e, e = Intent(d, t, id, now)
  PROVE  /\ e.task = d.task /\ e.lease = d.lease /\ e.tree = d.tree
         /\ e.consumed = d.consumed /\ e.caps = d.caps
BY DEF Intent, StoreType

\* A message received is no row the evidence tells of.
LEMMA ReceivedKeeps ==
  ASSUME NEW m, StoreType(db)
  PROVE  RowsOf(Received(m)) = RowsOf(db)
BY DEF RowsOf, Received, StoreType

\* Evidence that tells of a store tells of every store with the same rows.
LEMMA TellsSame ==
  ASSUME NEW e, NEW d, NEW d2, RowsOf(d) = RowsOf(d2), Tells(e, d)
  PROVE  Tells(e, d2)
BY DEF Tells

\* A task that runs has no outcome yet.
Steady(d) == \A t \in Tasks : d.task[t].state = "running" => d.task[t].outcome = "none"

\* It is enough to look at the task that was touched.
LEMMA TouchesSteady ==
  ASSUME NEW d, NEW e, NEW t \in Tasks, Touches(d, e, t), Steady(d),
         e.task[t].state = "running" => e.task[t].outcome = "none"
  PROVE  Steady(e)
BY DEF Touches, Steady

-----------------------------------------------------------------------------
\* What the events of one task tell.

\* An event that names the task it touched and what became of it tells all.
LEMMA TaskTold ==
  ASSUME NEW e, NEW d, NEW d2, NEW t \in Tasks, NEW event,
         Tells(e, d), Rows(d), Rows(d2), Touches(d, d2, t),
         event.task = t, event.after = d2.task[t],
         event.cause # "approval-consumed", event.cause # "capability-observed",
         \/ d2.tree[t] = "none"
         \/ d2.tree[t] = d.tree[t] /\ event.cause # "worktree-observed"
         \/ event.lease.fence \in Nat
  PROVE  Tells(Wrote(e, d, d2, event), d2)
<1>1. t # NoLease
  BY NullAssumption
<1>2. Follows(d, d2, event)
  BY <1>1 DEF Follows, Touches, CapStep
<1>. QED BY <1>2, WroteTells

\* So does the event of an attempt that ends.
LEMMA EndsTold ==
  ASSUME NEW e, NEW d, NEW d2, NEW t \in Tasks, NEW cause, NEW m, NEW charge,
         Tells(e, d), Rows(d), Rows(d2), Touches(d, d2, t), d2.tree[t] = "none",
         cause # "approval-consumed", cause # "capability-observed"
  PROVE  Tells(Wrote(e, d, d2, Ends(cause, t, d, d2, m, charge)), d2)
<1>. DEFINE event == Ends(cause, t, d, d2, m, charge)
<1>1. event.task = t /\ event.after = d2.task[t] /\ event.cause = cause
  BY DEF Ends, Event, Blank
<1>. HIDE DEF event
<1>2. Tells(Wrote(e, d, d2, event), d2)
  BY <1>1, TaskTold
<1>. QED BY <1>2 DEF event

\* A note about a message moves no row.
LEMMA NoteTold ==
  ASSUME NEW e, NEW d, NEW d2, NEW m \in Messages, NEW event, NEW cause,
         Tells(e, d), Rows(d), RowsOf(d2) = RowsOf(d), 
         event.task = Note(cause, m, d).task, event.after = Note(cause, m, d).after,
         event.lease = Note(cause, m, d).lease, event.cause = cause,
         cause # "approval-consumed", cause # "capability-observed",
         cause # "worktree-observed"
  PROVE  Tells(Wrote(e, d, d2, event), d2)
<1>1. /\ d2.task = d.task /\ d2.lease = d.lease /\ d2.tree = d.tree
      /\ d2.consumed = d.consumed /\ d2.caps = d.caps
  BY DEF RowsOf
<1>2. Rows(d2)
  BY <1>1 DEF Rows, Held
<1>3. \/ event.task = NoLease /\ event.after = NoLease
      \/ event.task \in Tasks /\ event.after = d.task[event.task]
  <2>1. CASE m.lid = NoLease
    BY <2>1 DEF Note, Blank, None
  <2>2. CASE m.lid # NoLease
    <3>1. m.lid \in LeaseIds
      BY <2>2 DEF Messages
    <3>2. m.lid.task \in Tasks
      BY <3>1 DEF LeaseIds
    <3>. QED BY <2>2, <3>2 DEF Note, Blank
  <2>. QED BY <2>1, <2>2
<1>4. Follows(d, d2, event)
  BY <1>1, <1>3, NullAssumption DEF Follows, CapStep
<1>. QED BY <1>2, <1>4, WroteTells

-----------------------------------------------------------------------------
\* The approvals a dispatch consumes.

\* The elements of a finite set, listed: some bijection from positions.
LEMMA ListedSet ==
  ASSUME NEW S, IsFiniteSet(S)
  PROVE  /\ Cardinality(S) \in Nat
         /\ SetToSeq(S) \in Surjection(1..Cardinality(S), S)
<1>. DEFINE n == Cardinality(S)
            Q(f) == f \in [1..n -> S] /\ IsInjective(f)
            q == CHOOSE f \in [1..n -> S] : IsInjective(f)
<1>1. n \in Nat /\ ExistsBijection(1..n, S)
  BY FS_CardinalityType
<1>. HIDE DEF n
<1>2. PICK f : f \in Bijection(1..n, S)
  BY <1>1 DEF ExistsBijection
<1>3. f \in [1..n -> S] /\ IsInjective(f)
  BY <1>2 DEF Bijection, Injection, IsInjective
<1>4. q \in [1..n -> S] /\ IsInjective(q)
  BY <1>3
<1>. HIDE DEF q
<1>5. q \in Injection(1..n, S)
  BY <1>4 DEF Injection, IsInjective
<1>6. IsFiniteSet(1..n) /\ Cardinality(1..n) = n
  BY <1>1, FS_Interval
<1>7. q \in Surjection(1..n, S)
  BY <1>5, <1>6, FS_Injection DEF n
<1>. QED BY <1>1, <1>7 DEF SetToSeq, q, n

\* At most one approval is consumed for each stop.
LEMMA ConsumedFew ==
  ASSUME NEW d, NEW t \in Tasks, NEW id
  PROVE  IsFiniteSet({CHOOSE m \in Grants(d, t, id, stop, now) : TRUE :
                        stop \in ApprovalStops[t]})
<1>. DEFINE pick(stop) == CHOOSE m \in Grants(d, t, id, stop, now) : TRUE
            a == pick("owner")
            b == pick("technical_sandbox")
            S == {pick(stop) : stop \in ApprovalStops[t]}
<1>1. ApprovalStops[t] \subseteq {"owner", "technical_sandbox"}
  BY GraphAssumption
<1>2. S \subseteq {a, b}
  BY <1>1
<1>3. IsFiniteSet({a} \cup {b})
  BY FS_Singleton, FS_AddElement
<1>4. {a} \cup {b} = {a, b}
  OBVIOUS
<1>5. IsFiniteSet(S)
  BY <1>2, <1>3, <1>4, FS_Subset
<1>. QED BY <1>5

\* A consumption adds its event, and its message if that is new.
ClaimEvent(d, t, m) ==
  [Event("approval-consumed", t, d, d) EXCEPT !.lease = m.lid, !.msg = m]
Claimed(e, g, v) ==
  [events  |-> Append(g.events, v),
   mail    |-> IF Inserts(g, v) THEN Append(g.mail, v.msg) ELSE g.mail,
   leases  |-> e.leases, trees |-> e.trees, ledgers |-> e.ledgers]

\* And to the other tables nothing.
LEMMA ConsumptionIs ==
  ASSUME NEW e, NEW g, Listed(e.leases), Listed(e.trees), Listed(e.ledgers),
         g.leases = e.leases, g.trees = e.trees, g.ledgers = e.ledgers,
         NEW d, NEW t, NEW m
  PROVE  \E v : /\ v = ClaimEvent(d, t, m) /\ v.msg = m
                /\ ConsumptionOf(g, d, t, m) = Claimed(e, g, v)
<1>. DEFINE v == ClaimEvent(d, t, m)
            n == Len(g.events) + 1
<1>1. v.msg = m /\ v.cause = "approval-consumed"
  BY DEF ClaimEvent, Event, Blank
<1>2. ConsumptionOf(g, d, t, m) = Wrote(g, d, d, v)
  BY DEF ConsumptionOf, ClaimEvent
<1>. HIDE DEF v
<1>3. /\ LeaseRowsOf(n, d, d, v) = <<>> /\ TreeRowsOf(n, d, d, v) = <<>>
      /\ LedgerRowsOf(n, d, d) = <<>>
  BY <1>1 DEF LeaseRowsOf, TreeRowsOf, LedgerRowsOf
<1>4. e.leases \o <<>> = e.leases /\ e.trees \o <<>> = e.trees /\ e.ledgers \o <<>> = e.ledgers
  BY RowsAdded
<1>5. Wrote(g, d, d, v) = Claimed(e, g, v)
  BY <1>3, <1>4 DEF Wrote, Claimed
<1>. QED BY <1>1, <1>2, <1>5 DEF v

\* What a list of consumptions leaves, one after the other.
Claims(e, d, t, s) == FoldLeft(LAMBDA g, m : ConsumptionOf(g, d, t, m), e, s)

\* It is a fold over the list.
ClaimsOf(h, e, d, t, s, m) ==
  /\ h[{}] = e
  /\ \A S \in SUBSET (1..m) : S # {} =>
       h[S] = ConsumptionOf(h[S \ {LastOf(S)}], d, t, s[LastOf(S)])
  /\ Claims(e, d, t, s) = h[1..m]

\* Consuming a list of approvals is a fold over its positions.
LEMMA ClaimsFold ==
  ASSUME NEW e, Shape(e), NEW d, NEW t, NEW m \in Nat, NEW s, DOMAIN s = 1..m
  PROVE  \E h : ClaimsOf(h, e, d, t, s, m)
<1>. DEFINE Op(x, i) == ConsumptionOf(x, d, t, s[i])
            b == e
<1>a. PICK V : e.events \in Seq(V)
  BY DEF Shape, Listed
<1>b. PICK M : e.mail \in Seq(M)
  BY DEF Shape, Listed
<1>. DEFINE V2 == V \cup {ClaimEvent(d, t, s[i]) : i \in 1..m}
            M2 == M \cup {s[i] : i \in 1..m}
            X == [events : Seq(V2), mail : Seq(M2), leases : {e.leases}, trees : {e.trees},
                  ledgers : {e.ledgers}]
            F == [i \in 1..m |-> [x \in X |-> Op(x, i)]]
            Q(h) == h = [S \in SUBSET (DOMAIN s) |->
                           IF S = {} THEN b ELSE LET i == Max(S) IN Op(h[S \ {i}], i)]
            h == CHOOSE h : Q(h)
<1>1. Claims(e, d, t, s) = h[DOMAIN s]
  BY DEF Claims, FoldLeft, MapThenFoldSet
<1>2. b \in X
  <2>1. e.events \in Seq(V2) /\ e.mail \in Seq(M2)
    <3>1. V \subseteq V2 /\ M \subseteq M2
      OBVIOUS
    <3>. HIDE DEF V2, M2
    <3>. QED BY <1>a, <1>b, <3>1
  <2>. HIDE DEF V2, M2
  <2>. QED BY <2>1 DEF Shape
<1>2a. \A i \in 1..m : \A x \in X : Op(x, i) \in X
  <2>. SUFFICES ASSUME NEW i \in 1..m, NEW x \in X
                PROVE  ConsumptionOf(x, d, t, s[i]) \in X
    OBVIOUS
  <2>0. Listed(e.leases) /\ Listed(e.trees) /\ Listed(e.ledgers)
    BY DEF Shape, Numbered
  <2>0a. x.leases = e.leases /\ x.trees = e.trees /\ x.ledgers = e.ledgers
    OBVIOUS
  <2>1. PICK v : /\ v = ClaimEvent(d, t, s[i]) /\ v.msg = s[i]
                 /\ ConsumptionOf(x, d, t, s[i]) = Claimed(e, x, v)
    BY <2>0, <2>0a, ConsumptionIs
  <2>2. v \in V2 /\ s[i] \in M2
    BY <2>1
  <2>. HIDE DEF V2, M2
  <2>3. Append(x.events, v) \in Seq(V2) /\ x.mail \in Seq(M2) /\ Append(x.mail, s[i]) \in Seq(M2)
    BY <2>2
  <2>. QED BY <2>1, <2>3 DEF Claimed
<1>. HIDE DEF X, b, Op
<1>3. \E g : Q(g)
  <2>1. \A i \in 1..m : \A x \in X : F[i][x] = Op(x, i) /\ F[i][x] \in X
    BY <1>2a
  <2>. HIDE DEF F
  <2>3. PICK g \in [SUBSET (1..m) -> X] : FoldsTo(g, F, b, m)
    BY <1>2, <2>1, FoldsExist
  <2>3a. g \in [SUBSET (1..m) -> X] /\ g = [S \in SUBSET (1..m) |-> FoldStep(g, F, b, S)]
    BY <2>3 DEF FoldsTo
  <2>4. ASSUME NEW S \in SUBSET (1..m)
        PROVE  FoldStep(g, F, b, S) = (IF S = {} THEN b ELSE LET i == Max(S) IN Op(g[S \ {i}], i))
    <3>1. CASE S # {}
      <4>1. LastOf(S) \in 1..m /\ Max(S) = LastOf(S)
        BY <3>1, LastIn
      <4>2. g[S \ {LastOf(S)}] \in X
        BY <2>3a
      <4>. QED BY <2>1, <3>1, <4>1, <4>2 DEF FoldStep
    <3>. QED BY <3>1 DEF FoldStep
  <2>5. [S \in SUBSET (1..m) |-> FoldStep(g, F, b, S)]
      = [S \in SUBSET (1..m) |-> IF S = {} THEN b ELSE LET i == Max(S) IN Op(g[S \ {i}], i)]
    BY <2>4
  <2>6. Q(g)
    BY <2>3a, <2>5
  <2>. HIDE DEF Q
  <2>. QED BY <2>6
<1>4. Q(h)
  <2>. HIDE DEF Q
  <2>. QED BY <1>3
<1>. HIDE DEF h
<1>5. h[{}] = b
  BY <1>4
<1>6. ASSUME NEW S \in SUBSET (1..m), S # {}
      PROVE  h[S] = Op(h[S \ {LastOf(S)}], LastOf(S))
  <2>1. Max(S) = LastOf(S)
    BY <1>6, LastIn
  <2>. QED BY <1>4, <1>6, <2>1
<1>7. DOMAIN s = 1..m
  OBVIOUS
<1>8. ClaimsOf(h, e, d, t, s, m)
  BY <1>1, <1>5, <1>6, <1>7 DEF ClaimsOf, Op, b
<1>. QED BY <1>8

\* The store with these approvals consumed as well.
Holding(d, S) == [d EXCEPT !.consumed = d.consumed \cup S]

\* It differs in the approvals consumed alone.
LEMMA HoldingIs ==
  ASSUME NEW d, StoreType(d), NEW S, NEW e, e = Holding(d, S)
  PROVE  /\ e.task = d.task /\ e.lease = d.lease /\ e.tree = d.tree /\ e.caps = d.caps
         /\ e.reserved = d.reserved /\ e.used = d.used
         /\ e.consumed = d.consumed \cup S
BY DEF Holding, StoreType

\* The event of a consumption tells that the approval is consumed.
LEMMA ClaimTold ==
  ASSUME NEW g, NEW d, StoreType(d), Rows(d), NEW S, NEW S2, NEW m, S2 = S \cup {m},
         NEW t \in Tasks, Tells(g, Holding(d, S))
  PROVE  Tells(ConsumptionOf(g, d, t, m), Holding(d, S2))
<1>. DEFINE v == ClaimEvent(d, t, m)
            n == Len(g.events) + 1
<1>1. v.msg = m /\ v.cause = "approval-consumed" /\ v.task = t /\ v.after = d.task[t]
  BY DEF ClaimEvent, Event, Blank
<1>2. ConsumptionOf(g, d, t, m) = Wrote(g, d, d, v)
  BY DEF ConsumptionOf, ClaimEvent
<1>. HIDE DEF v
<1>3. PICK d1 : d1 = Holding(d, S)
  OBVIOUS
<1>4. PICK d2 : d2 = Holding(d, S2)
  OBVIOUS
<1>5. /\ d1.task = d.task /\ d1.lease = d.lease /\ d1.tree = d.tree /\ d1.caps = d.caps
      /\ d1.reserved = d.reserved /\ d1.used = d.used /\ d1.consumed = d.consumed \cup S
  BY <1>3, HoldingIs
<1>6. /\ d2.task = d.task /\ d2.lease = d.lease /\ d2.tree = d.tree /\ d2.caps = d.caps
      /\ d2.reserved = d.reserved /\ d2.used = d.used /\ d2.consumed = d.consumed \cup S2
  BY <1>4, HoldingIs
<1>7. Rows(d1) /\ Rows(d2)
  BY <1>5, <1>6 DEF Rows, Held
<1>8. Wrote(g, d1, d2, v) = Wrote(g, d, d, v)
  BY <1>5, <1>6 DEF Wrote, LeaseRowsOf, TreeRowsOf, LedgerRowsOf, Held, TreeStatus
<1>9. Follows(d1, d2, v)
  BY <1>1, <1>5, <1>6, NullAssumption DEF Follows, CapStep
<1>10. Tells(Wrote(g, d1, d2, v), d2)
  BY <1>3, <1>7, <1>9, WroteTells
<1>. QED BY <1>2, <1>4, <1>8, <1>10

\* And the events of all of them that all are.
LEMMA ClaimsTell ==
  ASSUME NEW e, NEW d, StoreType(d), Rows(d), Tells(e, d), NEW t \in Tasks,
         NEW S, IsFiniteSet(S)
  PROVE  Tells(Claims(e, d, t, SetToSeq(S)), Holding(d, S))
<1>. DEFINE m == Cardinality(S)
            s == SetToSeq(S)
<1>1. m \in Nat /\ s \in Surjection(1..m, S)
  BY ListedSet
<1>. HIDE DEF m, s
<1>2. /\ s \in [1..m -> S] /\ \A x \in S : \E i \in 1..m : s[i] = x
      /\ DOMAIN s = 1..m
  BY <1>1 DEF Surjection
<1>3. Shape(e)
  BY DEF Tells
<1>4a. PICK h : ClaimsOf(h, e, d, t, s, m)
  BY <1>1, <1>2, <1>3, ClaimsFold
<1>4. /\ h[{}] = e
      /\ \A I \in SUBSET (1..m) : I # {} =>
           h[I] = ConsumptionOf(h[I \ {LastOf(I)}], d, t, s[LastOf(I)])
      /\ Claims(e, d, t, s) = h[1..m]
  BY <1>4a DEF ClaimsOf
<1>. DEFINE Of(I) == {s[i] : i \in I}
            P == [I \in SUBSET (1..m) |-> IF Tells(h[I], Holding(d, Of(I))) THEN {h[I]} ELSE {}]
<1>5. h[{}] \in P[{}]
  <2>0. PICK N : N = {}
    OBVIOUS
  <2>1. PICK d2 : d2 = Holding(d, N)
    OBVIOUS
  <2>2. Of({}) = N
    BY <2>0
  <2>3. RowsOf(d2) = RowsOf(d)
    <3>1. /\ d2.task = d.task /\ d2.lease = d.lease /\ d2.tree = d.tree /\ d2.caps = d.caps
          /\ d2.reserved = d.reserved /\ d2.used = d.used
          /\ d2.consumed = d.consumed \cup N
      BY <2>1, HoldingIs
    <3>. QED BY <2>0, <3>1 DEF RowsOf
  <2>4. Tells(e, d2)
    BY <2>3, TellsSame
  <2>. QED BY <1>4, <2>1, <2>2, <2>4
<1>6. ASSUME NEW I \in SUBSET (1..m), I # {}, h[I \ {LastOf(I)}] \in P[I \ {LastOf(I)}]
      PROVE  h[I] \in P[I]
  <2>. DEFINE k == LastOf(I)
              J == I \ {k}
  <2>1. k \in I
    BY <1>1, <1>6, LastIn
  <2>2. J \in SUBSET (1..m)
    OBVIOUS
  <2>3. Tells(h[J], Holding(d, Of(J)))
    BY <1>6, <2>2
  <2>4. Of(I) = Of(J) \cup {s[k]}
    BY <2>1
  <2>5. h[I] = ConsumptionOf(h[J], d, t, s[k])
    BY <1>4, <1>6
  <2>. HIDE DEF J, k, Of
  <2>6. Tells(ConsumptionOf(h[J], d, t, s[k]), Holding(d, Of(I)))
    BY <2>3, <2>4, ClaimTold
  <2>. QED BY <2>5, <2>6
<1>7. h[1..m] \in P[1..m]
  <2>. HIDE DEF P
  <2>. QED BY <1>1, <1>5, <1>6, FoldHolds
<1>8. Of(1..m) = S
  BY <1>2
<1>9. 1..m \in SUBSET (1..m)
  OBVIOUS
<1>. HIDE DEF Of
<1>10. Tells(h[1..m], Holding(d, Of(1..m)))
  BY <1>7, <1>9
<1>. QED BY <1>4, <1>8, <1>10 DEF s

\* Hence a dispatch is told: the consumptions first, then the intent.
LEMMA IntentTold ==
  ASSUME NEW e, NEW d, NEW d2, StoreType(d), Rows(d), Rows(d2), Tells(e, d), NEW t \in Tasks,
         \A u \in Tasks \ {t} : d2.task[u] = d.task[u] /\ d2.lease[u] = d.lease[u],
         d2.tree = d.tree, d2.caps = d.caps,
         d.consumed \subseteq d2.consumed, IsFiniteSet(d2.consumed \ d.consumed)
  PROVE  Tells(IntentLog(e, d, d2, t), d2)
<1>. DEFINE S == d2.consumed \ d.consumed
            g == Claims(e, d, t, SetToSeq(S))
            id == d2.lease[t].id
            sent == CHOOSE m \in Adopted(d2, "dispatch_intent", id) : TRUE
            slots == IF d.task[t].state = "ready" THEN 1 ELSE 0
            v == [Event("dispatch-intent", t, d, d2) EXCEPT
                    !.lease = id, !.msg = sent,
                    !.deltas = [Deltas(sent.say.reservation, slots, 0)
                                  EXCEPT !["dispatches"] = 1]]
<1>1. IntentLog(e, d, d2, t) = Wrote(g, d, d2, v)
  BY DEF IntentLog, Claims
<1>2. v.task = t /\ v.after = d2.task[t] /\ v.cause = "dispatch-intent"
  BY DEF Event, Blank
<1>3. IsFiniteSet(S) /\ d2.consumed = d.consumed \cup S
  OBVIOUS
<1>. HIDE DEF S, v
<1>4. Tells(g, Holding(d, S))
  BY <1>3, ClaimsTell
<1>5. PICK c : c = Holding(d, S)
  OBVIOUS
<1>6. /\ c.task = d.task /\ c.lease = d.lease /\ c.tree = d.tree /\ c.caps = d.caps
      /\ c.reserved = d.reserved /\ c.used = d.used /\ c.consumed = d.consumed \cup S
  BY <1>5, HoldingIs
<1>7. Rows(c)
  BY <1>6 DEF Rows, Held
<1>. HIDE DEF g
<1>8. Wrote(g, c, d2, v) = Wrote(g, d, d2, v)
  BY <1>6 DEF Wrote, LeaseRowsOf, TreeRowsOf, LedgerRowsOf, Held, TreeStatus
<1>9. Touches(c, d2, t)
  BY <1>3, <1>6 DEF Touches
<1>10. Tells(Wrote(g, c, d2, v), d2)
  BY <1>2, <1>4, <1>5, <1>6, <1>7, <1>9, TaskTold
<1>. QED BY <1>1, <1>8, <1>10

\* What consuming approvals and sending a dispatch intent leave alone.
LEMMA SentRows ==
  ASSUME NEW d, StoreType(d), NEW t \in Tasks, NEW id, NEW e,
         e = Intent(Consumed(d, t, id, now), t, id, now)
  PROVE  /\ e.task = d.task /\ e.lease = d.lease /\ e.tree = d.tree /\ e.caps = d.caps
         /\ d.consumed \subseteq e.consumed
         /\ IsFiniteSet(e.consumed \ d.consumed)
<1>. DEFINE S == {CHOOSE m \in Grants(d, t, id, stop, now) : TRUE : stop \in ApprovalStops[t]}
            c == Consumed(d, t, id, now)
<1>1. IsFiniteSet(S)
  BY ConsumedFew
<1>2. c = [d EXCEPT !.consumed = d.consumed \cup S]
  BY DEF Consumed
<1>. HIDE DEF S, c
<1>3. /\ c.task = d.task /\ c.lease = d.lease /\ c.tree = d.tree /\ c.caps = d.caps
      /\ c.consumed = d.consumed \cup S /\ DOMAIN c = DOMAIN d
  BY <1>2 DEF StoreType
<1>4. /\ e.task = c.task /\ e.lease = c.lease /\ e.tree = c.tree /\ e.caps = c.caps
      /\ e.consumed = c.consumed
  BY <1>3 DEF Intent, StoreType, c
<1>5. e.consumed \ d.consumed \in SUBSET S
  BY <1>3, <1>4
<1>6. IsFiniteSet(e.consumed \ d.consumed)
  BY <1>1, <1>5, FS_Subset
<1>. QED BY <1>3, <1>4, <1>6

\* The three ways a dispatch resumes once its worktree is there.
LEMMA ResumedRows ==
  ASSUME NEW d, StoreType(d), NEW t \in Tasks, NEW e, e = Resumed(d, t, now),
         d.task[t].state = "running", d.task[t].outcome = "none"
  PROVE  /\ \A u \in Tasks \ {t} : e.task[u] = d.task[u]
         /\ e.lease = d.lease /\ e.tree = d.tree /\ e.caps = d.caps
         /\ e.task[t].state = "running" /\ e.task[t].outcome = "none"
         /\ d.consumed \subseteq e.consumed /\ IsFiniteSet(e.consumed \ d.consumed)
         /\ ~(BudgetAllows(d, t, 0) /\ Approved(d, t, d.lease[t].id, now)) =>
              e.consumed = d.consumed
<1>. DEFINE id == d.lease[t].id
<1>0. d.task[t] \in TaskRows
  BY DEF StoreType
<1>1. CASE ~BudgetAllows(d, t, 0)
  <2>1. e = Moved(d, t, "running", "not_dispatched", "none", {"budget-exhausted"})
    BY <1>1 DEF Resumed
  <2>2. /\ Touches(d, e, t) /\ e.tree = d.tree /\ e.lease = d.lease
        /\ e.task[t].state = "running" /\ e.task[t].outcome = "none"
    BY <2>1, MovedTouches
  <2>3. e.consumed \ d.consumed = {}
    BY <2>2 DEF Touches
  <2>. QED BY <2>2, <2>3, FS_EmptySet DEF Touches
<1>2. CASE BudgetAllows(d, t, 0) /\ ~Approved(d, t, id, now)
  <2>. DEFINE row == [d.task[t] EXCEPT !.blockers = {"approval-required"}]
  <2>1. row.state = "running" /\ row.outcome = "none"
    BY <1>0 DEF TaskRows
  <2>2. e = [d EXCEPT !.task = [d.task EXCEPT ![t] = row]]
    BY <1>2 DEF Resumed, StoreType
  <2>. HIDE DEF row
  <2>3. /\ e.task = [d.task EXCEPT ![t] = row] /\ e.lease = d.lease /\ e.tree = d.tree
        /\ e.caps = d.caps /\ e.consumed = d.consumed
    BY <2>2 DEF StoreType
  <2>4. e.task[t] = row /\ \A u \in Tasks \ {t} : e.task[u] = d.task[u]
    BY <2>3 DEF StoreType
  <2>5. e.consumed \ d.consumed = {}
    BY <2>3
  <2>. QED BY <2>1, <2>3, <2>4, <2>5, FS_EmptySet
<1>3. CASE BudgetAllows(d, t, 0) /\ Approved(d, t, id, now)
  <2>. DEFINE row == [d.task[t] EXCEPT !.phase = "intent_pending", !.blockers = {}]
              p == [d EXCEPT !.task[t].phase = "intent_pending", !.task[t].blockers = {}]
  <2>1. row.state = "running" /\ row.outcome = "none" /\ row \in TaskRows
    BY <1>0 DEF TaskRows, Phases
  <2>2. p = [d EXCEPT !.task = [d.task EXCEPT ![t] = row]]
    BY DEF StoreType
  <2>3. e = Intent(Consumed(p, t, id, now), t, id, now)
    BY <1>3 DEF Resumed
  <2>. HIDE DEF row, p
  <2>4. /\ p.task = [d.task EXCEPT ![t] = row] /\ p.lease = d.lease /\ p.tree = d.tree
        /\ p.caps = d.caps /\ p.consumed = d.consumed
    BY <2>2 DEF StoreType
  <2>5. StoreType(p)
    BY <2>1, <2>2 DEF StoreType
  <2>6. p.task[t] = row /\ \A u \in Tasks \ {t} : p.task[u] = d.task[u]
    BY <2>4 DEF StoreType
  <2>7. /\ e.task = p.task /\ e.lease = p.lease /\ e.tree = p.tree /\ e.caps = p.caps
        /\ p.consumed \subseteq e.consumed
        /\ IsFiniteSet(e.consumed \ p.consumed)
    BY <2>3, <2>5, SentRows
  <2>. QED BY <1>3, <2>1, <2>4, <2>6, <2>7
<1>. QED BY <1>1, <1>2, <1>3

\* Whichever it is, the events tell it.
LEMMA ResumeTold ==
  ASSUME NEW e, NEW d, StoreType(d), Rows(d), Tells(e, d), NEW t \in Tasks, Held(d, t),
         now \in Nat, d.task[t].state = "running", d.task[t].outcome = "none",
         d.task[t].phase = "not_dispatched",
         NEW d2, d2 = Resumed(d, t, now)
  PROVE  Tells(ResumeLog(e, d, t), d2)
<1>. DEFINE id == d.lease[t].id
<1>1. /\ \A u \in Tasks \ {t} : d2.task[u] = d.task[u]
      /\ d2.lease = d.lease /\ d2.tree = d.tree /\ d2.caps = d.caps
      /\ d2.task[t].state = "running" /\ d2.task[t].outcome = "none"
      /\ d.consumed \subseteq d2.consumed /\ IsFiniteSet(d2.consumed \ d.consumed)
      /\ ~(BudgetAllows(d, t, 0) /\ Approved(d, t, d.lease[t].id, now)) =>
           d2.consumed = d.consumed
  BY ResumedRows
<1>2. StoreType(d2)
  BY ResumedType
<1>3. Rows(d2)
  <2>1. TaskRows \subseteq Projections
    BY DEF TaskRows, Projections
  <2>. QED BY <1>1, <1>2, <2>1 DEF Rows, StoreType, Held
<1>4. ASSUME NEW cause, NEW reason, cause # "approval-consumed",
             cause # "capability-observed", cause # "worktree-observed",
             d2.consumed = d.consumed
      PROVE  Tells(Wrote(e, d, d2, [Event(cause, t, d, d2) EXCEPT !.lease = id,
                                                                  !.reason = reason]), d2)
  <2>. DEFINE v == [Event(cause, t, d, d2) EXCEPT !.lease = id, !.reason = reason]
  <2>1. v.task = t /\ v.after = d2.task[t] /\ v.cause = cause
    BY DEF Event, Blank
  <2>. HIDE DEF v
  <2>2. Touches(d, d2, t)
    BY <1>1, <1>4 DEF Touches
  <2>3. Tells(Wrote(e, d, d2, v), d2)
    BY <1>1, <1>3, <1>4, <2>1, <2>2, TaskTold
  <2>. QED BY <2>3 DEF v
<1>5. CASE ~BudgetAllows(d, t, 0)
  <2>1. d2.consumed = d.consumed
    BY <1>1, <1>5
  <2>2. CASE d.task[t].blockers = {"budget-exhausted"}
    <3>1. d.task[t] \in TaskRows
      BY DEF StoreType
    <3>2. d2 = Moved(d, t, "running", "not_dispatched", "none", {"budget-exhausted"})
      BY <1>5 DEF Resumed
    <3>. DEFINE row == [d.task[t] EXCEPT !.state = "running", !.phase = "not_dispatched",
                                         !.outcome = "none", !.blockers = {"budget-exhausted"}]
    <3>3. row = d.task[t]
      BY <2>2, <3>1 DEF TaskRows
    <3>4. d2 = [d EXCEPT !.task = [d.task EXCEPT ![t] = row]]
      BY <3>2 DEF Moved, StoreType
    <3>. HIDE DEF row
    <3>5. [d.task EXCEPT ![t] = row] = d.task
      BY <3>3 DEF StoreType
    <3>6. /\ d2.task = d.task /\ d2.lease = d.lease /\ d2.tree = d.tree /\ d2.caps = d.caps
          /\ d2.reserved = d.reserved /\ d2.used = d.used /\ d2.consumed = d.consumed
      BY <3>4, <3>5 DEF StoreType
    <3>7. RowsOf(d) = RowsOf(d2)
      BY <3>6 DEF RowsOf
    <3>8. ResumeLog(e, d, t) = e
      BY <1>5, <2>2 DEF ResumeLog
    <3>. QED BY <3>7, <3>8, TellsSame
  <2>3. CASE d.task[t].blockers # {"budget-exhausted"}
    <3>1. ResumeLog(e, d, t) =
            Wrote(e, d, d2, [Event("dispatch-budget-blocked", t, d, d2) EXCEPT
                               !.lease = id, !.reason = "budget-exhausted"])
      BY <1>5, <2>3 DEF ResumeLog
    <3>. QED BY <1>4, <2>1, <3>1
  <2>. QED BY <2>2, <2>3
<1>6. CASE BudgetAllows(d, t, 0) /\ ~Approved(d, t, id, now)
  <2>1. d2.consumed = d.consumed
    BY <1>1, <1>6
  <2>2. ResumeLog(e, d, t) =
          Wrote(e, d, d2, [Event("dispatch-approval-blocked", t, d, d2) EXCEPT
                             !.lease = id, !.reason = "approval-required"])
    BY <1>6 DEF ResumeLog
  <2>. QED BY <1>4, <2>1, <2>2
<1>7. CASE BudgetAllows(d, t, 0) /\ Approved(d, t, id, now)
  <2>1. ResumeLog(e, d, t) = IntentLog(e, d, d2, t)
    BY <1>7 DEF ResumeLog
  <2>2. \A u \in Tasks \ {t} : d2.task[u] = d.task[u] /\ d2.lease[u] = d.lease[u]
    BY <1>1
  <2>3. Tells(IntentLog(e, d, d2, t), d2)
    BY <1>1, <1>3, <2>2, IntentTold
  <2>. QED BY <2>1, <2>3
<1>. QED BY <1>5, <1>6, <1>7

-----------------------------------------------------------------------------
\* The handlers, one by one: the open transaction's evidence tells of its rows.

Told == Tells(log, db) /\ Steady(db)

\* What a proposal that expires leaves.
LEMMA ProposalTold ==
  ASSUME AuthorityInv, Rows(db'), Told, NEW t \in Tasks, ProposalExpires(t),
         log' = Wrote(log, db, db',
                      [Event("approval-proposal-expired", t, db, db') EXCEPT
                         !.lease = db.lease[t].id,
                         !.reason = "approval-proposal-expired"])
  PROVE  Told'
<1>1. PICK d : d = db'
  OBVIOUS
<1>2. /\ StoreType(db) /\ Rows(db) /\ Rows(d) /\ Tells(log, db) /\ Steady(db)
  BY <1>1, RowsHold DEF AuthorityInv, TypeInv, Told
<1>3. d = Withdrawn(db, t)
  BY <1>1 DEF ProposalExpires, Record
<1>4. Touches(db, d, t) /\ d.tree[t] = "none" /\ d.task[t].state = "ready"
  BY <1>2, <1>3, WithdrawnTouches
<1>5. Steady(d)
  BY <1>2, <1>4, TouchesSteady
<1>. DEFINE v == [Event("approval-proposal-expired", t, db, d) EXCEPT
                    !.lease = db.lease[t].id, !.reason = "approval-proposal-expired"]
<1>6. v.task = t /\ v.after = d.task[t] /\ v.cause = "approval-proposal-expired"
  BY DEF Event, Blank
<1>7. log' = Wrote(log, db, d, v)
  BY <1>1
<1>. HIDE DEF v
<1>8. Tells(Wrote(log, db, d, v), d)
  BY <1>2, <1>4, <1>6, TaskTold
<1>. QED BY <1>1, <1>5, <1>7, <1>8 DEF Told

\* And a Lease.
LEMMA LapseTold ==
  ASSUME AuthorityInv, Rows(db'), Told, NEW t \in Tasks, LeaseExpires(t),
         log' = Wrote(log, db, db', Ends("lease-expired", t, db, db', None,
                                         Outstanding(db, db.lease[t].id)))
  PROVE  Told'
<1>1. PICK d : d = db'
  OBVIOUS
<1>2. /\ StoreType(db) /\ Rows(db) /\ Rows(d) /\ Tells(log, db) /\ Steady(db)
  BY <1>1, RowsHold DEF AuthorityInv, TypeInv, Told
<1>3. PICK out : out = Outstanding(db, db.lease[t].id)
  OBVIOUS
<1>4. out \in [AttemptResources -> Int]
  BY <1>2, <1>3, ReservedType
<1>5. \E reason : \/ d = Retried(Closed(db, t, out), t, reason)
                  \/ d = Quarantined(Closed(db, t, out), t, reason)
  BY <1>1, <1>3 DEF LeaseExpires, Record
<1>6. Touches(db, d, t) /\ d.tree[t] = "none" /\ d.task[t].state # "running"
  BY <1>2, <1>4, <1>5, EndedTouches
<1>7. Steady(d)
  BY <1>2, <1>6, TouchesSteady
<1>8. log' = Wrote(log, db, d, Ends("lease-expired", t, db, d, None, out))
  BY <1>1, <1>3
<1>9. Tells(Wrote(log, db, d, Ends("lease-expired", t, db, d, None, out)), d)
  BY <1>2, <1>6, EndsTold
<1>. QED BY <1>1, <1>7, <1>8, <1>9 DEF Told

\* The expiry pass moves a task in one of those two ways.
LEMMA ExpiryTold ==
  ASSUME AuthorityInv, Rows(db'), Told, NEW t \in Tasks, ExpireLogged(t)
  PROVE  Told'
BY ProposalTold, LapseTold DEF ExpireLogged

\* What a message does that only leaves a note.
LEMMA NotesTold ==
  ASSUME AuthorityInv, Rows(db'), Told, NEW m \in Messages, Redelivered(m) \/ Reject(m),
         NEW cause, NEW reason, cause \in {"duplicate-message", "message-rejected"},
         log' = Wrote(log, db, db, [Note(cause, m, db) EXCEPT !.reason = reason])
  PROVE  Told'
<1>1. PICK d : d = db'
  OBVIOUS
<1>2. /\ StoreType(db) /\ Rows(db) /\ Rows(d) /\ Tells(log, db) /\ Steady(db)
  BY <1>1, RowsHold DEF AuthorityInv, TypeInv, Told
<1>3. d = db \/ d = [db EXCEPT !.rejected = db.rejected \cup {m}]
  BY <1>1 DEF Redelivered, Reject
<1>4. /\ d.task = db.task /\ d.lease = db.lease /\ d.tree = db.tree
      /\ d.reserved = db.reserved /\ d.used = db.used
      /\ d.consumed = db.consumed /\ d.caps = db.caps
  BY <1>2, <1>3 DEF StoreType
<1>. DEFINE v == [Note(cause, m, db) EXCEPT !.reason = reason]
<1>5. /\ v.task = Note(cause, m, db).task /\ v.after = Note(cause, m, db).after
      /\ v.lease = Note(cause, m, db).lease /\ v.cause = cause
  BY DEF Note, Blank
<1>. HIDE DEF v
<1>6. Tells(Wrote(log, db, db, v), db)
  BY <1>2, <1>5, NoteTold
<1>7. RowsOf(db) = RowsOf(d)
  BY <1>4 DEF RowsOf
<1>8. Tells(Wrote(log, db, db, v), d)
  BY <1>6, <1>7, TellsSame
<1>9. Steady(d)
  BY <1>2, <1>4 DEF Steady
<1>. QED BY <1>1, <1>8, <1>9 DEF Told, v

\* A capability observation is a note that teaches the capabilities of its sender.
LEMMA CapabilityTold ==
  ASSUME AuthorityInv, Rows(db'), Told, NEW m \in Messages, CapabilityObserved(m),
         log' = Wrote(log, db, db', [Note("capability-observed", m, db) EXCEPT
                                       !.actor = m.sender])
  PROVE  Told'
<1>1. PICK d : d = db'
  OBVIOUS
<1>2. /\ StoreType(db) /\ Rows(db) /\ Rows(d) /\ Tells(log, db) /\ Steady(db)
  BY <1>1, RowsHold DEF AuthorityInv, TypeInv, Told
<1>3. m.say.type \in HostTypes /\ StoreType(Received(m))
  BY <1>2, AdoptingType, ReceivedType DEF CapabilityObserved, Capability, HostTypes
<1>4. PICK r : r = Received(m)
  OBVIOUS
<1>5. d = [r EXCEPT !.caps = [r.caps EXCEPT ![m.sender] = m.say.caps],
                    !.registered = r.registered \cup {m.sender}]
  BY <1>1, <1>3, <1>4 DEF CapabilityObserved, StoreType
<1>6. /\ d.task = r.task /\ d.lease = r.lease /\ d.tree = r.tree
      /\ d.consumed = r.consumed /\ d.caps = [r.caps EXCEPT ![m.sender] = m.say.caps]
  BY <1>3, <1>4, <1>5 DEF StoreType
<1>7. /\ d.task = db.task /\ d.lease = db.lease /\ d.tree = db.tree
      /\ d.consumed = db.consumed /\ d.caps = [db.caps EXCEPT ![m.sender] = m.say.caps]
  BY <1>2, <1>4, <1>6 DEF Received, StoreType
<1>. DEFINE v == [Note("capability-observed", m, db) EXCEPT !.actor = m.sender]
<1>8. v.cause = "capability-observed" /\ v.msg = m
  BY DEF Note, Blank
<1>9. \/ v.task = NoLease /\ v.after = NoLease
      \/ v.task \in Tasks /\ v.after = db.task[v.task]
  <2>1. CASE m.lid = NoLease
    BY <2>1 DEF Note, Blank, None
  <2>2. CASE m.lid # NoLease
    <3>1. m.lid \in LeaseIds
      BY <2>2 DEF Messages
    <3>2. m.lid.task \in Tasks
      BY <3>1 DEF LeaseIds
    <3>. QED BY <2>2, <3>2 DEF Note, Blank
  <2>. QED BY <2>1, <2>2
<1>10. log' = Wrote(log, db, d, v)
  BY <1>1
<1>. HIDE DEF v
<1>11. Follows(db, d, v)
  BY <1>7, <1>8, <1>9, NullAssumption DEF Follows, CapStep
<1>12. Tells(Wrote(log, db, d, v), d)
  BY <1>2, <1>11, WroteTells
<1>13. Steady(d)
  BY <1>2, <1>7 DEF Steady
<1>. QED BY <1>1, <1>10, <1>12, <1>13 DEF Told

\* Every message that only leaves a note keeps what is told.
LEMMA EveryNoteTold ==
  ASSUME AuthorityInv, Rows(db'), Told, NEW m \in Messages, NoteLogged(m)
  PROVE  Told'
BY NotesTold, CapabilityTold DEF NoteLogged

\* And its task still runs without an outcome.
LEMMA ResumedSteady ==
  ASSUME NEW d, StoreType(d), NEW t \in Tasks, NEW e, e = Resumed(d, t, now),
         d.task[t].state = "running", d.task[t].outcome = "none", Steady(d)
  PROVE  Steady(e)
<1>1. /\ \A u \in Tasks \ {t} : e.task[u] = d.task[u]
      /\ e.lease = d.lease /\ e.tree = d.tree /\ e.caps = d.caps
      /\ e.task[t].state = "running" /\ e.task[t].outcome = "none"
      /\ d.consumed \subseteq e.consumed /\ IsFiniteSet(e.consumed \ d.consumed)
      /\ ~(BudgetAllows(d, t, 0) /\ Approved(d, t, d.lease[t].id, now)) =>
           e.consumed = d.consumed
  BY ResumedRows
<1>. QED BY <1>1 DEF Steady

\* A message received moves no row, and its task still holds its Lease.
LEMMA ReceivedRows ==
  ASSUME AuthorityInv, NEW m, Adopting(m), ~Capability(m), NEW r, r = Received(m),
         NEW t, t = m.lid.task
  PROVE  /\ StoreType(r) /\ RowsOf(r) = RowsOf(db) /\ Rows(db) /\ Rows(r)
         /\ r.task = db.task /\ r.lease = db.lease /\ r.tree = db.tree
         /\ r.consumed = db.consumed /\ r.caps = db.caps
         /\ r.reserved = db.reserved /\ r.used = db.used
         /\ m \in Messages /\ m.lid \in LeaseIds /\ t \in Tasks
         /\ Held(r, t) /\ Held(db, t) /\ db.lease[t].id = m.lid
         /\ db.tree[t] # "none" => db.task[t].state = "running"
<1>1. /\ m \in Messages /\ StoreType(r) /\ m.lid \in LeaseIds /\ t \in Tasks
      /\ Held(db, t) /\ db.lease[t].id = m.lid /\ Held(r, t)
  BY AdoptingType DEF AuthorityInv
<1>2. StoreType(db) /\ Sound(db)
  BY DEF AuthorityInv, TypeInv
<1>3. /\ r.task = db.task /\ r.lease = db.lease /\ r.tree = db.tree
      /\ r.consumed = db.consumed /\ r.caps = db.caps
      /\ r.reserved = db.reserved /\ r.used = db.used
  BY <1>2 DEF Received, StoreType
<1>4. Rows(db)
  BY <1>2, RowsHold
<1>5. Rows(r)
  BY <1>3, <1>4 DEF Rows, Held
<1>6. db.tree[t] # "none" => db.task[t].state = "running"
  BY <1>1, <1>2 DEF Sound, AuthorityAt
<1>. QED BY <1>1, <1>3, <1>4, <1>5, <1>6 DEF RowsOf

\* An approval is noted, and may resume a dispatch.
LEMMA ApprovalTold ==
  ASSUME AuthorityInv, Rows(db'), Told, NEW m \in Messages, ApprovalLogged(m)
  PROVE  Told'
<1>1. PICK d : d = db'
  OBVIOUS
<1>2. PICK r : r = Received(m)
  OBVIOUS
<1>3. PICK t : t = m.lid.task
  OBVIOUS
<1>4. Adopting(m) /\ ~Capability(m) /\ Tells(log, db) /\ Steady(db) /\ now \in Nat
  BY DEF ApprovalLogged, ApprovalReceived, Approval, Capability, Told, AuthorityInv, TypeInv
<1>5. /\ StoreType(r) /\ RowsOf(r) = RowsOf(db) /\ Rows(db) /\ Rows(r)
      /\ r.task = db.task /\ r.tree = db.tree /\ t \in Tasks /\ Held(r, t)
      /\ db.tree[t] # "none" => db.task[t].state = "running"
  BY <1>2, <1>3, <1>4, ReceivedRows
<1>. DEFINE v == [Note("approval-received", m, db) EXCEPT !.actor = m.sender]
            e == Wrote(log, db, r, v)
<1>6. /\ v.task = Note("approval-received", m, db).task
      /\ v.after = Note("approval-received", m, db).after
      /\ v.lease = Note("approval-received", m, db).lease /\ v.cause = "approval-received"
  BY DEF Note, Blank
<1>7. /\ d = IF r.tree[t] = "observed" /\ r.task[t].phase = "not_dispatched"
               THEN Resumed(r, t, now) ELSE r
      /\ log' = IF r.tree[t] = "observed" /\ r.task[t].phase = "not_dispatched"
                  THEN ResumeLog(e, r, t) ELSE e
  BY <1>1, <1>2, <1>3 DEF ApprovalLogged, ApprovalReceived
<1>. HIDE DEF v
<1>8. Tells(e, r)
  BY <1>4, <1>5, <1>6, NoteTold
<1>9. Steady(r)
  BY <1>4, <1>5 DEF Steady
<1>. HIDE DEF e
<1>10. CASE r.tree[t] = "observed" /\ r.task[t].phase = "not_dispatched"
  <2>1. /\ r.task[t].state = "running" /\ r.task[t].outcome = "none"
        /\ r.task[t].phase = "not_dispatched" /\ d = Resumed(r, t, now)
        /\ log' = ResumeLog(e, r, t)
    BY <1>5, <1>7, <1>9, <1>10 DEF Steady
  <2>2. Tells(ResumeLog(e, r, t), d)
    BY <1>4, <1>5, <1>8, <2>1, ResumeTold
  <2>3. Steady(d)
    BY <1>5, <1>9, <2>1, ResumedSteady
  <2>. QED BY <1>1, <2>1, <2>2, <2>3 DEF Told
<1>11. CASE ~(r.tree[t] = "observed" /\ r.task[t].phase = "not_dispatched")
  BY <1>1, <1>7, <1>8, <1>9, <1>11 DEF Told
<1>. QED BY <1>10, <1>11

\* An accepted dispatch moves the phase of its task.
LEMMA AcceptedTold ==
  ASSUME AuthorityInv, Rows(db'), Told, NEW m \in Messages, DispatchAccepted(m),
         NEW t, t = m.lid.task, NEW deltas,
         log' = Wrote(log, db, db', [Event("dispatch-accepted", t, db, db') EXCEPT
                                       !.actor = m.sender, !.lease = m.lid,
                                       !.msg = m, !.deltas = deltas])
  PROVE  Told'
<1>1. PICK d : d = db'
  OBVIOUS
<1>2. PICK r : r = Received(m)
  OBVIOUS
<1>3. Adopting(m) /\ ~Capability(m) /\ Tells(log, db) /\ Steady(db)
  BY DEF DispatchAccepted, Capability, Told
<1>4. /\ StoreType(r) /\ Rows(db) /\ t \in Tasks
      /\ r.task = db.task /\ r.lease = db.lease /\ r.tree = db.tree
      /\ r.consumed = db.consumed /\ r.caps = db.caps
  BY <1>2, <1>3, ReceivedRows
<1>5. PICK settled : settled = Outstanding(db, m.lid)["context_bytes"]
  OBVIOUS
<1>. DEFINE row == [r.task[t] EXCEPT !.phase = "accepted"]
            reserved == [r.reserved EXCEPT !["context_bytes"] = @ - settled]
            used == [r.used EXCEPT !["context_bytes"] = @ + settled]
<1>6. d = [r EXCEPT !.task[t].phase = "accepted",
                    !.reserved["context_bytes"] = @ - settled,
                    !.used["context_bytes"] = @ + settled]
  BY <1>1, <1>2, <1>5 DEF DispatchAccepted, Adopt
<1>7. d = [r EXCEPT !.task = [r.task EXCEPT ![t] = row],
                    !.reserved = reserved, !.used = used]
  BY <1>4, <1>6 DEF StoreType
<1>8. r.task[t] \in TaskRows
  BY <1>4 DEF StoreType
<1>9. row.state = r.task[t].state /\ row.outcome = r.task[t].outcome
  BY <1>8 DEF TaskRows
<1>. HIDE DEF row, reserved, used
<1>10. /\ d.task = [r.task EXCEPT ![t] = row] /\ d.lease = r.lease /\ d.tree = r.tree
       /\ d.consumed = r.consumed /\ d.caps = r.caps
  BY <1>4, <1>7 DEF StoreType
<1>11. d.task[t] = row /\ \A u \in Tasks \ {t} : d.task[u] = r.task[u]
  BY <1>4, <1>10 DEF StoreType
<1>12. Touches(db, d, t) /\ d.tree[t] = db.tree[t]
  BY <1>4, <1>10, <1>11 DEF Touches
<1>13. Steady(d)
  BY <1>3, <1>4, <1>9, <1>11 DEF Steady
<1>. DEFINE v == [Event("dispatch-accepted", t, db, d) EXCEPT
                    !.actor = m.sender, !.lease = m.lid, !.msg = m, !.deltas = deltas]
<1>14. v.task = t /\ v.after = d.task[t] /\ v.cause = "dispatch-accepted"
  BY DEF Event, Blank
<1>15. log' = Wrote(log, db, d, v) /\ Rows(d)
  BY <1>1
<1>. HIDE DEF v
<1>16. Tells(Wrote(log, db, d, v), d)
  BY <1>3, <1>4, <1>12, <1>14, <1>15, TaskTold
<1>. QED BY <1>1, <1>13, <1>15, <1>16 DEF Told

\* An attempt that a host ends, however it does.
LEMMA EndingTold ==
  ASSUME AuthorityInv, Rows(db'), Told, NEW m, Adopting(m), ~Capability(m),
         NEW t, t = m.lid.task, NEW charge \in [AttemptResources -> Int], NEW cause,
         NEW said, cause # "approval-consumed", cause # "capability-observed",
         \/ \E reason : \/ db' = Retried(Closed(Received(m), t, charge), t, reason)
                        \/ db' = Quarantined(Closed(Received(m), t, charge), t, reason)
         \/ \E state, phase, outcome, blockers :
              /\ state # "running"
              /\ db' = Moved(Closed(Received(m), t, charge), t, state, phase, outcome, blockers),
         log' = Wrote(log, db, db', Ends(cause, t, db, db', m, said))
  PROVE  Told'
<1>1. PICK d : d = db'
  OBVIOUS
<1>2. PICK r : r = Received(m)
  OBVIOUS
<1>3. Tells(log, db) /\ Steady(db) /\ Rows(d)
  BY <1>1 DEF Told
<1>4. /\ StoreType(r) /\ Rows(db) /\ t \in Tasks
      /\ r.task = db.task /\ r.lease = db.lease /\ r.tree = db.tree
      /\ r.consumed = db.consumed /\ r.caps = db.caps
  BY <1>2, ReceivedRows
<1>5. \/ \E reason : \/ d = Retried(Closed(r, t, charge), t, reason)
                     \/ d = Quarantined(Closed(r, t, charge), t, reason)
      \/ \E state, phase, outcome, blockers :
           /\ state # "running"
           /\ d = Moved(Closed(r, t, charge), t, state, phase, outcome, blockers)
  BY <1>1, <1>2
<1>6. Touches(r, d, t) /\ d.tree[t] = "none" /\ d.task[t].state # "running"
  BY <1>4, <1>5, EndedTouches
<1>7. Touches(db, d, t)
  BY <1>4, <1>6 DEF Touches
<1>8. Steady(d)
  BY <1>3, <1>4, <1>6, <1>7, TouchesSteady
<1>9. log' = Wrote(log, db, d, Ends(cause, t, db, d, m, said))
  BY <1>1
<1>10. Tells(Wrote(log, db, d, Ends(cause, t, db, d, m, said)), d)
  BY <1>3, <1>4, <1>6, <1>7, EndsTold
<1>. QED BY <1>1, <1>8, <1>9, <1>10 DEF Told

\* A heartbeat renews the Lease.
LEMMA HeartbeatTold ==
  ASSUME AuthorityInv, Rows(db'), Told, NEW m \in Messages, Heartbeat(m),
         NEW t, t = m.lid.task,
         log' = Wrote(log, db, db', [Event("heartbeat", t, db, db') EXCEPT
                                       !.actor = m.sender, !.lease = m.lid, !.msg = m])
  PROVE  Told'
<1>1. PICK d : d = db'
  OBVIOUS
<1>2. PICK r : r = Received(m)
  OBVIOUS
<1>3. Adopting(m) /\ ~Capability(m) /\ Tells(log, db) /\ Steady(db)
  BY DEF Heartbeat, Capability, Told
<1>4. /\ StoreType(r) /\ Rows(db) /\ t \in Tasks
      /\ r.task = db.task /\ r.lease = db.lease /\ r.tree = db.tree
      /\ r.consumed = db.consumed /\ r.caps = db.caps
  BY <1>2, <1>3, ReceivedRows
<1>5. PICK row : row = [id |-> m.lid, expires |-> now + Ttl]
  OBVIOUS
<1>6. d = [r EXCEPT !.lease = [r.lease EXCEPT ![t] = row],
                    !.history = r.history \cup {row}]
  BY <1>1, <1>2, <1>4, <1>5 DEF Heartbeat, Adopt, StoreType
<1>7. /\ d.lease = [r.lease EXCEPT ![t] = row] /\ d.task = r.task /\ d.tree = r.tree
      /\ d.consumed = r.consumed /\ d.caps = r.caps
  BY <1>4, <1>6 DEF StoreType
<1>8. \A u \in Tasks \ {t} : d.lease[u] = r.lease[u]
  BY <1>4, <1>7 DEF StoreType
<1>9. Touches(db, d, t) /\ d.tree[t] = db.tree[t]
  BY <1>4, <1>7, <1>8 DEF Touches
<1>10. Steady(d)
  BY <1>3, <1>4, <1>7 DEF Steady
<1>. DEFINE v == [Event("heartbeat", t, db, d) EXCEPT
                    !.actor = m.sender, !.lease = m.lid, !.msg = m]
<1>11. v.task = t /\ v.after = d.task[t] /\ v.cause = "heartbeat"
  BY DEF Event, Blank
<1>12. log' = Wrote(log, db, d, v) /\ Rows(d)
  BY <1>1
<1>. HIDE DEF v
<1>13. Tells(Wrote(log, db, d, v), d)
  BY <1>3, <1>4, <1>9, <1>11, <1>12, TaskTold
<1>. QED BY <1>1, <1>10, <1>12, <1>13 DEF Told

\* A dispatch that is acknowledged, either way, and a heartbeat.
LEMMA AcknowledgementTold ==
  ASSUME AuthorityInv, Rows(db'), Told, NEW m \in Messages, AcknowledgementLogged(m)
  PROVE  Told'
<1>1. PICK t : t = m.lid.task
  OBVIOUS
<1>2. CASE DispatchAccepted(m)
  <2>1. PICK deltas : deltas = Deltas([Nothing EXCEPT !["context_bytes"] =
                                         Outstanding(db, m.lid)["context_bytes"]], 0, 0)
    OBVIOUS
  <2>2. log' = Wrote(log, db, db', [Event("dispatch-accepted", t, db, db') EXCEPT
                                      !.actor = m.sender, !.lease = m.lid,
                                      !.msg = m, !.deltas = deltas])
    BY <1>1, <1>2, <2>1 DEF AcknowledgementLogged, DispatchAccepted, DispatchRejected, Heartbeat
  <2>. QED BY <1>1, <1>2, <2>2, AcceptedTold
<1>3. CASE DispatchRejected(m)
  <2>1. PICK charge : charge = Nothing
    OBVIOUS
  <2>2. charge \in [AttemptResources -> Int]
    BY <2>1 DEF Nothing
  <2>3. Adopting(m) /\ ~Capability(m)
    BY <1>3 DEF DispatchRejected, Capability
  <2>4. \E reason : \/ db' = Retried(Closed(Received(m), t, charge), t, reason)
                    \/ db' = Quarantined(Closed(Received(m), t, charge), t, reason)
    BY <1>1, <1>3, <2>1 DEF DispatchRejected, Adopt
  <2>5. log' = Wrote(log, db, db', Ends("dispatch-rejected", t, db, db', m, charge))
    BY <1>1, <1>3, <2>1 DEF AcknowledgementLogged, DispatchAccepted, DispatchRejected, Heartbeat
  <2>. QED BY <1>1, <2>2, <2>3, <2>4, <2>5, EndingTold
<1>4. CASE Heartbeat(m)
  <2>1. log' = Wrote(log, db, db', [Event("heartbeat", t, db, db') EXCEPT
                                      !.actor = m.sender, !.lease = m.lid, !.msg = m])
    BY <1>1, <1>4 DEF AcknowledgementLogged, DispatchAccepted, DispatchRejected, Heartbeat
  <2>. QED BY <1>1, <1>4, <2>1, HeartbeatTold
<1>. QED BY <1>2, <1>3, <1>4 DEF AcknowledgementLogged

\* What a result charges.
LEMMA ChargeType ==
  ASSUME TypeInv, NEW m, Adopting(m), m.say.type = "task_result"
  PROVE  Charge(m) \in [AttemptResources -> Int]
<1>1. m \in Messages /\ m.say.type \in HostTypes
  BY AdoptingType DEF HostTypes
<1>2. m.say.usage \in [AttemptResources -> Nat]
  BY <1>1, HostWords, VocabularyAssumption
<1>3. Outstanding(db, m.lid) \in [AttemptResources -> Int]
  BY ReservedType DEF TypeInv
<1>. QED BY <1>2, <1>3 DEF Charge, AttemptResources

\* A result that did not succeed ends the attempt.
LEMMA UnsuccessfulTold ==
  ASSUME AuthorityInv, Rows(db'), Told, NEW m \in Messages, ResultUnsuccessful(m),
         NEW t, t = m.lid.task,
         log' = Wrote(log, db, db', Ends("result-terminal", t, db, db', m, Charge(m)))
  PROVE  Told'
<1>1. PICK charge : charge = Charge(m)
  OBVIOUS
<1>2. Adopting(m) /\ ~Capability(m) /\ m.say.type = "task_result"
  BY DEF ResultUnsuccessful, Capability
<1>3. charge \in [AttemptResources -> Int]
  BY <1>1, <1>2, ChargeType DEF AuthorityInv
<1>4. \/ \E reason : \/ db' = Retried(Closed(Received(m), t, charge), t, reason)
                     \/ db' = Quarantined(Closed(Received(m), t, charge), t, reason)
      \/ \E state, phase, outcome, blockers :
           /\ state # "running"
           /\ db' = Moved(Closed(Received(m), t, charge), t, state, phase, outcome, blockers)
  <2>1. \/ db' = Retried(Closed(Received(m), t, charge), t, "safe-read-only-retry")
        \/ db' = Moved(Closed(Received(m), t, charge), t, "rejected", "not_dispatched",
                       "failed", {"unambiguous-failure"})
        \/ db' = Quarantined(Closed(Received(m), t, charge), t, "ambiguous-external-effect")
    BY <1>1 DEF ResultUnsuccessful, Adopt
  <2>2. "rejected" # "running"
    OBVIOUS
  <2>. QED BY <2>1, <2>2
<1>5. log' = Wrote(log, db, db', Ends("result-terminal", t, db, db', m, charge))
  BY <1>1
<1>. QED BY <1>2, <1>3, <1>4, <1>5, EndingTold

\* So does a cancellation that is acknowledged.
LEMMA AcknowledgedTold ==
  ASSUME AuthorityInv, Rows(db'), Told, NEW m \in Messages, CancelAcknowledged(m),
         NEW t, t = m.lid.task,
         log' = Wrote(log, db, db', Ends("cancel-acknowledgement", t, db, db', m,
                                         Outstanding(db, m.lid)))
  PROVE  Told'
<1>1. PICK charge : charge = Outstanding(db, m.lid)
  OBVIOUS
<1>2. Adopting(m) /\ ~Capability(m)
  BY DEF CancelAcknowledged, Capability
<1>3. charge \in [AttemptResources -> Int]
  BY <1>1, ReservedType DEF AuthorityInv, TypeInv
<1>4. \E state, phase, outcome, blockers :
        /\ state # "running"
        /\ db' = Moved(Closed(Received(m), t, charge), t, state, phase, outcome, blockers)
  <2>1. \/ db' = Moved(Closed(Received(m), t, charge), t, "superseded",
                       "cancellation_acknowledged", "cancelled",
                       {"cancellation-acknowledged"})
        \/ db' = Moved(Closed(Received(m), t, charge), t, "blocked",
                       "cancellation_requested", "unknown", {"cancellation-ambiguous"})
    BY <1>1 DEF CancelAcknowledged, Adopt
  <2>2. "superseded" # "running" /\ "blocked" # "running"
    OBVIOUS
  <2>. QED BY <2>1, <2>2
<1>5. log' = Wrote(log, db, db', Ends("cancel-acknowledgement", t, db, db', m, charge))
  BY <1>1
<1>. QED BY <1>2, <1>3, <1>4, <1>5, EndingTold

\* What the received message left alone it is as if it had not touched.
LEMMA TouchesFrom ==
  ASSUME NEW b, NEW c, NEW d, NEW t, Touches(c, d, t),
         c.task = b.task, c.lease = b.lease, c.tree = b.tree,
         c.consumed = b.consumed, c.caps = b.caps
  PROVE  Touches(b, d, t)
BY DEF Touches

\* Two stores that touched the same task differ there alone.
LEMMA TouchesBoth ==
  ASSUME NEW b, NEW c, NEW d, NEW t, Touches(b, c, t), Touches(b, d, t)
  PROVE  Touches(c, d, t)
BY DEF Touches

\* The rows of a result whose evidence is still to be looked at.
LEMMA VerifyingRows ==
  ASSUME NEW c, StoreType(c), Rows(c), NEW t \in Tasks, NEW e,
         e = Moved(c, t, "verification", "accepted", "succeeded", {})
  PROVE  Rows(e)
<1>. DEFINE row == MovedTask(c.task[t], "verification", "accepted", "succeeded", {})
<1>1. c.task[t] \in TaskRows
  BY DEF StoreType
<1>2. row \in Projections
  BY <1>1 DEF TaskRows, Projections, MovedTask, Phases, Outcomes
<1>. HIDE DEF row
<1>3. /\ e.task = [c.task EXCEPT ![t] = row]
      /\ e.lease = c.lease /\ e.tree = c.tree /\ e.consumed = c.consumed /\ e.caps = c.caps
      /\ DOMAIN e = DOMAIN c
  BY MovedRow DEF row
<1>. QED BY <1>2, <1>3 DEF Rows, Held

\* A result that succeeded is told by two events, the second of its verification.
LEMMA SucceededTold ==
  ASSUME AuthorityInv, Rows(db'), Told, NEW m \in Messages, ResultSucceeded(m), NEW t,
         t = m.lid.task, NEW closed, NEW deltas, NEW cause, NEW reason,
         cause = "verification-completed" \/ cause = "verification-blocked",
         closed = Moved(Closed(Received(m), t, Charge(m)), t, "verification", "accepted",
                        "succeeded", {}),
         log' = Wrote(Wrote(log, db, closed, [Event("result-received", t, db, closed) EXCEPT
                                                !.actor = m.sender, !.lease = m.lid,
                                                !.msg = m, !.deltas = deltas]),
                      closed, db', [Event(cause, t, closed, db') EXCEPT
                                      !.lease = m.lid, !.reason = reason])
  PROVE  Told'
<1>1. PICK d : d = db'
  OBVIOUS
<1>2. PICK r : r = Received(m)
  OBVIOUS
<1>3. PICK charge : charge = Charge(m)
  OBVIOUS
<1>4. /\ Adopting(m) /\ ~Capability(m) /\ m.say.type = "task_result"
      /\ Tells(log, db) /\ Steady(db) /\ Rows(d)
  BY <1>1 DEF ResultSucceeded, Capability, Told
<1>5. /\ StoreType(r) /\ Rows(db) /\ t \in Tasks
      /\ r.task = db.task /\ r.lease = db.lease /\ r.tree = db.tree
      /\ r.consumed = db.consumed /\ r.caps = db.caps
  BY <1>2, <1>4, ReceivedRows
<1>6. charge \in [AttemptResources -> Int]
  BY <1>3, <1>4, ChargeType DEF AuthorityInv
<1>7. PICK c : c = Closed(r, t, charge)
  OBVIOUS
<1>8. StoreType(c) /\ Touches(r, c, t) /\ c.tree[t] = "none" /\ c.lease[t] = NoLease
  BY <1>5, <1>6, <1>7, ClosedType, ClosedTouches
<1>9. closed = Moved(c, t, "verification", "accepted", "succeeded", {})
  BY <1>2, <1>3, <1>7
<1>10. /\ Touches(c, closed, t) /\ closed.tree = c.tree
  BY <1>5, <1>8, <1>9, MovedTouches
<1>11. Touches(db, closed, t)
  <2>1. Touches(r, closed, t)
    BY <1>8, <1>10, TouchesTwice
  <2>. QED BY <1>5, <2>1, TouchesFrom
<1>12. Rows(c)
  <2>1. TaskRows \subseteq Projections
    BY DEF TaskRows, Projections
  <2>2. \A u \in Tasks : Held(c, u) => c.lease[u].id.task = u
    BY <1>5, <1>8 DEF Rows, Held, Touches
  <2>. QED BY <1>8, <2>1, <2>2 DEF Rows, StoreType
<1>13. Rows(closed)
  BY <1>5, <1>8, <1>9, <1>12, VerifyingRows
<1>14. \E state, phase, outcome, blockers :
         state # "running" /\ d = Moved(c, t, state, phase, outcome, blockers)
  <2>1. d = Verified(c, t, m)
    BY <1>1, <1>2, <1>3, <1>7 DEF ResultSucceeded, Adopt
  <2>2. \/ d = Moved(c, t, "blocked", "accepted", "unknown", {"evidence-predicate-unsatisfied"})
        \/ d = Moved(c, t, "blocked", "accepted", "unknown", {"review-targets-unsatisfied"})
        \/ d = Moved(c, t, "completed", "accepted", "succeeded", {})
    BY <2>1 DEF Verified
  <2>3. "blocked" # "running" /\ "completed" # "running"
    OBVIOUS
  <2>. QED BY <2>2, <2>3
<1>15. Touches(c, d, t) /\ d.tree = c.tree /\ d.task[t].state # "running"
  BY <1>5, <1>8, <1>14, MovedTouches
<1>16. Touches(closed, d, t) /\ Touches(db, d, t)
  <2>1. Touches(closed, d, t)
    BY <1>10, <1>15, TouchesBoth
  <2>. QED BY <1>11, <2>1, TouchesTwice
<1>17. Steady(d)
  BY <1>4, <1>5, <1>15, <1>16, TouchesSteady
<1>. DEFINE v == [Event("result-received", t, db, closed) EXCEPT
                    !.actor = m.sender, !.lease = m.lid, !.msg = m, !.deltas = deltas]
            w == [Event(cause, t, closed, d) EXCEPT !.lease = m.lid, !.reason = reason]
<1>18. v.task = t /\ v.after = closed.task[t] /\ v.cause = "result-received"
  BY DEF Event, Blank
<1>19. w.task = t /\ w.after = d.task[t] /\ w.cause = cause
  BY DEF Event, Blank
<1>20. log' = Wrote(Wrote(log, db, closed, v), closed, d, w)
  BY <1>1
<1>. HIDE DEF v, w
<1>21. PICK e : e = Wrote(log, db, closed, v)
  OBVIOUS
<1>22. Tells(e, closed)
  BY <1>4, <1>5, <1>8, <1>10, <1>11, <1>13, <1>18, <1>21, TaskTold
<1>23. Tells(Wrote(e, closed, d, w), d)
  BY <1>4, <1>5, <1>8, <1>13, <1>15, <1>16, <1>19, <1>22, TaskTold
<1>. QED BY <1>1, <1>17, <1>20, <1>21, <1>23 DEF Told

\* A result, whichever way it ends.
LEMMA ResultTold ==
  ASSUME AuthorityInv, Rows(db'), Told, NEW m \in Messages, ResultLogged(m)
  PROVE  Told'
<1>1. PICK t : t = m.lid.task
  OBVIOUS
<1>2. CASE ResultSucceeded(m)
  <2>1. PICK closed : closed = Moved(Closed(Received(m), t, Charge(m)), t, "verification",
                                     "accepted", "succeeded", {})
    OBVIOUS
  <2>2. PICK deltas : deltas = Deltas(Charge(m), -1, 0)
    OBVIOUS
  <2>3. PICK cause : cause = IF db'.task[t].state = "completed" THEN "verification-completed"
                                                               ELSE "verification-blocked"
    OBVIOUS
  <2>4. PICK reason : reason = IF db'.task[t].state = "completed" THEN None
                               ELSE CHOOSE b \in db'.task[t].blockers : TRUE
    OBVIOUS
  <2>5. cause = "verification-completed" \/ cause = "verification-blocked"
    BY <2>3
  <2>6. log' = Wrote(Wrote(log, db, closed, [Event("result-received", t, db, closed) EXCEPT
                                                !.actor = m.sender, !.lease = m.lid,
                                                !.msg = m, !.deltas = deltas]),
                      closed, db', [Event(cause, t, closed, db') EXCEPT
                                      !.lease = m.lid, !.reason = reason])
    BY <1>1, <1>2, <2>1, <2>2, <2>3, <2>4 DEF ResultLogged, ResultSucceeded, ResultUnsuccessful
  <2>. QED BY <1>1, <1>2, <2>1, <2>5, <2>6, SucceededTold
<1>3. CASE ResultUnsuccessful(m)
  <2>1. log' = Wrote(log, db, db', Ends("result-terminal", t, db, db', m, Charge(m)))
    BY <1>1, <1>3 DEF ResultLogged, ResultSucceeded, ResultUnsuccessful
  <2>. QED BY <1>1, <1>3, <2>1, UnsuccessfulTold
<1>. QED BY <1>2, <1>3 DEF ResultLogged

\* A worktree that was made is noted, and its dispatch resumes.
LEMMA WorktreeTold ==
  ASSUME AuthorityInv, Rows(db'), Told, NEW m \in Messages, WorktreeObserved(m),
         m.say.worktree # "ambiguous", m.say.worktree # "integrated",
         NEW t, t = m.lid.task, NEW d, d = [Received(m) EXCEPT !.tree[t] = "observed"],
         log' = ResumeLog(Wrote(log, db, d, [Event("worktree-observed", t, db, d) EXCEPT
                                               !.actor = m.sender, !.lease = m.lid,
                                               !.msg = m]), d, t)
  PROVE  Told'
<1>1. PICK r : r = Received(m)
  OBVIOUS
<1>2. PICK d2 : d2 = db'
  OBVIOUS
<1>3. /\ Adopting(m) /\ ~Capability(m) /\ ~Approval(m)
      /\ Tells(log, db) /\ Steady(db) /\ now \in Nat
  BY DEF WorktreeObserved, Capability, Approval, Told, AuthorityInv, TypeInv
<1>4. /\ StoreType(r) /\ Rows(db) /\ Rows(r) /\ t \in Tasks /\ Held(r, t)
      /\ r.task = db.task /\ r.lease = db.lease /\ r.tree = db.tree
      /\ r.consumed = db.consumed /\ r.caps = db.caps /\ m.lid \in LeaseIds
  BY <1>1, <1>3, ReceivedRows
<1>5. /\ db.task[t].state = "running" /\ db.task[t].outcome = "none"
      /\ db.task[t].phase \in OpenPhases(m.say.type)
  BY <1>3 DEF Adopting, Adoptable, ReplyAdoptable, WorktreeObserved
<1>6. db.task[t].phase = "not_dispatched"
  BY <1>5 DEF OpenPhases, WorktreeObserved
<1>7. d = [r EXCEPT !.tree = [r.tree EXCEPT ![t] = "observed"]]
  BY <1>1, <1>4 DEF StoreType
<1>8. StoreType(d)
  <2>1. PICK tree : tree = [r.tree EXCEPT ![t] = "observed"]
    OBVIOUS
  <2>2. tree \in [Tasks -> {"none", "requested", "observed"}]
    BY <1>4, <2>1 DEF StoreType
  <2>3. d = [r EXCEPT !.tree = tree]
    BY <1>7, <2>1
  <2>. QED BY <1>4, <2>2, <2>3 DEF StoreType
<1>9. /\ d.task = r.task /\ d.lease = r.lease /\ d.tree = [r.tree EXCEPT ![t] = "observed"]
      /\ d.consumed = r.consumed /\ d.caps = r.caps
  BY <1>4, <1>7 DEF StoreType
<1>10. \A u \in Tasks \ {t} : d.tree[u] = r.tree[u]
  BY <1>4, <1>9 DEF StoreType
<1>11. Touches(db, d, t)
  BY <1>4, <1>9, <1>10 DEF Touches
<1>12. Rows(d)
  <2>1. d.tree \in [Tasks -> {"none", "requested", "observed"}]
    BY <1>8 DEF StoreType
  <2>. QED BY <1>4, <1>9, <2>1 DEF Rows, Held
<1>13. Steady(d)
  BY <1>3, <1>4, <1>9 DEF Steady
<1>. DEFINE v == [Event("worktree-observed", t, db, d) EXCEPT
                    !.actor = m.sender, !.lease = m.lid, !.msg = m]
<1>14. /\ v.task = t /\ v.after = d.task[t] /\ v.cause = "worktree-observed"
       /\ v.lease = m.lid
  BY DEF Event, Blank
<1>15. m.lid.fence \in Nat
  BY <1>4 DEF LeaseIds
<1>16. PICK e : e = Wrote(log, db, d, v)
  OBVIOUS
<1>17. log' = ResumeLog(e, d, t)
  BY <1>16
<1>. HIDE DEF v
<1>18. v.lease.fence \in Nat
  BY <1>14, <1>15
<1>19. Tells(e, d)
  BY <1>3, <1>4, <1>11, <1>12, <1>14, <1>16, <1>18, TaskTold
<1>20. d2 = Resumed(d, t, now)
  BY <1>2 DEF WorktreeObserved, Adopt
<1>21. Held(d, t) /\ d.task[t] = db.task[t]
  BY <1>4, <1>9 DEF Held
<1>22. Tells(ResumeLog(e, d, t), d2)
  BY <1>3, <1>4, <1>5, <1>6, <1>8, <1>12, <1>19, <1>20, <1>21, ResumeTold
<1>23. Steady(d2)
  BY <1>4, <1>5, <1>8, <1>13, <1>20, <1>21, ResumedSteady
<1>. QED BY <1>2, <1>17, <1>22, <1>23 DEF Told

\* The other answers of a host.
LEMMA OtherReplyTold ==
  ASSUME AuthorityInv, Rows(db'), Told, NEW m \in Messages, OtherReplyLogged(m)
  PROVE  Told'
<1>1. PICK t : t = m.lid.task
  OBVIOUS
<1>2. CASE CancelAcknowledged(m)
  <2>1. log' = Wrote(log, db, db', Ends("cancel-acknowledgement", t, db, db', m,
                                        Outstanding(db, m.lid)))
    BY <1>1, <1>2 DEF OtherReplyLogged, CancelAcknowledged, WorktreeObserved
  <2>. QED BY <1>1, <1>2, <2>1, AcknowledgedTold
<1>3. CASE WorktreeObserved(m) /\ m.say.worktree \in {"ambiguous", "integrated"}
  <2>1. PICK charge : charge = Nothing
    OBVIOUS
  <2>2. charge \in [AttemptResources -> Int]
    BY <2>1 DEF Nothing
  <2>3. Adopting(m) /\ ~Capability(m)
    BY <1>3 DEF WorktreeObserved, Capability
  <2>4. \E reason : \/ db' = Retried(Closed(Received(m), t, charge), t, reason)
                    \/ db' = Quarantined(Closed(Received(m), t, charge), t, reason)
    BY <1>1, <1>3, <2>1 DEF WorktreeObserved, Adopt
  <2>5. log' = Wrote(log, db, db', Ends("worktree-observed", t, db, db', m, charge))
    BY <1>1, <1>3, <2>1 DEF OtherReplyLogged, CancelAcknowledged, WorktreeObserved
  <2>. QED BY <1>1, <2>2, <2>3, <2>4, <2>5, EndingTold
<1>4. CASE WorktreeObserved(m) /\ m.say.worktree \notin {"ambiguous", "integrated"}
  <2>1. PICK d : d = [Received(m) EXCEPT !.tree[t] = "observed"]
    OBVIOUS
  <2>2. log' = ResumeLog(Wrote(log, db, d, [Event("worktree-observed", t, db, d) EXCEPT
                                               !.actor = m.sender, !.lease = m.lid,
                                               !.msg = m]), d, t)
    BY <1>1, <1>4, <2>1 DEF OtherReplyLogged, CancelAcknowledged, WorktreeObserved
  <2>3. m.say.worktree # "ambiguous" /\ m.say.worktree # "integrated"
    BY <1>4
  <2>. QED BY <1>1, <1>4, <2>1, <2>2, <2>3, WorktreeTold
<1>. QED BY <1>2, <1>3, <1>4 DEF OtherReplyLogged

\* Whatever a message does.
LEMMA IngestTold ==
  ASSUME AuthorityInv, Rows(db'), Told, NEW m \in Messages, IngestLogged(m)
  PROVE  Told'
<1>1. CASE ResultRaises(m) /\ UNCHANGED log
  BY <1>1 DEF ResultRaises, Told, Steady
<1>. QED BY <1>1, EveryNoteTold, ApprovalTold, AcknowledgementTold, ResultTold, OtherReplyTold
         DEF IngestLogged

\* A task that is blocked, readied or planned is told by one event, whether or
\* not it was given a Lease first.
LEMMA ReadinessTold ==
  ASSUME Told, AuthorityInv, Rows(db'), NEW t \in Tasks, NEW c, StoreType(c),
         Touches(db, c, t), c.tree = db.tree,
         \E state, blockers : state # "running" /\ db' = Readied(c, t, state, blockers),
         NEW v, v.task = t, v.after = db'.task[t],
         v.cause \in {"readiness-refreshed", "dispatch-budget-blocked",
                      "dispatch-approval-blocked"},
         log' = Wrote(log, db, db', v)
  PROVE  Told'
<1>1. PICK d : d = db'
  OBVIOUS
<1>2. Rows(db) /\ Rows(d) /\ Tells(log, db) /\ Steady(db)
  BY <1>1, RowsHold DEF AuthorityInv, TypeInv, Told
<1>3. Touches(c, d, t) /\ d.tree = c.tree /\ d.task[t].state # "running"
  BY <1>1, ReadiedTouches
<1>4. Touches(db, d, t)
  BY <1>3, TouchesTwice
<1>5. Steady(d)
  BY <1>2, <1>3, <1>4, TouchesSteady
<1>6. /\ d.tree[t] = db.tree[t] /\ v.after = d.task[t]
      /\ v.cause # "approval-consumed" /\ v.cause # "capability-observed"
      /\ v.cause # "worktree-observed"
  BY <1>1, <1>3
<1>7. Tells(Wrote(log, db, d, v), d)
  BY <1>2, <1>4, <1>6, TaskTold
<1>. QED BY <1>1, <1>5, <1>7 DEF Told

\* A worktree that is requested sets its task running.
LEMMA RequestTold ==
  ASSUME AuthorityInv, Rows(db'), Told, NEW t \in Tasks, RequestWorktree(t),
         log' = Wrote(log, db, db', [Event("worktree-request", t, db, db') EXCEPT
                                      !.lease = db'.lease[t].id,
                                      !.msg = CHOOSE m \in db'.mail \ db.mail : TRUE,
                                      !.deltas = Deltas(Nothing, 1, 0)])
  PROVE  Told'
<1>1. PICK d : d = db'
  OBVIOUS
<1>2. /\ StoreType(db) /\ Rows(db) /\ Rows(d) /\ Tells(log, db) /\ Steady(db)
      /\ tx.pc # "idle"
  BY <1>1, RowsHold DEF AuthorityInv, TypeInv, Told, RequestWorktree, Dispatching, InTx
<1>3. PICK w : w = WithLease(db, t)
  OBVIOUS
<1>4. PICK id : id = Proposed(db, t).id
  OBVIOUS
<1>5. StoreType(w) /\ id \in LeaseIds
  BY <1>2, <1>3, <1>4, ProposedType DEF AuthorityInv
<1>6. Touches(db, w, t) /\ w.tree = db.tree
  BY <1>2, <1>3, WithLeaseTouches
<1>7. PICK f : f = Moved(w, t, "running", "not_dispatched", "none", {})
  OBVIOUS
<1>8. /\ Touches(w, f, t) /\ f.tree = w.tree /\ f.lease = w.lease
      /\ f.task[t].state = "running" /\ f.task[t].outcome = "none"
      /\ DOMAIN f = DOMAIN w
  BY <1>5, <1>7, MovedTouches
<1>9. d = [f EXCEPT !.tree = [w.tree EXCEPT ![t] = "requested"],
                    !.reserved = SlotTaken(f),
                    !.mail = f.mail \cup {Outgoing([type |-> "worktree_request"], id, now)}]
  BY <1>1, <1>3, <1>4, <1>5, <1>7, <1>8 DEF RequestWorktree, Record, StoreType
<1>10. /\ d.task = f.task /\ d.lease = f.lease /\ d.tree = [w.tree EXCEPT ![t] = "requested"]
       /\ d.consumed = f.consumed /\ d.caps = f.caps
  BY <1>5, <1>8, <1>9 DEF StoreType
<1>11. \A u \in Tasks \ {t} : d.tree[u] = w.tree[u]
  BY <1>5, <1>10 DEF StoreType
<1>12. Touches(w, d, t)
  BY <1>8, <1>10, <1>11 DEF Touches
<1>13. Touches(db, d, t)
  BY <1>6, <1>12, TouchesTwice
<1>14. Steady(d)
  <2>1. d.task[t].state = "running" => d.task[t].outcome = "none"
    BY <1>8, <1>10
  <2>. QED BY <1>2, <1>13, <2>1, TouchesSteady
<1>15. d.lease[t].id.fence \in Nat
  <2>1. w.lease[t].id = id
    <3>1. CASE Held(db, t)
      BY <1>3, <1>4, <3>1 DEF WithLease, Proposed
    <3>2. CASE ~Held(db, t)
      BY <1>2, <1>3, <1>4, <3>2 DEF WithLease, Leased, StoreType
    <3>. QED BY <3>1, <3>2
  <2>. QED BY <1>5, <1>8, <1>10, <2>1 DEF LeaseIds
<1>16. PICK v : v = [Event("worktree-request", t, db, d) EXCEPT
                      !.lease = d.lease[t].id,
                      !.msg = CHOOSE m \in d.mail \ db.mail : TRUE,
                      !.deltas = Deltas(Nothing, 1, 0)]
  OBVIOUS
<1>17. /\ v.task = t /\ v.after = d.task[t] /\ v.cause = "worktree-request"
       /\ v.lease = d.lease[t].id
  BY <1>16 DEF Event, Blank
<1>18. log' = Wrote(log, db, d, v)
  BY <1>1, <1>16
<1>19. v.lease.fence \in Nat
  BY <1>15, <1>17
<1>20. Tells(Wrote(log, db, d, v), d)
  BY <1>2, <1>13, <1>17, <1>19, TaskTold
<1>. QED BY <1>1, <1>14, <1>18, <1>20 DEF Told

\* From store d to store e nothing is done but to consume approvals and to announce.
Sends(d, e) ==
  /\ e.task = d.task /\ e.lease = d.lease /\ e.tree = d.tree /\ e.caps = d.caps
  /\ d.consumed \subseteq e.consumed /\ IsFiniteSet(e.consumed \ d.consumed)

\* That is what a dispatch does once its task and its slot are set.
LEMMA DispatchSends ==
  ASSUME NEW d, StoreType(d), NEW t \in Tasks, NEW id, NEW e,
         e = Intent(Consumed(d, t, id, now), t, id, now)
  PROVE  Sends(d, e)
<1>1. /\ e.task = d.task /\ e.lease = d.lease /\ e.tree = d.tree /\ e.caps = d.caps
      /\ d.consumed \subseteq e.consumed
      /\ IsFiniteSet(e.consumed \ d.consumed)
  BY SentRows
<1>. QED BY <1>1 DEF Sends

\* A dispatch consumes its approvals and is announced.
LEMMA SentTold ==
  ASSUME AuthorityInv, Rows(db'), Told, NEW t \in Tasks, Dispatch(t),
         log' = IntentLog(log, db, db', t)
  PROVE  Told'
<1>1. PICK d2 : d2 = db'
  OBVIOUS
<1>2. /\ StoreType(db) /\ Rows(db) /\ Rows(d2) /\ Tells(log, db) /\ Steady(db)
      /\ tx.pc # "idle"
  BY <1>1, RowsHold DEF AuthorityInv, TypeInv, Told, Dispatch, Dispatching, InTx
<1>3. PICK w : w = WithLease(db, t)
  OBVIOUS
<1>4. PICK id : id = Proposed(db, t).id
  OBVIOUS
<1>5. StoreType(w) /\ id \in LeaseIds
  BY <1>2, <1>3, <1>4, ProposedType DEF AuthorityInv
<1>6. Touches(db, w, t) /\ w.tree = db.tree
  BY <1>2, <1>3, WithLeaseTouches
<1>7. PICK f : f = Moved(w, t, "running", "intent_pending", "none", {})
  OBVIOUS
<1>8. /\ Touches(w, f, t) /\ f.tree = w.tree /\ f.lease = w.lease
      /\ f.task[t].state = "running" /\ f.task[t].outcome = "none"
      /\ DOMAIN f = DOMAIN w
  BY <1>5, <1>7, MovedTouches
<1>9. PICK g : g = [f EXCEPT !.reserved = SlotTaken(f)]
  OBVIOUS
<1>10. StoreType(f)
  BY <1>5, <1>7, MovedType DEF States, Phases, Outcomes
<1>11. StoreType(g)
  <2>1. SlotTaken(f) \in [Resources -> Int]
    BY <1>10 DEF SlotTaken, StoreType, Resources
  <2>. QED BY <1>9, <1>10, <2>1 DEF StoreType
<1>12. d2 = Intent(Consumed(g, t, id, now), t, id, now)
  BY <1>1, <1>3, <1>4, <1>7, <1>9 DEF Dispatch, Record
<1>13. /\ d2.task = g.task /\ d2.lease = g.lease /\ d2.tree = g.tree /\ d2.caps = g.caps
       /\ g.consumed \subseteq d2.consumed
       /\ IsFiniteSet(d2.consumed \ g.consumed)
  <2>1. Sends(g, d2)
    BY <1>11, <1>12, DispatchSends
  <2>. QED BY <2>1 DEF Sends
<1>14. /\ g.task = f.task /\ g.lease = f.lease /\ g.tree = f.tree /\ g.caps = f.caps
       /\ g.consumed = f.consumed
  BY <1>9, <1>10 DEF StoreType
<1>15. Touches(db, g, t) /\ g.tree = db.tree
  <2>1. Touches(db, f, t)
    BY <1>6, <1>8, TouchesTwice
  <2>. QED BY <1>6, <1>8, <1>14, <2>1 DEF Touches
<1>16. /\ \A u \in Tasks \ {t} : d2.task[u] = db.task[u] /\ d2.lease[u] = db.lease[u]
       /\ d2.tree = db.tree /\ d2.caps = db.caps
       /\ db.consumed = g.consumed
  BY <1>13, <1>15 DEF Touches
<1>17. db.consumed \subseteq d2.consumed /\ IsFiniteSet(d2.consumed \ db.consumed)
  BY <1>13, <1>16
<1>18. PICK d : d = db
  OBVIOUS
<1>19. /\ StoreType(d) /\ Rows(d) /\ Tells(log, d)
       /\ \A u \in Tasks \ {t} : d2.task[u] = d.task[u] /\ d2.lease[u] = d.lease[u]
       /\ d2.tree = d.tree /\ d2.caps = d.caps
       /\ d.consumed \subseteq d2.consumed /\ IsFiniteSet(d2.consumed \ d.consumed)
  BY <1>2, <1>16, <1>17, <1>18
<1>20. PICK e : e = log
  OBVIOUS
<1>21. Tells(IntentLog(e, d, d2, t), d2)
  <2>1. Tells(e, d)
    BY <1>19, <1>20
  <2>. QED BY <1>2, <1>19, <2>1, IntentTold
<1>22. Steady(d2)
  <2>1. d2.task[t].outcome = "none"
    BY <1>8, <1>13, <1>14
  <2>2. \A u \in Tasks \ {t} : d2.task[u] = db.task[u]
    BY <1>16
  <2>. QED BY <1>2, <2>1, <2>2 DEF Steady
<1>. QED BY <1>1, <1>18, <1>20, <1>21, <1>22 DEF Told

\* A dispatch that waited for budget is tried again.
LEMMA RetryTold ==
  ASSUME AuthorityInv, Rows(db'), Told, NEW t \in Tasks, RetryWorktree(t),
         log' = IF db.tree[t] = "observed" THEN ResumeLog(log, db, t) ELSE log
  PROVE  Told'
<1>1. PICK d : d = db'
  OBVIOUS
<1>2. /\ StoreType(db) /\ Rows(db) /\ Tells(log, db) /\ Steady(db) /\ now \in Nat
  BY RowsHold DEF AuthorityInv, TypeInv, Told
<1>3. CASE db.tree[t] = "observed"
  <2>1. d = Resumed(db, t, now) /\ log' = ResumeLog(log, db, t)
    BY <1>1, <1>3 DEF RetryWorktree
  <2>2. /\ db.task[t].state = "running" /\ db.task[t].phase = "not_dispatched"
        /\ Held(db, t)
    BY DEF RetryWorktree, Visit, BudgetBlockedWorktrees
  <2>3. db.task[t].outcome = "none"
    BY <1>2, <2>2 DEF Steady
  <2>4. Tells(ResumeLog(log, db, t), d)
    BY <1>2, <2>1, <2>2, <2>3, ResumeTold
  <2>5. Steady(d)
    BY <1>2, <2>1, <2>2, <2>3, ResumedSteady
  <2>. QED BY <1>1, <2>1, <2>4, <2>5 DEF Told
<1>4. CASE db.tree[t] # "observed"
  BY <1>4 DEF RetryWorktree, Told, Steady
<1>. QED BY <1>3, <1>4

\* Whatever the passes over the tasks do.
LEMMA DispatchTold ==
  ASSUME AuthorityInv, Rows(db'), Told, NEW t \in Tasks, DispatchLogged(t)
  PROVE  Told'
<1>1. PICK d : d = db'
  OBVIOUS
<1>2. StoreType(db) /\ Touches(db, db, t)
  BY DEF AuthorityInv, TypeInv, Touches
<1>3. CASE /\ RefreshTask(t)
           /\ log' = Wrote(log, db, db', Event("readiness-refreshed", t, db, db'))
  <2>1. \E state, blockers : state # "running" /\ db' = Readied(db, t, state, blockers)
    <3>1. "planned" # "running" /\ "ready" # "running" /\ "blocked" # "running"
      OBVIOUS
    <3>. QED BY <1>3, <3>1 DEF RefreshTask, Refreshed
  <2>2. PICK v : v = Event("readiness-refreshed", t, db, d)
    OBVIOUS
  <2>3. v.task = t /\ v.after = db'.task[t] /\ v.cause = "readiness-refreshed"
    BY <1>1, <2>2 DEF Event, Blank
  <2>4. log' = Wrote(log, db, db', v)
    BY <1>1, <1>3, <2>2
  <2>. QED BY <1>2, <2>1, <2>3, <2>4, ReadinessTold
<1>4. CASE /\ BudgetBlocks(t)
           /\ log' = Wrote(log, db, db', [Event("dispatch-budget-blocked", t, db, db') EXCEPT
                                            !.reason = "budget-exhausted"])
  <2>1. \E state, blockers : state # "running" /\ db' = Readied(db, t, state, blockers)
    <3>1. db' = Readied(db, t, "blocked", {"budget-exhausted"}) /\ "blocked" # "running"
      BY <1>4 DEF BudgetBlocks, Record
    <3>. QED BY <3>1
  <2>2. PICK v : v = [Event("dispatch-budget-blocked", t, db, d) EXCEPT
                        !.reason = "budget-exhausted"]
    OBVIOUS
  <2>3. v.task = t /\ v.after = db'.task[t] /\ v.cause = "dispatch-budget-blocked"
    BY <1>1, <2>2 DEF Event, Blank
  <2>4. log' = Wrote(log, db, db', v)
    BY <1>1, <1>4, <2>2
  <2>. QED BY <1>2, <2>1, <2>3, <2>4, ReadinessTold
<1>5. CASE /\ WorktreeBlocks(t)
           /\ log' = Wrote(log, db, db', [Event("readiness-refreshed", t, db, db') EXCEPT
                                      !.lease = IF Held(db, t) THEN db.lease[t].id ELSE None,
                                      !.reason = "worktree-unavailable"])
  <2>1. \E state, blockers : state # "running" /\ db' = Readied(db, t, state, blockers)
    <3>1. db' = Readied(db, t, "blocked", {"worktree-unavailable"}) /\ "blocked" # "running"
      BY <1>5 DEF WorktreeBlocks, Record
    <3>. QED BY <3>1
  <2>2. PICK v : v = [Event("readiness-refreshed", t, db, d) EXCEPT
                        !.lease = IF Held(db, t) THEN db.lease[t].id ELSE None,
                        !.reason = "worktree-unavailable"]
    OBVIOUS
  <2>3. v.task = t /\ v.after = db'.task[t] /\ v.cause = "readiness-refreshed"
    BY <1>1, <2>2 DEF Event, Blank
  <2>4. log' = Wrote(log, db, db', v)
    BY <1>1, <1>5, <2>2
  <2>. QED BY <1>2, <2>1, <2>3, <2>4, ReadinessTold
<1>6. CASE /\ ApprovalBlocks(t)
           /\ log' = Wrote(log, db, db', [Event("dispatch-approval-blocked", t, db, db') EXCEPT
                                      !.actor = db'.lease[t].id.owner,
                                      !.lease = db'.lease[t].id,
                                      !.reason = "approval-required"])
  <2>0. PICK c : c = WithLease(db, t)
    OBVIOUS
  <2>1. StoreType(c) /\ Touches(db, c, t) /\ c.tree = db.tree
    <3>1. tx.pc # "idle"
      BY <1>6 DEF ApprovalBlocks, Dispatching, InTx
    <3>2. StoreType(WithLease(db, t))
      BY <3>1, ProposedType DEF AuthorityInv
    <3>. QED BY <1>2, <2>0, <3>2, WithLeaseTouches
  <2>2. \E state, blockers : state # "running" /\ db' = Readied(c, t, state, blockers)
    <3>1. db' = Readied(c, t, "blocked", {"approval-required"}) /\ "blocked" # "running"
      BY <1>6, <2>0 DEF ApprovalBlocks, Record
    <3>. QED BY <3>1
  <2>3. PICK v : v = [Event("dispatch-approval-blocked", t, db, d) EXCEPT
                        !.actor = d.lease[t].id.owner, !.lease = d.lease[t].id,
                        !.reason = "approval-required"]
    OBVIOUS
  <2>4. v.task = t /\ v.after = db'.task[t] /\ v.cause = "dispatch-approval-blocked"
    BY <1>1, <2>3 DEF Event, Blank
  <2>5. log' = Wrote(log, db, db', v)
    BY <1>1, <1>6, <2>3
  <2>. QED BY <2>1, <2>2, <2>4, <2>5, ReadinessTold
<1>. QED BY <1>3, <1>4, <1>5, <1>6, RequestTold, SentTold, RetryTold DEF DispatchLogged

\* A cancellation that is requested moves the phase of its task.
LEMMA RequestedTold ==
  ASSUME AuthorityInv, Rows(db'), Told, NEW t \in Tasks, CancelRequested(t),
         log' = Wrote(log, db, db', [Event("cancel-request", t, db, db') EXCEPT
                                      !.lease = db.lease[t].id,
                                      !.msg = CHOOSE m \in db'.mail \ db.mail : TRUE])
  PROVE  Told'
<1>1. PICK d : d = db'
  OBVIOUS
<1>2. /\ StoreType(db) /\ Rows(db) /\ Rows(d) /\ Tells(log, db) /\ Steady(db)
  BY <1>1, RowsHold DEF AuthorityInv, TypeInv, Told
<1>. DEFINE row == [db.task[t] EXCEPT !.phase = "cancellation_requested"]
<1>3. PICK mail : mail = db.mail \cup {Outgoing([type |-> "cancel_request"],
                                                db.lease[t].id, now)}
  OBVIOUS
<1>4. d = [db EXCEPT !.mail = mail, !.task = [db.task EXCEPT ![t] = row]]
  BY <1>1, <1>2, <1>3 DEF CancelRequested, Record, StoreType
<1>5. db.task[t] \in TaskRows
  BY <1>2 DEF StoreType
<1>6. row.state = db.task[t].state /\ row.outcome = db.task[t].outcome
  BY <1>5 DEF TaskRows
<1>. HIDE DEF row
<1>7. /\ d.task = [db.task EXCEPT ![t] = row] /\ d.lease = db.lease /\ d.tree = db.tree
      /\ d.consumed = db.consumed /\ d.caps = db.caps
  BY <1>2, <1>4 DEF StoreType
<1>8. d.task[t] = row /\ \A u \in Tasks \ {t} : d.task[u] = db.task[u]
  BY <1>2, <1>7 DEF StoreType
<1>9. Touches(db, d, t) /\ d.tree[t] = db.tree[t]
  BY <1>7, <1>8 DEF Touches
<1>10. Steady(d)
  BY <1>2, <1>6, <1>8 DEF Steady
<1>11. PICK v : v = [Event("cancel-request", t, db, d) EXCEPT
                      !.lease = db.lease[t].id,
                      !.msg = CHOOSE m \in d.mail \ db.mail : TRUE]
  OBVIOUS
<1>12. v.task = t /\ v.after = d.task[t] /\ v.cause = "cancel-request"
  BY <1>11 DEF Event, Blank
<1>13. log' = Wrote(log, db, d, v)
  BY <1>1, <1>11
<1>14. Tells(Wrote(log, db, d, v), d)
  BY <1>2, <1>9, <1>12, TaskTold
<1>. QED BY <1>1, <1>10, <1>13, <1>14 DEF Told

\* What request_cancel does, refused or not.
LEMMA CancelTold ==
  ASSUME AuthorityInv, Rows(db'), Told, NEW t \in Tasks, CancelLogged(t)
  PROVE  Told'
<1>1. CASE (CancelRefused(t) \/ CancelRepeated(t)) /\ UNCHANGED log
  BY <1>1 DEF CancelRefused, CancelRepeated, Told, Steady
<1>. QED BY <1>1, RequestedTold DEF CancelLogged

\* A call opens with the wall time it has observed.
LEMMA BeginTold ==
  ASSUME AuthorityInv, Rows(db'), BeginLogged, Tells(log, disk), Steady(disk)
  PROVE  Told'
<1>1. PICK d : d = db'
  OBVIOUS
<1>2. /\ StoreType(disk) /\ Rows(disk) /\ Rows(d)
  BY <1>1, RowsHold DEF AuthorityInv, TypeInv
<1>3. d = Observed(disk)
  BY <1>1 DEF BeginLogged, BeginTick, BeginCancelCheck, BeginCancel, Begin
<1>4. /\ d.task = disk.task /\ d.lease = disk.lease /\ d.tree = disk.tree
      /\ d.consumed = disk.consumed /\ d.caps = disk.caps /\ d.reserved = disk.reserved
  BY <1>2, <1>3 DEF Observed, StoreType
<1>5. Steady(d)
  BY <1>4 DEF Steady
<1>6. CASE now > disk.used["wall_time_seconds"]
  <2>1. PICK v : v = [Blank("wall-time-observed") EXCEPT
                        !.deltas["wall_time_seconds"] = now - disk.used["wall_time_seconds"]]
    OBVIOUS
  <2>2. v.task = NoLease /\ v.after = NoLease /\ v.cause = "wall-time-observed"
    BY <2>1 DEF Blank, None
  <2>3. log' = Wrote(log, disk, d, v)
    BY <1>3, <1>6, <2>1 DEF BeginLogged
  <2>4. Follows(disk, d, v)
    BY <1>4, <2>2, NullAssumption DEF Follows, CapStep
  <2>5. Tells(Wrote(log, disk, d, v), d)
    BY <1>2, <2>4, WroteTells
  <2>. QED BY <1>1, <1>5, <2>3, <2>5 DEF Told
<1>7. CASE ~(now > disk.used["wall_time_seconds"])
  <2>1. log' = log
    BY <1>7 DEF BeginLogged
  <2>2. d.used = disk.used
    <3>1. /\ disk.used \in [Resources -> Int] /\ now \in Nat
          /\ "wall_time_seconds" \in Resources
      BY <1>2 DEF StoreType, AuthorityInv, TypeInv, Resources
    <3>2. ~(disk.used["wall_time_seconds"] < now)
      BY <1>7, <3>1
    <3>3. d = [disk EXCEPT !.used = [disk.used EXCEPT !["wall_time_seconds"] =
                                       disk.used["wall_time_seconds"]]]
      BY <1>2, <1>3, <3>2 DEF Observed, StoreType
    <3>4. [disk.used EXCEPT !["wall_time_seconds"] = disk.used["wall_time_seconds"]]
          = disk.used
      BY <3>1
    <3>. QED BY <1>2, <3>3, <3>4 DEF StoreType
  <2>3. RowsOf(disk) = RowsOf(d)
    BY <1>4, <2>2 DEF RowsOf
  <2>4. Tells(log, d)
    BY <2>3, TellsSame
  <2>. QED BY <1>1, <1>5, <2>1, <2>4 DEF Told
<1>. QED BY <1>6, <1>7

\* A store without events is the seed.
LEMMA NoEvents ==
  ASSUME NEW e, e.events = <<>>
  PROVE  RebuiltTasks(e) = Seed /\ RebuiltCaps(e) = NoCaps
<1>1. PICK m \in Nat : m = 0
  OBVIOUS
<1>2. DOMAIN e.events = 1..m /\ 1..m = {}
  BY <1>1
<1>3. RebuiltTasks(e) = Seed
  <2>1. PICK X : X = {Seed}
    OBVIOUS
  <2>2. Seed \in X /\ \A i \in 1..m : \A x \in X : TaskStep(x, e.events[i]) \in X
    BY <1>2, <2>1
  <2>3. \E h : /\ h[{}] = Seed
               /\ \A s \in SUBSET (1..m) : s # {} =>
                    h[s] = TaskStep(h[s \ {LastOf(s)}], e.events[LastOf(s)])
               /\ RebuiltTasks(e) = h[1..m]
    BY <1>2, <2>2, TasksFold
  <2>. QED BY <1>2, <2>3
<1>4. RebuiltCaps(e) = NoCaps
  <2>1. PICK X : X = {NoCaps}
    OBVIOUS
  <2>2. NoCaps \in X /\ \A i \in 1..m : \A x \in X : CapStep(x, e.events[i]) \in X
    BY <1>2, <2>1
  <2>3. \E h : /\ h[{}] = NoCaps
               /\ \A s \in SUBSET (1..m) : s # {} =>
                    h[s] = CapStep(h[s \ {LastOf(s)}], e.events[LastOf(s)])
               /\ RebuiltCaps(e) = h[1..m]
    BY <1>2, <2>2, CapsFold
  <2>. QED BY <1>2, <2>3
<1>. QED BY <1>3, <1>4

\* The evidence a database is seeded with tells of the empty store.
LEMMA SeededTells == Tells(Seeded, EmptyStore) /\ Steady(EmptyStore)
<1>. DEFINE e == Seeded
            v == [Blank("initialize") EXCEPT !.at = 0, !.reason = "lease-policy"]
            w == [n |-> 1, reserved |-> Zero, used |-> Zero]
<1>1. /\ e = [events |-> e.events, mail |-> e.mail, leases |-> e.leases, trees |-> e.trees,
              ledgers |-> e.ledgers]
      /\ e.events = <<v>> /\ e.mail = <<>> /\ e.leases = <<>> /\ e.trees = <<>>
      /\ e.ledgers = <<w>>
  BY DEF Seeded
<1>2. v.cause = "initialize" /\ v.after = NoLease
  BY DEF Blank, None
<1>3. w.reserved = Zero /\ w.used = Zero
  OBVIOUS
<1>. HIDE DEF e, v, w
<1>4. <<v>> = Append(<<>>, v) /\ <<w>> = Append(<<>>, w)
  OBVIOUS
<1>5. Listed(<<>>)
  <2>1. <<>> \in Seq({})
    OBVIOUS
  <2>. QED BY <2>1 DEF Listed
<1>6. /\ Listed(<<v>>) /\ Listed(<<w>>) /\ ToSet(<<v>>) = {v} /\ Last(<<w>>) = w
      /\ Len(<<v>>) = 1
  <2>1. PICK o : o = <<>>
    OBVIOUS
  <2>2. ToSet(o) = {} /\ Len(o) = 0 /\ Listed(o)
    BY <1>5, <2>1 DEF ToSet
  <2>3. \A x : /\ Listed(Append(o, x)) /\ Len(Append(o, x)) = Len(o) + 1
              /\ ToSet(Append(o, x)) = ToSet(o) \cup {x} /\ Last(Append(o, x)) = x
    BY <2>2, AppendIs
  <2>. QED BY <1>4, <2>1, <2>2, <2>3
<1>7. Shape(e)
  <2>1. ToSet(<<>>) = {}
    BY DEF ToSet
  <2>. QED BY <1>1, <1>5, <1>6, <2>1 DEF Shape, Numbered
<1>8. RebuiltTasks(e) = Seed /\ RebuiltCaps(e) = NoCaps
  <2>1. PICK z : z = [events |-> <<>>]
    OBVIOUS
  <2>2. z.events = <<>> /\ Listed(z.events) /\ e.events = Append(z.events, v)
    BY <1>1, <1>4, <1>5, <2>1
  <2>3. RebuiltTasks(z) = Seed /\ RebuiltCaps(z) = NoCaps
    BY <2>2, NoEvents
  <2>4. /\ RebuiltTasks(e) = TaskStep(RebuiltTasks(z), v)
        /\ RebuiltCaps(e) = CapStep(RebuiltCaps(z), v)
    BY <2>2, TasksGrow, CapsGrow
  <2>. QED BY <1>2, <2>3, <2>4 DEF TaskStep, CapStep, Absent
<1>9. RebuiltLeases(e) = [t \in Tasks |-> NoLease] /\ RebuiltTrees(e) = [t \in Tasks |-> "none"]
  <2>1. \A t : Historied(<<>>, t) = {}
    BY DEF Historied, ToSet
  <2>2. Latest({}) = NoLease
    BY DEF Latest, Absent
  <2>. QED BY <1>1, <2>1, <2>2 DEF RebuiltLeases, RebuiltTrees, RebuiltLease, RebuiltTree,
                                    IsCurrent, ActiveTree, Absent
<1>10. {x.msg : x \in {x \in ToSet(e.events) : x.cause = "approval-consumed"}} = {}
  BY <1>1, <1>2, <1>6
<1>11. PICK d : d = EmptyStore
  OBVIOUS
<1>12. /\ d.task = Seed /\ d.lease = [t \in Tasks |-> NoLease] /\ d.tree = [t \in Tasks |-> "none"]
       /\ d.reserved = Zero /\ d.used = Zero /\ d.consumed = {} /\ d.caps = NoCaps
  BY <1>11 DEF EmptyStore, Seed, InitialProjection, Zero, NoCaps
<1>13. Last(e.ledgers).reserved = d.reserved /\ Last(e.ledgers).used = d.used
  BY <1>1, <1>3, <1>6, <1>12
<1>14. Tells(e, d)
  BY <1>7, <1>8, <1>9, <1>10, <1>12, <1>13, TellsMeans
<1>15. Steady(d)
  BY <1>12 DEF Steady, Seed, InitialProjection
<1>. QED BY <1>11, <1>14, <1>15 DEF e

-----------------------------------------------------------------------------
\* Every step of the scheduler, the evidence it appends and the recovery beside it.

\* The handlers with their rows are the scheduler's handlers.
LEMMA LoggedHandlers ==
  /\ BeginLogged => \/ \E h \in Hosts : BeginTick(h)
                    \/ \E h \in Hosts, t \in Tasks : BeginCancelCheck(h, t) \/ BeginCancel(h, t)
  /\ \A t \in Tasks : /\ ExpireLogged(t) => Expire(t)
                      /\ DispatchLogged(t) => RefreshTask(t) \/ RetryWorktree(t) \/ DispatchReady(t)
                      /\ CancelLogged(t) => Cancel(t)
  /\ \A m : IngestLogged(m) => Ingest(m)
<1>1. ASSUME NEW m, IngestLogged(m)
      PROVE  Ingest(m)
  BY <1>1 DEF IngestLogged, NoteLogged, ApprovalLogged, AcknowledgementLogged, ResultLogged,
              OtherReplyLogged, Ingest
<1>2. ASSUME NEW t \in Tasks
      PROVE  /\ ExpireLogged(t) => Expire(t)
             /\ DispatchLogged(t) => RefreshTask(t) \/ RetryWorktree(t) \/ DispatchReady(t)
             /\ CancelLogged(t) => Cancel(t)
  BY DEF ExpireLogged, Expire, DispatchLogged, DispatchReady, CancelLogged, Cancel
<1>. QED BY <1>1, <1>2 DEF BeginLogged

\* A step within a transaction leaves the file as it is.
Inside == tx.pc # "idle" /\ tx'.pc # "idle" /\ disk' = disk

\* The expiry, readiness, retry and dispatch passes and a cancellation do.
LEMMA PassesInside ==
  ASSUME TypeInv, NEW t \in Tasks,
         Expire(t) \/ RefreshTask(t) \/ RetryWorktree(t) \/ DispatchReady(t) \/ Cancel(t)
  PROVE  Inside
<1>1. tx \in [pc : {"idle", "expire", "ingest", "refresh", "retry", "dispatch",
                    "cancel", "commit"},
              after : {"idle", "ingest", "cancel", "commit"},
              host : Hosts \cup {Scheduler}, target : SUBSET Tasks, i : Nat]
  BY DEF TypeInv, TxOK
<1>2. ASSUME NEW CONSTANT order, NEW due, Visit(order, t, due)
      PROVE  tx'.pc = tx.pc
  BY <1>1, <1>2 DEF Visit
<1>3. CASE Expire(t)
  BY <1>3 DEF Expire, ProposalExpires, LeaseExpires, InTx, Inside
<1>4. CASE RefreshTask(t) \/ RetryWorktree(t)
  <2>1. tx'.pc = tx.pc
    BY <1>2, <1>4 DEF RefreshTask, RetryWorktree
  <2>. QED BY <1>4, <2>1 DEF RefreshTask, RetryWorktree, InTx, Inside
<1>5. CASE DispatchReady(t)
  <2>1. Dispatching(t)
    BY <1>5 DEF DispatchReady, BudgetBlocks, ApprovalBlocks, WorktreeBlocks,
                RequestWorktree, Dispatch
  <2>2. tx'.pc = tx.pc
    BY <1>2, <2>1 DEF Dispatching
  <2>. QED BY <2>1, <2>2 DEF Dispatching, InTx, Inside
<1>6. CASE Cancel(t)
  BY <1>1, <1>6 DEF Cancel, CancelRefused, CancelRepeated, CancelRequested, InTx, Goto, Inside
<1>. QED BY <1>3, <1>4, <1>5, <1>6

\* So does a message, and the end of a pass.
LEMMA OthersInside ==
  ASSUME TypeInv,
         \/ \E m : Ingest(m)
         \/ ExpiryDone \/ IngestDone \/ RefreshDone \/ RetryDone \/ DispatchDone
  PROVE  Inside
<1>1. /\ tx \in [pc : {"idle", "expire", "ingest", "refresh", "retry", "dispatch",
                       "cancel", "commit"},
                 after : {"idle", "ingest", "cancel", "commit"},
                 host : Hosts \cup {Scheduler}, target : SUBSET Tasks, i : Nat]
      /\ tx.pc # "idle" => tx.after # "idle"
  BY DEF TypeInv, TxOK
<1>2. CASE \E m : Ingest(m)
  <2>. PICK m : Ingest(m)
    BY <1>2
  <2>1. Delivering /\ Advance /\ disk' = disk
    BY DEF Ingest, Redelivered, Reject, CapabilityObserved, ApprovalReceived,
                DispatchAccepted, DispatchRejected, Heartbeat, ResultRaises,
                ResultSucceeded, ResultUnsuccessful, CancelAcknowledged,
                WorktreeObserved, Adopt, Adopting
  <2>. QED BY <1>1, <2>1 DEF Delivering, InTx, Advance, Inside
<1>3. CASE ExpiryDone \/ IngestDone \/ RefreshDone \/ RetryDone \/ DispatchDone
  BY <1>1, <1>3 DEF ExpiryDone, IngestDone, RefreshDone, RetryDone, DispatchDone,
                    InTx, Goto, Inside
<1>. QED BY <1>2, <1>3

\* A step of the recovery is no step of the scheduler.
LEMMA RecoveryIsScheduler == [RecoveryNext]_recoveryVars => [Next]_vars
<1>1. EvidenceNext => Next
  <2>. SUFFICES ASSUME EvidenceNext
                PROVE  Next
    OBVIOUS
  <2>1. CASE BeginLogged
    BY <2>1, LoggedHandlers DEF Next, Call
  <2>2. CASE \E t \in Tasks : ExpireLogged(t) \/ DispatchLogged(t) \/ CancelLogged(t)
    BY <2>2, LoggedHandlers DEF Next, Work
  <2>3. CASE \E m \in Deliverable : IngestLogged(m)
    BY <2>3, LoggedHandlers DEF Next, Call
  <2>4. CASE AdvanceClock \/ ExpiryDone \/ IngestDone \/ RefreshDone \/ RetryDone \/ DispatchDone
    BY <2>4 DEF Next, Work, Call
  <2>5. CASE Commit \/ Abort \/ Crash
    BY <2>5 DEF Next, Work, Call
  <2>. QED BY <2>1, <2>2, <2>3, <2>4, <2>5 DEF EvidenceNext
<1>2. Lock \/ Build \/ Publish \/ Finish \/ Die => UNCHANGED vars
  BY DEF Lock, Build, Publish, Finish, Die, Resting, evidenceVars, vars
<1>3. UNCHANGED recoveryVars => UNCHANGED vars
  BY DEF recoveryVars, evidenceVars, vars
<1>. QED BY <1>1, <1>2, <1>3 DEF RecoveryNext

\* Both stores are told by their evidence, they are one when no call is open,
\* and a recovery runs only then: what it has built is what the file holds.
RecoveryInv ==
  /\ AuthorityInv
  /\ Told /\ Tells(kept, disk) /\ Steady(disk)
  /\ tx = Idle => fault = "none" /\ RowsOf(db) = RowsOf(disk) /\ log = kept
  /\ DOMAIN rec = {"pc", "digest", "file"}
  /\ rec.pc # "idle" => tx = Idle
  /\ rec.pc = "publish" => rec.file = [evidence |-> kept, rows |-> RowsOf(disk)]

\* Every step of the scheduler keeps the evidence telling of the rows, and only
\* one that ends a call changes what the file holds.
LEMMA EvidenceTold ==
  ASSUME RecoveryInv, AuthorityInv', EvidenceNext
  PROVE  /\ Told' /\ Tells(kept, disk)' /\ Steady(disk)'
         /\ tx' = Idle => fault' = "none" /\ RowsOf(db)' = RowsOf(disk)' /\ log' = kept'
         /\ tx = Idle => kept' = kept /\ RowsOf(disk)' = RowsOf(disk)
<1>1. /\ TypeInv /\ AuthorityInv /\ Told /\ Tells(log, db) /\ Steady(db)
      /\ Tells(kept, disk) /\ Steady(disk)
      /\ tx = Idle => fault = "none" /\ RowsOf(db) = RowsOf(disk) /\ log = kept
  BY DEF RecoveryInv, Told, AuthorityInv
<1>2. Idle.pc = "idle"
  BY DEF Idle
<1>3. Rows(db')
  <2>1. PICK d : d = db'
    OBVIOUS
  <2>2. StoreType(d) /\ Sound(d)
    BY <2>1 DEF AuthorityInv, TypeInv
  <2>. QED BY <2>1, <2>2, RowsHold
<1>4. ASSUME Inside, Told', UNCHANGED kept
      PROVE  /\ Told' /\ Tells(kept, disk)' /\ Steady(disk)'
             /\ tx' = Idle => fault' = "none" /\ RowsOf(db)' = RowsOf(disk)' /\ log' = kept'
             /\ tx = Idle => kept' = kept /\ RowsOf(disk)' = RowsOf(disk)
  BY <1>1, <1>2, <1>4 DEF Inside, Steady
<1>5. CASE BeginLogged /\ UNCHANGED kept
  <2>1. disk' = disk /\ tx = Idle /\ tx'.pc # "idle"
    BY <1>5 DEF BeginLogged, BeginTick, BeginCancelCheck, BeginCancel, Begin
  <2>2. Tells(log, disk)
    BY <1>1, <2>1
  <2>3. Told'
    BY <1>1, <1>3, <1>5, <2>2, BeginTold
  <2>. QED BY <1>1, <1>2, <1>5, <2>1, <2>3 DEF Steady
<1>6. CASE UNCHANGED kept /\ \E t \in Tasks : ExpireLogged(t) \/ DispatchLogged(t) \/ CancelLogged(t)
  <2>. PICK t \in Tasks : ExpireLogged(t) \/ DispatchLogged(t) \/ CancelLogged(t)
    BY <1>6
  <2>1. Told'
    BY <1>1, <1>3, ExpiryTold, DispatchTold, CancelTold
  <2>2. Inside
    BY <1>1, LoggedHandlers, PassesInside
  <2>. QED BY <1>4, <1>6, <2>1, <2>2
<1>7. CASE UNCHANGED kept /\ \E m \in Deliverable : IngestLogged(m)
  <2>. PICK m \in Deliverable : IngestLogged(m)
    BY <1>7
  <2>1. m \in Messages
    BY <1>1, DeliverableType DEF TypeInv
  <2>2. Told'
    BY <1>1, <1>3, <2>1, IngestTold
  <2>3. Ingest(m)
    BY LoggedHandlers
  <2>4. Inside
    BY <1>1, <2>3, OthersInside
  <2>. QED BY <1>4, <1>7, <2>2, <2>4
<1>8. CASE /\ UNCHANGED <<kept, log>>
           /\ ExpiryDone \/ IngestDone \/ RefreshDone \/ RetryDone \/ DispatchDone
  <2>1. db' = db
    BY <1>8 DEF ExpiryDone, IngestDone, RefreshDone, RetryDone, DispatchDone
  <2>2. Told'
    BY <1>1, <1>8, <2>1 DEF Told, Steady
  <2>3. Inside
    BY <1>1, <1>8, OthersInside
  <2>. QED BY <1>4, <1>8, <2>2, <2>3
<1>9. CASE AdvanceClock /\ UNCHANGED <<kept, log>>
  <2>1. PICK d : d = disk'
    OBVIOUS
  <2>2. /\ d = [disk EXCEPT !.spoke = Scheduler] /\ db' = d /\ tx = Idle /\ fault' = fault
    BY <1>9, <2>1 DEF AdvanceClock
  <2>3. /\ d.task = disk.task /\ d.lease = disk.lease /\ d.tree = disk.tree
        /\ d.consumed = disk.consumed /\ d.caps = disk.caps
        /\ d.reserved = disk.reserved /\ d.used = disk.used
    BY <1>1, <2>2 DEF TypeInv, StoreType
  <2>4. RowsOf(disk) = RowsOf(d)
    BY <2>3 DEF RowsOf
  <2>5. Tells(kept, d) /\ Steady(d)
    BY <1>1, <2>3, <2>4, TellsSame DEF Steady
  <2>. QED BY <1>1, <1>9, <2>1, <2>2, <2>4, <2>5 DEF Told
<1>10. CASE Commit /\ kept' = log /\ UNCHANGED log
  <2>1. disk' = db /\ db' = db /\ fault' = fault /\ fault = "none" /\ tx.pc # "idle"
    BY <1>10 DEF Commit, InTx
  <2>. QED BY <1>1, <1>2, <1>10, <2>1 DEF Told, Steady
<1>11. CASE (Abort \/ Crash) /\ log' = kept /\ UNCHANGED kept
  <2>1. disk' = disk /\ db' = disk /\ fault' = "none" /\ (tx = Idle => fault # "none")
    BY <1>11 DEF Abort, Crash
  <2>. QED BY <1>1, <1>11, <2>1 DEF Told, Steady
<1>. QED BY <1>5, <1>6, <1>7, <1>8, <1>9, <1>10, <1>11 DEF EvidenceNext

\* No step breaks it, of the scheduler or of the recovery.
LEMMA RecoveryStep == RecoveryInv /\ [RecoveryNext]_recoveryVars => RecoveryInv'
<1>. SUFFICES ASSUME RecoveryInv, [RecoveryNext]_recoveryVars
              PROVE  RecoveryInv'
  OBVIOUS
<1>1. AuthorityInv'
  BY RecoveryIsScheduler, AuthorityStep DEF RecoveryInv
<1>2. CASE /\ EvidenceNext /\ (tx = Idle /\ tx' # Idle => MayBegin)
           /\ UNCHANGED <<rec, output>>
  <2>1. /\ Told' /\ Tells(kept, disk)' /\ Steady(disk)'
        /\ tx' = Idle => fault' = "none" /\ RowsOf(db)' = RowsOf(disk)' /\ log' = kept'
        /\ tx = Idle => kept' = kept /\ RowsOf(disk)' = RowsOf(disk)
    BY <1>1, <1>2, EvidenceTold
  <2>2. rec' = rec
    BY <1>2
  <2>3. rec.pc # "idle" => tx = Idle /\ tx' = Idle
    BY <1>2 DEF MayBegin, RecoveryInv
  <2>4. rec.pc = "publish" => rec.file = [evidence |-> kept, rows |-> RowsOf(disk)]'
    BY <2>1, <2>3 DEF RecoveryInv
  <2>. QED BY <1>1, <2>1, <2>2, <2>3, <2>4 DEF RecoveryInv
<1>3. CASE Lock \/ Build \/ Publish \/ Finish \/ Die
  <2>1. UNCHANGED <<disk, db, tx, fault, log, kept>>
    BY <1>3 DEF Lock, Build, Publish, Finish, Die, Resting, evidenceVars, vars
  <2>2. /\ Told' /\ Tells(kept, disk)' /\ Steady(disk)'
        /\ tx' = Idle => fault' = "none" /\ RowsOf(db)' = RowsOf(disk)' /\ log' = kept'
    BY <2>1 DEF RecoveryInv, Told, Steady
  <2>3. rec'.pc # "idle" => tx' = Idle
    BY <1>3, <2>1 DEF Lock, Build, Publish, Finish, Die, RecoveryInv, AtRest
  <2>0. DOMAIN rec = {"pc", "digest", "file"} /\ DOMAIN rec' = {"pc", "digest", "file"}
    BY <1>3 DEF Lock, Build, Publish, Finish, Die, RecoveryInv, AtRest
  <2>4. rec'.pc = "publish" => rec'.file = [evidence |-> kept, rows |-> RowsOf(disk)]
    <3>1. PICK file : file = [evidence |-> kept, rows |-> RowsOf(disk)]
      OBVIOUS
    <3>2. rec.pc = "publish" => rec.file = file
      BY <3>1 DEF RecoveryInv
    <3>3. CASE Build
      <4>1. Rebuilt(kept) = RowsOf(disk)
        BY DEF RecoveryInv, Tells
      <4>2. \/ rec' = [rec EXCEPT !.pc = "publish", !.file = file]
            \/ rec' = AtRest
        BY <3>1, <3>3, <4>1 DEF Build
      <4>3. rec' = AtRest => rec'.pc = "idle"
        BY DEF AtRest
      <4>. QED BY <2>0, <3>1, <4>2, <4>3
    <3>4. CASE Publish
      <4>1. rec'.pc = "finish" \/ rec'.pc = "idle"
        BY <2>0, <3>4 DEF Publish, AtRest
      <4>. QED BY <4>1
    <3>5. CASE Lock \/ Finish \/ Die
      <4>1. DOMAIN AtRest = {"pc", "digest", "file"} /\ AtRest.pc = "idle"
        BY DEF AtRest
      <4>2. \/ rec' = [AtRest EXCEPT !.pc = "build", !.digest = kept]
            \/ rec' = AtRest
        BY <3>5 DEF Lock, Finish, Die
      <4>. QED BY <4>1, <4>2
    <3>. QED BY <1>3, <3>3, <3>4, <3>5
  <2>5. [evidence |-> kept, rows |-> RowsOf(disk)]' = [evidence |-> kept, rows |-> RowsOf(disk)]
    BY <2>1
  <2>. QED BY <1>1, <2>0, <2>2, <2>3, <2>4, <2>5 DEF RecoveryInv
<1>4. CASE UNCHANGED recoveryVars
  BY <1>1, <1>4 DEF recoveryVars, evidenceVars, vars, RecoveryInv, Told, Steady
<1>. QED BY <1>2, <1>3, <1>4 DEF RecoveryNext

\* It holds of a new database, with no recovery at work.
LEMMA RecoveryStart == RecoveryInit => RecoveryInv
<1>. SUFFICES ASSUME RecoveryInit
              PROVE  RecoveryInv
  OBVIOUS
<1>1. Init /\ log = Seeded /\ kept = Seeded /\ rec = AtRest
  BY DEF RecoveryInit, EvidenceInit
<1>2. disk = EmptyStore /\ db = EmptyStore /\ fault = "none"
  BY <1>1 DEF Init
<1>3. AuthorityInv
  BY <1>1, TypeInit, AuthorityInit DEF AuthorityInv
<1>4. Tells(Seeded, EmptyStore) /\ Steady(EmptyStore)
  BY SeededTells
<1>5. rec.pc = "idle" /\ DOMAIN rec = {"pc", "digest", "file"}
  BY <1>1 DEF AtRest
<1>. QED BY <1>1, <1>2, <1>3, <1>4, <1>5 DEF RecoveryInv, Told

\* recover_scheduler_database publishes at most once, onto a path that is free,
\* and what it publishes is the evidence of the source as it is and, rebuilt from
\* it, the mutable rows the scheduler itself had written: for every task graph,
\* budget, vocabulary and set of hosts, however its calls, their crashes and the
\* recovery's own deaths interleave (_rebuild_from_evidence folds the rows every
\* handler appended, and forgets nothing they did).
THEOREM RecoveriesAreLive == RecoverySpec => RecoveredIsLive
<1>1. RecoveryInv /\ [RecoveryNext]_recoveryVars => [PublishesLive]_recoveryVars
  <2>. SUFFICES ASSUME RecoveryInv, [RecoveryNext]_recoveryVars, output' # output
                PROVE  /\ output = NoFile
                       /\ output' = [evidence |-> kept, rows |-> RowsOf(disk)]
    BY DEF PublishesLive
  <2>1. Publish
    BY DEF RecoveryNext, Lock, Build, Finish, Die, recoveryVars
  <2>. QED BY <2>1 DEF Publish, RecoveryInv
<1>. QED BY <1>1, RecoveryStart, RecoveryStep, PTL DEF RecoverySpec, RecoveredIsLive
=============================================================================
