---------------------------- MODULE BudgetProofs ----------------------------
(***************************************************************************)
(* The books of the scheduler: what is reserved is what the current Leases *)
(* have outstanding, nothing exceeds a limit of the graph, every attempt   *)
(* after the first is paid for, and every dispatch has its approvals.      *)
(* Every action that writes the store books in one of four ways.           *)
(***************************************************************************)
EXTENDS AttemptProofs, SumProofs

\* The messages that bear on what a Lease has outstanding.
Billing(m) == \/ m.say.type = "dispatch_intent"
              \/ m.say.type = "dispatch_acknowledgement" /\ m.say.accepted
Bills(d) == {m \in d.mail : Billing(m)}
BillsUnder(d, id) == {m \in Bills(d) : m.lid = id}

\* What the current Lease of t has outstanding.
Owed(d, t) == IF Held(d, t) THEN Outstanding(d, d.lease[t].id) ELSE Nothing
OwedIn(d, r) == [t \in Tasks |-> Owed(d, t)[r]]

\* A Lease is dispatched once, with a reservation that is not negative, before
\* it is acknowledged and before an approval is consumed for it; and no later
\* than its task leaves the phase not_dispatched.
BilledOf(d) ==
  /\ \A m \in d.mail : m.say.type = "dispatch_intent" =>
       /\ m.lid \in LeaseIds
       /\ m.say.reservation \in [AttemptResources -> Nat]
  /\ \A m, n \in d.mail :
       /\ m.say.type = "dispatch_intent" /\ n.say.type = "dispatch_intent"
       /\ m.lid = n.lid
       => m = n
  /\ \A m \in Bills(d) : Dispatched(d, m.lid)
  /\ \A c \in d.consumed : Dispatched(d, c.lid)
  /\ \A t \in Tasks : Held(d, t) /\ d.task[t].phase = "not_dispatched" =>
       ~Dispatched(d, d.lease[t].id)

\* dispatches and retries are only used, concurrency is only reserved.
OneSided(d) ==
  /\ d.reserved["dispatches"] = 0 /\ d.reserved["retries"] = 0
  /\ d.used["concurrency"] = 0

\* A Lease is held by the task it names.
LeasesOwn(d) == \A u \in Tasks : Held(d, u) => d.lease[u].id.task = u

ReservedOf(d) ==
  \A r \in AttemptResources : d.reserved[r] = Total(OwedIn(d, r), Tasks)

Books(d) ==
  /\ BilledOf(d) /\ OneSided(d) /\ ReservedOf(d)
  /\ WithinLimitsIn(d) /\ ApprovalsBoundIn(d)

-----------------------------------------------------------------------------
\* How a step books.

SameLease(d, e, u) ==
  /\ Held(e, u) <=> Held(d, u)
  /\ Held(d, u) => e.lease[u].id = d.lease[u].id
  /\ e.task[u].phase = "not_dispatched" => d.task[u].phase = "not_dispatched"

\* Nothing grows beyond its limit.
Fits(d, e) ==
  \A r \in Resources \ {"wall_time_seconds"} :
    \/ e.reserved[r] + e.used[r] <= d.reserved[r] + d.used[r]
    \/ e.reserved[r] + e.used[r] <= Limit[r]

\* A task that goes from running to ready is charged with a retry.
Repaid(d, e) ==
  /\ d.used["retries"] <= e.used["retries"]
  /\ \A u \in Tasks : d.task[u].state = "running" /\ e.task[u].state = "ready" =>
       d.used["retries"] + 1 <= e.used["retries"]

\* Nothing is dispatched, acknowledged or settled; only a Lease that was never
\* dispatched may come or go.
Waits(d, e, t) ==
  /\ Bills(e) = Bills(d)
  /\ e.consumed = d.consumed
  /\ \A r \in AttemptResources : e.reserved[r] = d.reserved[r]
  /\ \/ SameLease(d, e, t)
     \/ /\ Held(d, t) => ~Dispatched(d, d.lease[t].id)
        /\ Held(e, t) => ~Dispatched(d, e.lease[t].id)

\* A Lease is dispatched, for the first time, with what is reserved for it and
\* an approval for each stop.
Bought(d, e, t, m) ==
  /\ m.say.type = "dispatch_intent"
  /\ m.say.reservation \in [AttemptResources -> Nat]
  /\ m.lid \in LeaseIds /\ m.lid.task = t /\ m.at = now
  /\ ~Dispatched(d, m.lid)
  /\ Held(e, t) /\ e.lease[t].id = m.lid
  /\ e.task[t].phase # "not_dispatched"
  /\ Bills(e) = Bills(d) \cup {m}
  /\ \A r \in AttemptResources : e.reserved[r] = d.reserved[r] + m.say.reservation[r]
  /\ Approved(d, t, m.lid, now)
  /\ e.consumed = d.consumed \cup
       {CHOOSE c \in Grants(d, t, m.lid, stop, now) : TRUE : stop \in ApprovalStops[t]}
Dispatches(d, e, t) ==
  /\ Held(d, t) => ~Dispatched(d, d.lease[t].id)
  /\ \E m : Bought(d, e, t, m)

\* A dispatch is accepted, and its context bytes are used from now on.
Accepts(d, e, t) ==
  /\ Held(d, t) /\ Dispatched(d, d.lease[t].id)
  /\ d.lease[t].id.task = t
  /\ \E m : /\ m.lid = d.lease[t].id
            /\ m.say.type = "dispatch_acknowledgement" /\ m.say.accepted
            /\ Bills(e) = Bills(d) \cup {m}
  /\ e.consumed = d.consumed
  /\ SameLease(d, e, t)
  /\ \A r \in AttemptResources :
       e.reserved[r] = d.reserved[r] - (IF r = "context_bytes" THEN Owed(d, t)[r] ELSE 0)

\* The attempt is over, and nothing of it is outstanding.
Ends(d, e, t) ==
  /\ Bills(e) = Bills(d)
  /\ e.consumed = d.consumed
  /\ ~Held(e, t)
  /\ \A r \in AttemptResources : e.reserved[r] = d.reserved[r] - Owed(d, t)[r]

Booking(d, e, t) ==
  /\ \A u \in Tasks \ {t} : SameLease(d, e, u)
  /\ Fits(d, e) /\ Repaid(d, e)
  /\ OneSided(d) => OneSided(e)
  /\ \/ Waits(d, e, t) \/ Dispatches(d, e, t) \/ Accepts(d, e, t) \/ Ends(d, e, t)

-----------------------------------------------------------------------------
\* What is outstanding depends on few messages.

\* What a Lease has outstanding depends on the bills under it.
LEMMA BillsDecide ==
  ASSUME NEW d, NEW e, NEW id, BillsUnder(d, id) = BillsUnder(e, id)
  PROVE  /\ Dispatched(e, id) <=> Dispatched(d, id)
         /\ Outstanding(e, id) = Outstanding(d, id)
<1>1. Adopted(d, "dispatch_intent", id) = Adopted(e, "dispatch_intent", id)
  BY DEF BillsUnder, Bills, Billing, Adopted
<1>2. ContextSettled(d, id) <=> ContextSettled(e, id)
  <2>1. ASSUME NEW x
        PROVE  ContextSettled(x, id) <=>
                 \E m \in BillsUnder(x, id) : /\ m.say.type = "dispatch_acknowledgement"
                                              /\ m.say.accepted
    BY DEF ContextSettled, Adopted, BillsUnder, Bills, Billing
  <2>. QED BY <2>1
<1>3. Dispatched(d, id) <=> Dispatched(e, id)
  BY <1>1 DEF Dispatched
<1>4. Reserved(d, id) = Reserved(e, id)
  <2>. DEFINE A == Adopted(d, "dispatch_intent", id)
              B == Adopted(e, "dispatch_intent", id)
  <2>1. /\ Reserved(d, id) = IF A # {} THEN (CHOOSE m \in A : TRUE).say.reservation
                                      ELSE Nothing
        /\ Reserved(e, id) = IF B # {} THEN (CHOOSE m \in B : TRUE).say.reservation
                                      ELSE Nothing
    BY DEF Reserved, Dispatched
  <2>2. A = B
    BY <1>1
  <2>. HIDE DEF A, B
  <2>. QED BY <2>1, <2>2
<1>5. ASSUME NEW r \in AttemptResources
      PROVE  (IF r = "context_bytes" /\ ContextSettled(d, id) THEN 0 ELSE Reserved(d, id)[r])
           = (IF r = "context_bytes" /\ ContextSettled(e, id) THEN 0 ELSE Reserved(e, id)[r])
  BY <1>2, <1>4
<1>6. Outstanding(d, id) = Outstanding(e, id)
  BY <1>5 DEF Outstanding
<1>. QED BY <1>3, <1>6

\* A Lease that was not dispatched has nothing outstanding.
LEMMA NothingOutstanding ==
  ASSUME NEW d, NEW id, ~Dispatched(d, id)
  PROVE  Outstanding(d, id) = Nothing
BY DEF Outstanding, Reserved, Nothing

\* A dispatched Lease has what its one intent reserved outstanding, of the
\* context bytes only until it is accepted.
LEMMA OutstandingIs ==
  ASSUME NEW d, BilledOf(d), NEW m \in d.mail, m.say.type = "dispatch_intent"
  PROVE  /\ Reserved(d, m.lid) = m.say.reservation
         /\ Outstanding(d, m.lid) =
              [r \in AttemptResources |->
                 IF r = "context_bytes" /\ ContextSettled(d, m.lid)
                   THEN 0 ELSE m.say.reservation[r]]
<1>1. Adopted(d, "dispatch_intent", m.lid) = {m}
  BY DEF Adopted, BilledOf
<1>. QED BY <1>1 DEF Dispatched, Reserved, Outstanding

\* Nothing owed is negative.
LEMMA OwedType ==
  ASSUME NEW d, BilledOf(d), NEW id
  PROVE  /\ Outstanding(d, id) \in [AttemptResources -> Nat]
         /\ \A t : Owed(d, t) \in [AttemptResources -> Nat]
<1>1. Nothing \in [AttemptResources -> Nat]
  BY DEF Nothing
<1>2. ASSUME NEW x
      PROVE  Outstanding(d, x) \in [AttemptResources -> Nat]
  <2>1. CASE Dispatched(d, x)
    <3>1. PICK m \in d.mail : m.say.type = "dispatch_intent" /\ m.lid = x
      BY <2>1 DEF Dispatched, Adopted
    <3>2. m.say.reservation \in [AttemptResources -> Nat]
      BY <3>1 DEF BilledOf
    <3>3. Outstanding(d, m.lid) =
            [r \in AttemptResources |->
               IF r = "context_bytes" /\ ContextSettled(d, m.lid)
                 THEN 0 ELSE m.say.reservation[r]]
      BY <3>1, OutstandingIs
    <3>. QED BY <3>1, <3>2, <3>3
  <2>2. CASE ~Dispatched(d, x)
    BY <1>1, <2>2, NothingOutstanding
  <2>. QED BY <2>1, <2>2
<1>. QED BY <1>1, <1>2 DEF Owed

\* Amounts are numbers.
LEMMA AmountTypes ==
  ASSUME NEW d, StoreType(d), BilledOf(d), NEW t, NEW r \in AttemptResources
  PROVE  d.reserved[r] \in Int /\ d.used[r] \in Int /\ Owed(d, t)[r] \in Nat
<1>1. d.reserved[r] \in Int /\ d.used[r] \in Int
  BY DEF StoreType, Resources
<1>2. Owed(d, t) \in [AttemptResources -> Nat]
  BY OwedType
<1>3. Owed(d, t)[r] \in Nat
  BY <1>2
<1>. QED BY <1>1, <1>3

\* A task whose Lease stays owes the same as long as no bill under it comes.
LEMMA OwedStays ==
  ASSUME NEW d, NEW e, NEW u, SameLease(d, e, u),
         Held(d, u) => BillsUnder(e, d.lease[u].id) = BillsUnder(d, d.lease[u].id)
  PROVE  Owed(e, u) = Owed(d, u)
BY BillsDecide DEF Owed, SameLease

\* The reservations follow what one task owes.
LEMMA ReservedKept ==
  ASSUME NEW d, NEW e, BilledOf(d), BilledOf(e), StoreType(d), ReservedOf(d),
         NEW t \in Tasks,
         \A u \in Tasks \ {t} : Owed(e, u) = Owed(d, u),
         \A r \in AttemptResources : e.reserved[r] = d.reserved[r] + Owed(e, t)[r]
                                                                   - Owed(d, t)[r]
  PROVE  ReservedOf(e)
<1>1. ASSUME NEW r \in AttemptResources
      PROVE  e.reserved[r] = Total(OwedIn(e, r), Tasks)
  <2>1. \A u \in Tasks : Owed(d, u)[r] \in Int /\ Owed(e, u)[r] \in Int
    BY OwedType
  <2>2. /\ \A u \in Tasks : OwedIn(d, r)[u] = Owed(d, u)[r]
        /\ \A u \in Tasks : OwedIn(e, r)[u] = Owed(e, u)[r]
    BY DEF OwedIn
  <2>. HIDE DEF OwedIn
  <2>3. Total(OwedIn(e, r), Tasks)
          = Total(OwedIn(d, r), Tasks) + OwedIn(e, r)[t] - OwedIn(d, r)[t]
    <3>. DEFINE f == OwedIn(d, r)
                k == OwedIn(e, r)
    <3>1. /\ \A x \in Tasks : f[x] \in Int /\ k[x] \in Int
          /\ \A x \in Tasks \ {t} : f[x] = k[x]
      BY <2>1, <2>2
    <3>. HIDE DEF f, k
    <3>2. Total(k, Tasks) = Total(f, Tasks) + k[t] - f[t]
      BY <3>1, TasksAssumption, TotalChange
    <3>. QED BY <3>2 DEF f, k
  <2>. QED BY <2>2, <2>3 DEF ReservedOf
<1>. QED BY <1>1 DEF ReservedOf

-----------------------------------------------------------------------------
\* However a step books, the books stay right.

\* A lease is filed under the task it names.
LEMMA SoundOwn ==
  ASSUME NEW d, StoreType(d), Sound(d)
  PROVE  LeasesOwn(d)
BY AskedUnder DEF LeasesOwn

\* The limits hold after a step that fits.
LEMMA LimitsKept ==
  ASSUME NEW d, NEW e, StoreType(d), StoreType(e), WithinLimitsIn(d), Fits(d, e)
  PROVE  WithinLimitsIn(e)
<1>1. ASSUME NEW r \in Resources \ {"wall_time_seconds"}
      PROVE  e.reserved[r] + e.used[r] <= Limit[r]
  <2>1. /\ d.reserved[r] \in Int /\ d.used[r] \in Int
        /\ e.reserved[r] \in Int /\ e.used[r] \in Int /\ Limit[r] \in Nat
    BY BudgetAssumption DEF StoreType
  <2>2. d.reserved[r] + d.used[r] <= Limit[r]
    BY DEF WithinLimitsIn
  <2>. QED BY <2>1, <2>2 DEF Fits
<1>. QED BY <1>1 DEF WithinLimitsIn

\* A dispatch keeps its approvals, as long as none is consumed for its Lease.
LEMMA ApprovalsKept ==
  ASSUME NEW d, NEW e, ApprovalsBoundIn(d), d.consumed \subseteq e.consumed,
         NEW m \in d.mail, m.say.type = "dispatch_intent",
         \A c \in e.consumed \ d.consumed : c.lid # m.lid
  PROVE  \A stop \in ApprovalStops[m.lid.task] :
           \E c \in e.consumed :
             /\ c.lid = m.lid /\ c.say.stop = stop /\ c.say.approved
             /\ c.at <= m.at /\ m.at < c.at + c.say.life
             /\ \A x \in e.consumed : x.lid = m.lid /\ x.say.stop = stop => x = c
BY DEF ApprovalsBoundIn

\* Without new intents nor consumed approvals every dispatch keeps its own.
LEMMA ApprovalsSame ==
  ASSUME NEW d, NEW e, ApprovalsBoundIn(d), e.consumed = d.consumed,
         \A m : m.say.type = "dispatch_intent" => (m \in e.mail <=> m \in d.mail)
  PROVE  ApprovalsBoundIn(e)
<1>1. ASSUME NEW m \in e.mail, m.say.type = "dispatch_intent"
      PROVE  \A stop \in ApprovalStops[m.lid.task] :
               \E c \in e.consumed :
                 /\ c.lid = m.lid /\ c.say.stop = stop /\ c.say.approved
                 /\ c.at <= m.at /\ m.at < c.at + c.say.life
                 /\ \A x \in e.consumed : x.lid = m.lid /\ x.say.stop = stop => x = c
  <2>1. m \in d.mail
    BY <1>1
  <2>. QED BY <1>1, <2>1, ApprovalsKept
<1>. QED BY <1>1, Zenon DEF ApprovalsBoundIn

\* The intents of a store, and the rest of the bills.
LEMMA BillsAre ==
  ASSUME NEW d, NEW id
  PROVE  /\ \A m : m.say.type = "dispatch_intent" => (m \in d.mail <=> m \in Bills(d))
         /\ Dispatched(d, id) <=>
              \E m \in Bills(d) : m.say.type = "dispatch_intent" /\ m.lid = id
BY DEF Bills, Billing, Dispatched, Adopted

\* A step that books nothing keeps the books.
LEMMA WaitsBooked ==
  ASSUME NEW d, NEW e, NEW t \in Tasks, StoreType(d), StoreType(e), Books(d),
         Booking(d, e, t), Waits(d, e, t)
  PROVE  Books(e)
<1>1. ASSUME NEW id
      PROVE  /\ BillsUnder(e, id) = BillsUnder(d, id)
             /\ Dispatched(e, id) <=> Dispatched(d, id)
             /\ Outstanding(e, id) = Outstanding(d, id)
  BY BillsDecide DEF Waits, BillsUnder
<1>2. \A u \in Tasks \ {t} : Owed(e, u) = Owed(d, u)
  BY <1>1, OwedStays DEF Booking
<1>3. Owed(e, t) = Owed(d, t)
  <2>1. CASE SameLease(d, e, t)
    BY <1>1, <2>1, OwedStays
  <2>2. CASE /\ Held(d, t) => ~Dispatched(d, d.lease[t].id)
             /\ Held(e, t) => ~Dispatched(d, e.lease[t].id)
    BY <1>1, <2>2, NothingOutstanding DEF Owed
  <2>. QED BY <2>1, <2>2 DEF Waits
<1>4. \A m : m.say.type = "dispatch_intent" => (m \in e.mail <=> m \in d.mail)
  BY BillsAre DEF Waits
<1>5. BilledOf(e)
  <2>1. /\ \A m \in Bills(e) : Dispatched(e, m.lid)
        /\ \A c \in e.consumed : Dispatched(e, c.lid)
    BY <1>1 DEF Waits, Books, BilledOf
  <2>2. ASSUME NEW u \in Tasks, Held(e, u), e.task[u].phase = "not_dispatched"
        PROVE  ~Dispatched(e, e.lease[u].id)
    <3>1. CASE SameLease(d, e, u)
      BY <1>1, <2>2, <3>1 DEF SameLease, Books, BilledOf
    <3>2. CASE u = t /\ ~SameLease(d, e, t)
      BY <1>1, <2>2, <3>2 DEF Waits
    <3>. QED BY <3>1, <3>2 DEF Booking
  <2>. QED BY <1>4, <2>1, <2>2 DEF Books, BilledOf
<1>6. ReservedOf(e)
  <2>1. ASSUME NEW r \in AttemptResources
        PROVE  e.reserved[r] = d.reserved[r] + Owed(e, t)[r] - Owed(d, t)[r]
    <3>1. d.reserved[r] \in Int /\ Owed(d, t)[r] \in Nat
      BY AmountTypes DEF Books
    <3>. QED BY <1>3, <3>1 DEF Waits
  <2>. QED BY <1>2, <1>5, <2>1, ReservedKept DEF Books
<1>7. ApprovalsBoundIn(e)
  BY <1>4, ApprovalsSame DEF Waits, Books
<1>8. WithinLimitsIn(e) /\ OneSided(e)
  BY LimitsKept DEF Booking, Books
<1>. QED BY <1>5, <1>6, <1>7, <1>8 DEF Books

\* A step that ends an attempt and settles its reservation keeps the books.
LEMMA EndsBooked ==
  ASSUME NEW d, NEW e, NEW t \in Tasks, StoreType(d), StoreType(e), Books(d),
         Booking(d, e, t), Ends(d, e, t)
  PROVE  Books(e)
<1>1. ASSUME NEW id
      PROVE  /\ BillsUnder(e, id) = BillsUnder(d, id)
             /\ Dispatched(e, id) <=> Dispatched(d, id)
             /\ Outstanding(e, id) = Outstanding(d, id)
  BY BillsDecide DEF Ends, BillsUnder
<1>2. \A u \in Tasks \ {t} : Owed(e, u) = Owed(d, u)
  BY <1>1, OwedStays DEF Booking
<1>3. Owed(e, t) = Nothing
  BY DEF Ends, Owed
<1>4. \A m : m.say.type = "dispatch_intent" => (m \in e.mail <=> m \in d.mail)
  BY BillsAre DEF Ends
<1>5. BilledOf(e)
  <2>1. /\ \A m \in Bills(e) : Dispatched(e, m.lid)
        /\ \A c \in e.consumed : Dispatched(e, c.lid)
    BY <1>1 DEF Ends, Books, BilledOf
  <2>2. ASSUME NEW u \in Tasks, Held(e, u), e.task[u].phase = "not_dispatched"
        PROVE  ~Dispatched(e, e.lease[u].id)
    <3>1. u # t
      BY <2>2 DEF Ends
    <3>2. SameLease(d, e, u)
      BY <3>1 DEF Booking
    <3>. QED BY <1>1, <2>2, <3>2 DEF SameLease, Books, BilledOf
  <2>. QED BY <1>4, <2>1, <2>2 DEF Books, BilledOf
<1>6. ReservedOf(e)
  <2>1. ASSUME NEW r \in AttemptResources
        PROVE  e.reserved[r] = d.reserved[r] + Owed(e, t)[r] - Owed(d, t)[r]
    <3>1. d.reserved[r] \in Int /\ Owed(d, t)[r] \in Nat
      BY AmountTypes DEF Books
    <3>2. Owed(e, t)[r] = 0
      BY <1>3 DEF Nothing
    <3>. QED BY <3>1, <3>2 DEF Ends
  <2>. QED BY <1>2, <1>5, <2>1, ReservedKept DEF Books
<1>7. ApprovalsBoundIn(e)
  BY <1>4, ApprovalsSame DEF Ends, Books
<1>8. WithinLimitsIn(e) /\ OneSided(e)
  BY LimitsKept DEF Booking, Books
<1>. QED BY <1>5, <1>6, <1>7, <1>8 DEF Books

\* A step that charges an accepted result keeps the books.
LEMMA AcceptsBooked ==
  ASSUME NEW d, NEW e, NEW t \in Tasks, StoreType(d), StoreType(e), LeasesOwn(d), Books(d),
         Booking(d, e, t), Accepts(d, e, t)
  PROVE  Books(e)
<1>. DEFINE id == d.lease[t].id
<1>1. PICK m : /\ m.lid = id
               /\ m.say.type = "dispatch_acknowledgement" /\ m.say.accepted
               /\ Bills(e) = Bills(d) \cup {m}
  BY DEF Accepts
<1>2. \A k : k.say.type = "dispatch_intent" => (k \in e.mail <=> k \in d.mail)
  BY <1>1, BillsAre
<1>3. \A x : Dispatched(e, x) <=> Dispatched(d, x)
  BY <1>2 DEF Dispatched, Adopted
<1>4. Held(d, t) /\ Dispatched(d, id) /\ Held(e, t) /\ e.lease[t].id = id
  BY DEF Accepts, SameLease
<1>5. BilledOf(e)
  <2>1. /\ \A k \in Bills(e) : Dispatched(e, k.lid)
        /\ \A c \in e.consumed : Dispatched(e, c.lid)
    BY <1>1, <1>3, <1>4 DEF Accepts, Books, BilledOf
  <2>2. ASSUME NEW u \in Tasks, Held(e, u), e.task[u].phase = "not_dispatched"
        PROVE  ~Dispatched(e, e.lease[u].id)
    <3>1. SameLease(d, e, u)
      BY DEF Booking, Accepts
    <3>. QED BY <1>3, <2>2, <3>1 DEF SameLease, Books, BilledOf
  <2>. QED BY <1>2, <2>1, <2>2 DEF Books, BilledOf
<1>6. ASSUME NEW u \in Tasks \ {t}
      PROVE  Owed(e, u) = Owed(d, u)
  <2>1. Held(d, u) => d.lease[u].id # id
    BY <1>4 DEF LeasesOwn
  <2>2. Held(d, u) => BillsUnder(e, d.lease[u].id) = BillsUnder(d, d.lease[u].id)
    BY <1>1, <2>1 DEF BillsUnder
  <2>. QED BY <2>2, OwedStays DEF Booking
<1>7. PICK n \in d.mail : n.say.type = "dispatch_intent" /\ n.lid = id
  BY <1>4 DEF Dispatched, Adopted
<1>8. ASSUME NEW r \in AttemptResources
      PROVE  /\ Owed(e, t)[r] = IF r = "context_bytes" THEN 0 ELSE n.say.reservation[r]
             /\ r # "context_bytes" => Owed(d, t)[r] = n.say.reservation[r]
  <2>1. m \in e.mail
    BY <1>1 DEF Bills
  <2>2. ContextSettled(e, id)
    BY <1>1, <2>1 DEF ContextSettled, Adopted
  <2>3. /\ Outstanding(d, id) =
             [q \in AttemptResources |->
                IF q = "context_bytes" /\ ContextSettled(d, id)
                  THEN 0 ELSE n.say.reservation[q]]
        /\ Outstanding(e, id) =
             [q \in AttemptResources |->
                IF q = "context_bytes" /\ ContextSettled(e, id)
                  THEN 0 ELSE n.say.reservation[q]]
    <3>. HIDE DEF id
    <3>1. n \in e.mail
      BY <1>2, <1>7
    <3>2. Outstanding(d, n.lid) =
            [q \in AttemptResources |->
               IF q = "context_bytes" /\ ContextSettled(d, n.lid)
                 THEN 0 ELSE n.say.reservation[q]]
      BY <1>7, OutstandingIs DEF Books
    <3>3. Outstanding(e, n.lid) =
            [q \in AttemptResources |->
               IF q = "context_bytes" /\ ContextSettled(e, n.lid)
                 THEN 0 ELSE n.say.reservation[q]]
      BY <1>5, <1>7, <3>1, OutstandingIs
    <3>. QED BY <1>7, <3>2, <3>3
  <2>4. Owed(d, t) = Outstanding(d, id) /\ Owed(e, t) = Outstanding(e, id)
    BY <1>4 DEF Owed
  <2>. HIDE DEF id
  <2>. QED BY <2>2, <2>3, <2>4
<1>9. ReservedOf(e)
  <2>1. ASSUME NEW r \in AttemptResources
        PROVE  e.reserved[r] = d.reserved[r] + Owed(e, t)[r] - Owed(d, t)[r]
    <3>1. d.reserved[r] \in Int /\ Owed(d, t)[r] \in Nat
      BY AmountTypes DEF Books
    <3>. QED BY <1>8, <3>1 DEF Accepts
  <2>. QED BY <1>5, <1>6, <2>1, ReservedKept DEF Books
<1>10. ApprovalsBoundIn(e)
  BY <1>2, ApprovalsSame DEF Accepts, Books
<1>11. WithinLimitsIn(e) /\ OneSided(e)
  BY LimitsKept DEF Booking, Books
<1>. QED BY <1>5, <1>9, <1>10, <1>11 DEF Books

\* Of the approvals a dispatch consumes, each is for its Lease and its stop.
LEMMA ChosenGrants ==
  ASSUME NEW d, NEW t, NEW id, NEW clock, Approved(d, t, id, clock),
         NEW stop \in ApprovalStops[t],
         NEW c, c = CHOOSE x \in Grants(d, t, id, stop, clock) : TRUE
  PROVE  /\ c.lid = id /\ c.say.stop = stop /\ c.say.approved
         /\ c.at <= clock /\ clock < c.at + c.say.life
<1>1. Grants(d, t, id, stop, clock) # {}
  BY DEF Approved
<1>2. c \in Grants(d, t, id, stop, clock)
  BY <1>1
<1>. QED BY <1>2 DEF Grants, Adopted

\* A step that books an attempt before its intent is sent keeps the books.
LEMMA DispatchesBooked ==
  ASSUME NEW d, NEW e, NEW t \in Tasks, StoreType(d), StoreType(e), LeasesOwn(d), Books(d),
         Booking(d, e, t), Dispatches(d, e, t)
  PROVE  Books(e)
<1>1. PICK m : Bought(d, e, t, m)
  BY DEF Dispatches
<1>. DEFINE id == m.lid
            G(stop) == CHOOSE c \in Grants(d, t, id, stop, now) : TRUE
<1>2. /\ m.say.type = "dispatch_intent" /\ ~Dispatched(d, id) /\ id.task = t
      /\ Bills(e) = Bills(d) \cup {m} /\ m.at = now
      /\ Held(e, t) /\ e.lease[t].id = id
      /\ id \in LeaseIds /\ m.say.reservation \in [AttemptResources -> Nat]
  BY <1>1 DEF Bought
<1>3. \A k : k.say.type = "dispatch_intent" => (k \in e.mail <=> k \in d.mail \/ k = m)
  BY <1>2, BillsAre
<1>4. m \in e.mail
  BY <1>2, <1>3
<1>5. \A x : Dispatched(e, x) <=> Dispatched(d, x) \/ x = id
  BY <1>2, <1>3 DEF Dispatched, Adopted
<1>6. ASSUME NEW stop \in ApprovalStops[t]
      PROVE  /\ G(stop).lid = id /\ G(stop).say.stop = stop /\ G(stop).say.approved
             /\ G(stop).at <= now /\ now < G(stop).at + G(stop).say.life
  BY <1>1, <1>6, ChosenGrants DEF Bought
<1>7. e.consumed = d.consumed \cup {G(stop) : stop \in ApprovalStops[t]}
  BY <1>1 DEF Bought
<1>. HIDE DEF G
<1>8. BilledOf(e)
  <2>1. ASSUME NEW k \in e.mail, k.say.type = "dispatch_intent"
        PROVE  /\ k.lid \in LeaseIds
               /\ k.say.reservation \in [AttemptResources -> Nat]
               /\ k = m \/ (k \in d.mail /\ k.lid # id)
    <3>1. CASE k = m
      BY <1>2, <3>1
    <3>2. CASE k \in d.mail
      BY <1>2, <2>1, <3>2 DEF Books, BilledOf, Dispatched, Adopted
    <3>. QED BY <1>3, <2>1, <3>1, <3>2
  <2>2. /\ \A k \in Bills(e) : Dispatched(e, k.lid)
        /\ \A c \in e.consumed : Dispatched(e, c.lid)
    BY <1>2, <1>5, <1>6, <1>7 DEF Books, BilledOf
  <2>3. ASSUME NEW u \in Tasks, Held(e, u), e.task[u].phase = "not_dispatched"
        PROVE  ~Dispatched(e, e.lease[u].id)
    <3>1. u # t
      BY <1>1, <2>3 DEF Bought
    <3>2. SameLease(d, e, u)
      BY <3>1 DEF Booking
    <3>3. /\ d.lease[u].id = e.lease[u].id /\ d.lease[u].id.task = u
          /\ ~Dispatched(d, d.lease[u].id)
      BY <2>3, <3>2 DEF SameLease, Books, BilledOf, LeasesOwn
    <3>. QED BY <1>2, <1>5, <3>1, <3>3
  <2>. QED BY <2>1, <2>2, <2>3 DEF Books, BilledOf
<1>9. ASSUME NEW u \in Tasks \ {t}
      PROVE  Owed(e, u) = Owed(d, u)
  <2>1. Held(d, u) => d.lease[u].id # id
    BY <1>2 DEF LeasesOwn
  <2>2. Held(d, u) => BillsUnder(e, d.lease[u].id) = BillsUnder(d, d.lease[u].id)
    BY <1>2, <2>1 DEF BillsUnder
  <2>. QED BY <2>2, OwedStays DEF Booking
<1>10. ~ContextSettled(e, id)
  <2>1. ASSUME NEW k \in e.mail, k.lid = id,
               k.say.type = "dispatch_acknowledgement", k.say.accepted
        PROVE  FALSE
    <3>1. k \in Bills(d)
      BY <1>2, <2>1 DEF Bills, Billing
    <3>. QED BY <1>2, <2>1, <3>1 DEF Books, BilledOf
  <2>. QED BY <2>1 DEF ContextSettled, Adopted
<1>11. ASSUME NEW r \in AttemptResources
       PROVE  Owed(e, t)[r] = m.say.reservation[r] /\ Owed(d, t)[r] = 0
  <2>1. Outstanding(e, id) =
          [q \in AttemptResources |->
             IF q = "context_bytes" /\ ContextSettled(e, id)
               THEN 0 ELSE m.say.reservation[q]]
    BY <1>2, <1>4, <1>8, OutstandingIs
  <2>2. Owed(e, t) = Outstanding(e, id)
    BY <1>2 DEF Owed
  <2>3. Owed(d, t) = Nothing
    BY NothingOutstanding DEF Owed, Dispatches
  <2>. HIDE DEF id
  <2>. QED BY <1>10, <2>1, <2>2, <2>3 DEF Nothing
<1>12. ReservedOf(e)
  <2>1. ASSUME NEW r \in AttemptResources
        PROVE  e.reserved[r] = d.reserved[r] + Owed(e, t)[r] - Owed(d, t)[r]
    <3>1. d.reserved[r] \in Int /\ m.say.reservation[r] \in Nat
      BY <1>2, AmountTypes DEF Books
    <3>. QED BY <1>1, <1>11, <3>1 DEF Bought
  <2>. QED BY <1>8, <1>9, <2>1, ReservedKept DEF Books
<1>13. ApprovalsBoundIn(e)
  <2>1. ASSUME NEW k \in e.mail, k.say.type = "dispatch_intent"
        PROVE  \A stop \in ApprovalStops[k.lid.task] :
                 \E c \in e.consumed :
                   /\ c.lid = k.lid /\ c.say.stop = stop /\ c.say.approved
                   /\ c.at <= k.at /\ k.at < c.at + c.say.life
                   /\ \A x \in e.consumed : x.lid = k.lid /\ x.say.stop = stop => x = c
    <3>1. CASE k \in d.mail
      <4>1. k.lid # id
        BY <1>2, <2>1, <3>1 DEF Dispatched, Adopted
      <4>2. /\ d.consumed \subseteq e.consumed
            /\ \A c \in e.consumed \ d.consumed : c.lid # k.lid
        BY <1>6, <1>7, <4>1
      <4>. QED BY <2>1, <3>1, <4>2, ApprovalsKept DEF Books
    <3>2. CASE k = m
      <4>1. ASSUME NEW stop \in ApprovalStops[t]
            PROVE  /\ G(stop) \in e.consumed
                   /\ \A x \in e.consumed : x.lid = id /\ x.say.stop = stop => x = G(stop)
        <5>1. \A x \in d.consumed : x.lid # id
          BY <1>2 DEF Books, BilledOf
        <5>. QED BY <1>6, <1>7, <5>1
      <4>. QED BY <1>2, <1>6, <3>2, <4>1
    <3>. QED BY <1>3, <2>1, <3>1, <3>2
  <2>. QED BY <2>1, Zenon DEF ApprovalsBoundIn
<1>14. WithinLimitsIn(e) /\ OneSided(e)
  BY LimitsKept DEF Booking, Books
<1>. QED BY <1>8, <1>12, <1>13, <1>14 DEF Books

\* The books stay right.
LEMMA BooksKept ==
  ASSUME NEW d, NEW e, NEW t \in Tasks, StoreType(d), StoreType(e), LeasesOwn(d), Books(d),
         Booking(d, e, t)
  PROVE  Books(e)
BY WaitsBooked, DispatchesBooked, AcceptsBooked, EndsBooked DEF Booking

-----------------------------------------------------------------------------
\* What the operators on stores book.

\* Moving or readying a task books nothing.
LEMMA MovedBooks ==
  ASSUME NEW d, StoreType(d), NEW t \in Tasks, NEW state, NEW phase,
         NEW outcome, NEW blockers, NEW e,
         e = Moved(d, t, state, phase, outcome, blockers)
  PROVE  /\ e.used = d.used /\ e.consumed = d.consumed
         /\ e.task[t].phase = phase
<1>1. d.task[t] \in TaskRows
  BY DEF StoreType
<1>. DEFINE row == [d.task[t] EXCEPT !.state = state, !.phase = phase,
                                     !.outcome = outcome, !.blockers = blockers]
<1>2. row.phase = phase
  BY <1>1 DEF TaskRows
<1>3. e = [d EXCEPT !.task = [d.task EXCEPT ![t] = row]]
  BY DEF Moved, StoreType
<1>. HIDE DEF row
<1>. QED BY <1>2, <1>3 DEF StoreType

\* The readiness pass neither charges nor approves.
LEMMA ReadiedBooks ==
  ASSUME NEW d, StoreType(d), NEW t \in Tasks, NEW state, NEW blockers, NEW e,
         e = Readied(d, t, state, blockers)
  PROVE  /\ e.used = d.used /\ e.consumed = d.consumed
         /\ e.task[t].phase = d.task[t].phase
<1>1. d.task[t] \in TaskRows
  BY DEF StoreType
<1>. DEFINE row == [d.task[t] EXCEPT !.state = state, !.blockers = blockers]
<1>2. row.phase = d.task[t].phase
  BY <1>1 DEF TaskRows
<1>3. e = [d EXCEPT !.task = [d.task EXCEPT ![t] = row]]
  BY DEF Readied, StoreType
<1>. HIDE DEF row
<1>. QED BY <1>2, <1>3 DEF StoreType

\* Nothing is booked where only the concurrency slot is taken.
LEMMA PlainBooks ==
  ASSUME NEW d, NEW e, NEW t \in Tasks, StoreType(d),
         Bills(e) = Bills(d), e.consumed = d.consumed,
         \A r \in Resources \ {"concurrency", "wall_time_seconds"} :
           e.reserved[r] = d.reserved[r] /\ e.used[r] = d.used[r],
         e.used["concurrency"] = d.used["concurrency"],
         \/ e.reserved["concurrency"] = d.reserved["concurrency"]
         \/ e.reserved["concurrency"] + e.used["concurrency"] <= Limit["concurrency"],
         \A u \in Tasks \ {t} : SameLease(d, e, u),
         \/ SameLease(d, e, t)
         \/ /\ Held(d, t) => ~Dispatched(d, d.lease[t].id)
            /\ Held(e, t) => ~Dispatched(d, e.lease[t].id),
         \A u \in Tasks : d.task[u].state = "running" => e.task[u].state # "ready"
  PROVE  Booking(d, e, t)
<1>1. \A r \in Resources : d.reserved[r] \in Int /\ d.used[r] \in Int
  BY DEF StoreType
<1>2. Fits(d, e)
  <2>1. ASSUME NEW r \in Resources \ {"wall_time_seconds"}
        PROVE  \/ e.reserved[r] + e.used[r] <= d.reserved[r] + d.used[r]
               \/ e.reserved[r] + e.used[r] <= Limit[r]
    BY <1>1
  <2>. QED BY <2>1 DEF Fits
<1>3. Repaid(d, e)
  BY <1>1 DEF Repaid, Resources
<1>4. OneSided(d) => OneSided(e)
  BY DEF OneSided, Resources
<1>5. Waits(d, e, t)
  BY DEF Waits, Resources, AttemptResources
<1>. QED BY <1>2, <1>3, <1>4, <1>5 DEF Booking

\* An attempt that ends is charged no more than it has outstanding.
LEMMA EndingBooks ==
  ASSUME NEW d, StoreType(d), Books(d), NEW t \in Tasks, Held(d, t),
         NEW charge \in [AttemptResources -> Int],
         \A r \in AttemptResources : charge[r] <= Owed(d, t)[r],
         NEW c, c = Closed(d, t, charge), NEW e,
         \/ /\ d.used["retries"] < Limit["retries"]
            /\ \E reason : e = Retried(c, t, reason)
         \/ \E state, phase, outcome, blockers :
              state # "ready" /\ e = Moved(c, t, state, phase, outcome, blockers)
  PROVE  Booking(d, e, t)
<1>. DEFINE out == Outstanding(d, d.lease[t].id)
            low == Lowered(SlotFreed(d), out)
            high == Raised(d.used, charge)
<1>1. c = [d EXCEPT !.lease = [d.lease EXCEPT ![t] = NoLease],
                    !.tree = [d.tree EXCEPT ![t] = "none"],
                    !.reserved = low,
                    !.used = high]
  BY DEF Closed, StoreType
<1>2. /\ \A r \in AttemptResources : low[r] = d.reserved[r] - out[r]
      /\ \A r \in AttemptResources : high[r] = d.used[r] + charge[r]
      /\ low["concurrency"] = d.reserved["concurrency"] - 1
      /\ \A r \in {"dispatches", "retries"} : low[r] = d.reserved[r]
      /\ \A r \in {"dispatches", "retries", "concurrency"} : high[r] = d.used[r]
      /\ high \in [Resources -> Int]
  BY DEF Lowered, SlotFreed, Raised, Resources, AttemptResources, StoreType
<1>3. Owed(d, t) = out
  BY DEF Owed
<1>4. StoreType(c)
  BY ClosedType
<1>5. /\ \A r \in AttemptResources : out[r] \in Nat /\ charge[r] \in Int /\ charge[r] <= out[r]
      /\ \A r \in Resources : d.reserved[r] \in Int /\ d.used[r] \in Int /\ Limit[r] \in Nat
  <2>1. \A r \in AttemptResources : out[r] \in Nat
    BY <1>3, AmountTypes DEF Books
  <2>. QED BY <1>3, <2>1, BudgetAssumption DEF StoreType
<1>. HIDE DEF low, high, out
<1>6. /\ c.lease = [d.lease EXCEPT ![t] = NoLease]
      /\ c.reserved = low /\ c.used = high
      /\ c.mail = d.mail /\ c.consumed = d.consumed /\ c.task = d.task
  BY <1>1 DEF StoreType
<1>7. c.lease[t] = NoLease /\ \A u \in Tasks \ {t} : c.lease[u] = d.lease[u]
  BY <1>6 DEF StoreType
\* Whatever the task becomes; g is what is used in the end.
<1>8. ASSUME NEW f, f.lease = c.lease, f.mail = c.mail, f.consumed = c.consumed,
             f.reserved = c.reserved, \A u \in Tasks \ {t} : f.task[u] = c.task[u],
             \A r \in Resources \ {"retries"} : f.used[r] = c.used[r],
             \/ f.used["retries"] = c.used["retries"] /\ f.task[t].state # "ready"
             \/ /\ f.used["retries"] = c.used["retries"] + 1
                /\ d.used["retries"] < Limit["retries"]
      PROVE  Booking(d, f, t)
  <2>1. /\ \A u \in Tasks \ {t} : SameLease(d, f, u)
        /\ ~Held(f, t) /\ Bills(f) = Bills(d) /\ f.consumed = d.consumed
    BY <1>6, <1>7, <1>8 DEF SameLease, Held, Bills
  <2>2. /\ \A r \in AttemptResources : f.reserved[r] = d.reserved[r] - out[r]
        /\ \A r \in AttemptResources : f.used[r] = d.used[r] + charge[r]
        /\ f.reserved["concurrency"] = d.reserved["concurrency"] - 1
        /\ f.used["concurrency"] = d.used["concurrency"]
        /\ \A r \in {"dispatches", "retries"} : f.reserved[r] = d.reserved[r]
        /\ f.used["dispatches"] = d.used["dispatches"]
        /\ \/ f.used["retries"] = d.used["retries"] /\ f.task[t].state # "ready"
           \/ /\ f.used["retries"] = d.used["retries"] + 1
              /\ d.used["retries"] < Limit["retries"]
    BY <1>2, <1>6, <1>8 DEF Resources, AttemptResources
  <2>3. OneSided(d)
    BY DEF Books
  <2>4. Fits(d, f)
    <3>1. ASSUME NEW r \in Resources \ {"wall_time_seconds"}
          PROVE  \/ f.reserved[r] + f.used[r] <= d.reserved[r] + d.used[r]
                 \/ f.reserved[r] + f.used[r] <= Limit[r]
      <4>1. CASE r \in AttemptResources
        BY <1>5, <2>2, <4>1
      <4>2. CASE r = "concurrency"
        BY <1>5, <2>2, <4>2
      <4>3. CASE r = "dispatches"
        BY <1>5, <2>2, <4>3
      <4>4. CASE r = "retries"
        BY <1>5, <2>2, <2>3, <4>4 DEF OneSided
      <4>. QED BY <4>1, <4>2, <4>3, <4>4 DEF Resources
    <3>. QED BY <3>1 DEF Fits
  <2>5. Repaid(d, f)
    <3>1. d.used["retries"] \in Int
      BY <1>5 DEF Resources
    <3>. QED BY <1>6, <1>8, <2>2, <3>1 DEF Repaid
  <2>6. Ends(d, f, t)
    BY <1>3, <2>1, <2>2 DEF Ends
  <2>7. OneSided(f)
    BY <2>2, <2>3 DEF OneSided
  <2>. QED BY <2>1, <2>4, <2>5, <2>6, <2>7 DEF Booking
<1>9. ASSUME NEW state, NEW phase, NEW outcome, NEW blockers, NEW f,
             f = Moved(c, t, state, phase, outcome, blockers)
      PROVE  /\ f.lease = c.lease /\ f.mail = c.mail /\ f.consumed = c.consumed
             /\ f.reserved = c.reserved /\ f.used = c.used
             /\ f.task[t].state = state
             /\ \A u \in Tasks \ {t} : f.task[u] = c.task[u]
  BY <1>4, <1>9, MovedParts, MovedBooks
<1>10. ASSUME NEW state, NEW phase, NEW outcome, NEW blockers, state # "ready",
              e = Moved(c, t, state, phase, outcome, blockers)
       PROVE  Booking(d, e, t)
  BY <1>8, <1>9, <1>10
<1>11. ASSUME d.used["retries"] < Limit["retries"], NEW reason, e = Retried(c, t, reason)
       PROVE  Booking(d, e, t)
  <2>. DEFINE f == Moved(c, t, "ready", "not_dispatched", "failed", {reason})
  <2>1. /\ f.lease = c.lease /\ f.mail = c.mail /\ f.consumed = c.consumed
        /\ f.reserved = c.reserved /\ f.used = c.used
        /\ \A u \in Tasks \ {t} : f.task[u] = c.task[u]
    BY <1>9
  <2>2. e = [f EXCEPT !.used = [f.used EXCEPT !["retries"] = @ + 1]]
    BY <1>11 DEF Retried
  <2>3. DOMAIN f = DOMAIN c
    BY DEF Moved
  <2>. HIDE DEF f
  <2>4. /\ e.lease = f.lease /\ e.mail = f.mail /\ e.consumed = f.consumed
        /\ e.reserved = f.reserved /\ e.task = f.task
        /\ e.used = [f.used EXCEPT !["retries"] = @ + 1]
    BY <1>4, <2>2, <2>3 DEF StoreType
  <2>5. /\ \A r \in Resources \ {"retries"} : e.used[r] = c.used[r]
        /\ e.used["retries"] = c.used["retries"] + 1
    BY <1>2, <1>6, <2>1, <2>4 DEF Resources
  <2>. QED BY <1>8, <1>11, <2>1, <2>4, <2>5
<1>. QED BY <1>10, <1>11

\* A reservation is not negative.
LEMMA ReservationNat ==
  ASSUME NEW d, StoreType(d), NEW t \in Tasks
  PROVE  Reservation(d, t) \in [AttemptResources -> Nat]
<1>. DEFINE left == Limit["microunits"] - d.reserved["microunits"] - d.used["microunits"]
<1>1. left \in Int
  BY BudgetAssumption DEF StoreType, Resources, AttemptResources
<1>2. Cost[t]["context_bytes"] \in Nat /\ Cost[t]["tool_calls"] \in Nat
  BY BudgetAssumption
<1>3. Reservation(d, t) = [r \in AttemptResources |->
                             IF r = "microunits" THEN IF left > 0 THEN left ELSE 0
                                                 ELSE Cost[t][r]]
  BY DEF Reservation
<1>. HIDE DEF left
<1>. QED BY <1>1, <1>2, <1>3 DEF AttemptResources

\* What an intent says and books.
IntentBooked(d, e, t, id) ==
  /\ \E m : /\ m.say.type = "dispatch_intent"
           /\ m.say.reservation = Reservation(d, t)
           /\ m.lid = id /\ m.at = now
           /\ e.mail = d.mail \cup {m}
  /\ e.task = d.task /\ e.lease = d.lease /\ e.consumed = d.consumed
  /\ \A r \in AttemptResources : e.reserved[r] = d.reserved[r] + Reservation(d, t)[r]
  /\ \A r \in Resources \ AttemptResources : e.reserved[r] = d.reserved[r]
  /\ \A r \in Resources \ {"dispatches"} : e.used[r] = d.used[r]
  /\ e.used["dispatches"] = d.used["dispatches"] + 1

\* Sending it books that.
LEMMA IntentBooks ==
  ASSUME NEW d, StoreType(d), NEW t \in Tasks, NEW id
  PROVE  IntentBooked(d, Intent(d, t, id, now), t, id)
<1>. DEFINE e == Intent(d, t, id, now)
<1>. DEFINE m == Outgoing([type |-> "dispatch_intent",
                           reservation |-> Reservation(d, t)], id, now)
            high == Raised(d.reserved, Reservation(d, t))
<1>1. /\ m.say.type = "dispatch_intent" /\ m.say.reservation = Reservation(d, t)
      /\ m.lid = id /\ m.at = now
  BY DEF Outgoing
<1>2. /\ \A r \in AttemptResources : high[r] = d.reserved[r] + Reservation(d, t)[r]
      /\ \A r \in Resources \ AttemptResources : high[r] = d.reserved[r]
  BY DEF Raised, Resources
<1>3. e = [d EXCEPT !.mail = d.mail \cup {m}, !.reserved = high,
                    !.used = [d.used EXCEPT !["dispatches"] = @ + 1]]
  BY DEF Intent, StoreType
<1>. HIDE DEF m, high, e
<1>4. /\ e.mail = d.mail \cup {m} /\ e.reserved = high
      /\ e.used = [d.used EXCEPT !["dispatches"] = @ + 1]
      /\ e.task = d.task /\ e.lease = d.lease /\ e.consumed = d.consumed
  BY <1>3 DEF StoreType
<1>5. /\ \A r \in Resources \ {"dispatches"} : e.used[r] = d.used[r]
      /\ e.used["dispatches"] = d.used["dispatches"] + 1
  BY <1>4 DEF StoreType, Resources
<1>6. IntentBooked(d, e, t, id)
  BY <1>1, <1>2, <1>4, <1>5 DEF IntentBooked
<1>. QED BY <1>6 DEF e

\* A dispatch within the budget, under a Lease that was not dispatched yet; c
\* is the store with the Lease, the slot and the approvals taken.
LEMMA DispatchBooks ==
  ASSUME NEW d, StoreType(d), Books(d), NEW t \in Tasks,
         NEW id \in LeaseIds, id.task = t, ~Dispatched(d, id),
         Held(d, t) => ~Dispatched(d, d.lease[t].id),
         NEW slots \in {0, 1}, BudgetAllows(d, t, slots), Approved(d, t, id, now),
         NEW c, StoreType(c), c.mail = d.mail, c.used = d.used,
         c.consumed = d.consumed \cup
           {CHOOSE m \in Grants(d, t, id, stop, now) : TRUE : stop \in ApprovalStops[t]},
         \A r \in Resources \ {"concurrency"} : c.reserved[r] = d.reserved[r],
         c.reserved["concurrency"] = d.reserved["concurrency"] + slots,
         Held(c, t), c.lease[t].id = id,
         c.task[t].phase = "intent_pending", c.task[t].state = "running",
         \A u \in Tasks \ {t} : c.task[u] = d.task[u] /\ c.lease[u] = d.lease[u],
         NEW e, e = Intent(c, t, id, now)
  PROVE  Booking(d, e, t)
<1>1. Reservation(c, t) = Reservation(d, t)
  BY DEF Reservation, Resources, AttemptResources
<1>0. IntentBooked(c, e, t, id)
  BY IntentBooks
<1>2. PICK m : /\ m.say.type = "dispatch_intent"
               /\ m.say.reservation = Reservation(d, t)
               /\ m.lid = id /\ m.at = now
               /\ e.mail = d.mail \cup {m}
  BY <1>1, <1>0 DEF IntentBooked
<1>3. /\ e.task = c.task /\ e.lease = c.lease /\ e.consumed = c.consumed
      /\ \A r \in AttemptResources :
           e.reserved[r] = d.reserved[r] + Reservation(d, t)[r]
      /\ \A r \in {"dispatches", "retries"} : e.reserved[r] = d.reserved[r]
      /\ e.reserved["concurrency"] = d.reserved["concurrency"] + slots
      /\ \A r \in Resources \ {"dispatches"} : e.used[r] = d.used[r]
      /\ e.used["dispatches"] = d.used["dispatches"] + 1
  <2>1. /\ e.task = c.task /\ e.lease = c.lease /\ e.consumed = c.consumed
        /\ \A r \in AttemptResources :
             e.reserved[r] = c.reserved[r] + Reservation(d, t)[r]
        /\ \A r \in Resources \ AttemptResources : e.reserved[r] = c.reserved[r]
        /\ \A r \in Resources \ {"dispatches"} : e.used[r] = d.used[r]
        /\ e.used["dispatches"] = d.used["dispatches"] + 1
    BY <1>1, <1>0 DEF IntentBooked
  <2>. QED BY <2>1 DEF Resources, AttemptResources
<1>4. /\ Reservation(d, t) \in [AttemptResources -> Nat]
      /\ \A r \in Resources : d.reserved[r] \in Int /\ d.used[r] \in Int /\ Limit[r] \in Nat
      /\ OneSided(d)
  BY ReservationNat, BudgetAssumption DEF StoreType, Books
<1>5. /\ \A u \in Tasks \ {t} : SameLease(d, e, u)
      /\ Held(e, t) /\ e.lease[t].id = id
      /\ e.task[t].phase # "not_dispatched"
      /\ \A u \in Tasks : d.task[u].state = "running" => e.task[u].state # "ready"
  BY <1>3 DEF SameLease, Held
<1>6. Fits(d, e)
  <2>1. /\ d.used["dispatches"] < Limit["dispatches"]
        /\ d.reserved["concurrency"] + slots <= Limit["concurrency"]
        /\ \A r \in AttemptResources :
             d.reserved[r] + d.used[r] + Reservation(d, t)[r] <= Limit[r]
    BY DEF BudgetAllows
  <2>2. ASSUME NEW r \in Resources \ {"wall_time_seconds"}
        PROVE  \/ e.reserved[r] + e.used[r] <= d.reserved[r] + d.used[r]
               \/ e.reserved[r] + e.used[r] <= Limit[r]
    <3>1. CASE r \in AttemptResources
      <4>1. /\ e.reserved[r] = d.reserved[r] + Reservation(d, t)[r]
            /\ e.used[r] = d.used[r]
        BY <1>3, <3>1 DEF Resources, AttemptResources
      <4>2. Reservation(d, t)[r] \in Nat
        BY <1>4, <3>1
      <4>. QED BY <1>4, <2>1, <3>1, <4>1, <4>2
    <3>2. CASE r = "concurrency"
      BY <1>3, <1>4, <2>1, <3>2 DEF OneSided
    <3>3. CASE r = "dispatches"
      BY <1>3, <1>4, <2>1, <3>3 DEF OneSided
    <3>4. CASE r = "retries"
      BY <1>3, <1>4, <3>4
    <3>. QED BY <3>1, <3>2, <3>3, <3>4 DEF Resources
  <2>. QED BY <2>2 DEF Fits
<1>7. Repaid(d, e)
  BY <1>3, <1>4, <1>5 DEF Repaid, Resources
<1>8. OneSided(e)
  BY <1>3, <1>4 DEF OneSided, Resources
<1>9. Bills(e) = Bills(d) \cup {m}
  BY <1>2 DEF Bills, Billing
<1>10. Bought(d, e, t, m)
  BY <1>2, <1>3, <1>4, <1>5, <1>9 DEF Bought
<1>. QED BY <1>5, <1>6, <1>7, <1>8, <1>10 DEF Booking, Dispatches

\* A dispatch held back by its worktree goes out, or waits on.
LEMMA ResumedBooks ==
  ASSUME NEW d, StoreType(d), Books(d), NEW t \in Tasks, Held(d, t),
         d.lease[t].id.task = t,
         d.task[t].state = "running", d.task[t].phase = "not_dispatched",
         now \in Nat, NEW e, e = Resumed(d, t, now)
  PROVE  Booking(d, e, t)
<1>. DEFINE id == d.lease[t].id
            pending == [d EXCEPT !.task[t].phase = "intent_pending",
                                 !.task[t].blockers = {}]
<1>0. d.task[t] \in TaskRows
  BY DEF StoreType
<1>1. CASE ~BudgetAllows(d, t, 0)
  <2>1. e = Moved(d, t, "running", "not_dispatched", "none", {"budget-exhausted"})
    BY <1>1 DEF Resumed
  <2>2. /\ e.lease = d.lease /\ e.mail = d.mail /\ e.reserved = d.reserved
        /\ e.used = d.used /\ e.consumed = d.consumed
        /\ e.task[t].state = "running" /\ e.task[t].phase = "not_dispatched"
        /\ \A u \in Tasks \ {t} : e.task[u] = d.task[u]
    BY <2>1, MovedParts, MovedBooks
  <2>3. /\ \A u \in Tasks : SameLease(d, e, u)
        /\ \A u \in Tasks : d.task[u].state = "running" => e.task[u].state # "ready"
        /\ Bills(e) = Bills(d)
    BY <2>2 DEF SameLease, Held, Bills
  <2>. QED BY <2>2, <2>3, PlainBooks
<1>2. CASE BudgetAllows(d, t, 0) /\ ~Approved(d, t, id, now)
  <2>. DEFINE row == [d.task[t] EXCEPT !.blockers = {"approval-required"}]
  <2>1. e = [d EXCEPT !.task = [d.task EXCEPT ![t] = row]]
    BY <1>2 DEF Resumed, StoreType
  <2>2. row.state = d.task[t].state /\ row.phase = d.task[t].phase
    BY <1>0 DEF TaskRows
  <2>. HIDE DEF row
  <2>3. /\ e.lease = d.lease /\ e.mail = d.mail /\ e.reserved = d.reserved
        /\ e.used = d.used /\ e.consumed = d.consumed
        /\ e.task = [d.task EXCEPT ![t] = row]
    BY <2>1 DEF StoreType
  <2>4. e.task[t] = row /\ \A u \in Tasks \ {t} : e.task[u] = d.task[u]
    BY <2>3 DEF StoreType
  <2>5. /\ \A u \in Tasks : SameLease(d, e, u)
        /\ \A u \in Tasks : d.task[u].state = "running" => e.task[u].state # "ready"
        /\ Bills(e) = Bills(d)
    BY <2>2, <2>3, <2>4 DEF SameLease, Held, Bills
  <2>. QED BY <2>3, <2>5, PlainBooks
<1>3. CASE BudgetAllows(d, t, 0) /\ Approved(d, t, id, now)
  <2>. DEFINE row == [d.task[t] EXCEPT !.phase = "intent_pending", !.blockers = {}]
              c == Consumed(pending, t, id, now)
  <2>1. e = Intent(c, t, id, now)
    BY <1>3 DEF Resumed
  <2>2. /\ row.state = d.task[t].state
        /\ row.phase = "intent_pending"
        /\ row \in TaskRows
    BY <1>0 DEF TaskRows, Phases
  <2>3. pending = [d EXCEPT !.task = [d.task EXCEPT ![t] = row]]
    BY DEF StoreType
  <2>4. id \in LeaseIds
    BY HeldType
  <2>5. ~Dispatched(d, id)
    BY DEF Books, BilledOf
  <2>. HIDE DEF row, pending
  <2>6. /\ StoreType(pending) /\ pending.task = [d.task EXCEPT ![t] = row]
        /\ pending.lease = d.lease /\ pending.reserved = d.reserved
        /\ pending.mail = d.mail /\ pending.consumed = d.consumed
        /\ pending.used = d.used
    BY <2>2, <2>3 DEF StoreType
  <2>7. \A stop : Grants(pending, t, id, stop, now) = Grants(d, t, id, stop, now)
    BY <2>6, GrantsDepend
  <2>8. Approved(pending, t, id, now)
    BY <1>3, <2>7 DEF Approved
  <2>9. StoreType(c)
    BY <2>6, <2>8, ConsumedType
  <2>10. /\ c.task = pending.task /\ c.lease = d.lease /\ c.mail = d.mail
         /\ c.reserved = d.reserved /\ c.used = d.used
         /\ c.consumed = d.consumed \cup
              {CHOOSE m \in Grants(d, t, id, stop, now) : TRUE : stop \in ApprovalStops[t]}
    <3>1. c = [pending EXCEPT !.consumed = pending.consumed \cup
                 {CHOOSE m \in Grants(pending, t, id, stop, now) : TRUE :
                    stop \in ApprovalStops[t]}]
      BY DEF Consumed
    <3>. HIDE DEF c, id
    <3>2. /\ c.task = pending.task /\ c.lease = pending.lease /\ c.mail = pending.mail
          /\ c.reserved = pending.reserved /\ c.used = pending.used
          /\ c.consumed = pending.consumed \cup
               {CHOOSE m \in Grants(pending, t, id, stop, now) : TRUE :
                  stop \in ApprovalStops[t]}
      BY <2>6, <3>1 DEF StoreType
    <3>3. {CHOOSE m \in Grants(pending, t, id, stop, now) : TRUE : stop \in ApprovalStops[t]}
        = {CHOOSE m \in Grants(d, t, id, stop, now) : TRUE : stop \in ApprovalStops[t]}
      BY <2>7
    <3>. QED BY <2>6, <3>2, <3>3
  <2>. HIDE DEF c
  <2>11. /\ c.task[t].phase = "intent_pending" /\ c.task[t].state = "running"
         /\ \A u \in Tasks \ {t} : c.task[u] = d.task[u] /\ c.lease[u] = d.lease[u]
         /\ Held(c, t) /\ c.lease[t].id = id
    BY <2>2, <2>6, <2>10 DEF StoreType, Held
  <2>12. /\ \A r \in Resources \ {"concurrency"} : c.reserved[r] = d.reserved[r]
         /\ c.reserved["concurrency"] = d.reserved["concurrency"] + 0
    BY <2>10 DEF StoreType, Resources
  <2>. HIDE DEF id
  <2>. QED BY <1>3, <2>1, <2>4, <2>5, <2>9, <2>10, <2>11, <2>12, DispatchBooks DEF id
<1>. QED BY <1>1, <1>2, <1>3

-----------------------------------------------------------------------------
\* Every action that writes the store keeps the books.

\* The books of a store that differs in nothing they are about.
LEMMA SameBooks ==
  ASSUME NEW d, NEW e, StoreType(d), StoreType(e), LeasesOwn(d), Books(d),
         e.task = d.task, e.lease = d.lease, e.reserved = d.reserved,
         \A r \in Resources \ {"wall_time_seconds"} : e.used[r] = d.used[r],
         e.consumed = d.consumed, Bills(e) = Bills(d)
  PROVE  Books(e) /\ Repaid(d, e)
<1>1. PICK t : t \in Tasks
  BY TasksAssumption
<1>2. \A u \in Tasks : SameLease(d, e, u)
  BY DEF SameLease, Held
<1>3. /\ \A r \in Resources \ {"concurrency", "wall_time_seconds"} :
           e.reserved[r] = d.reserved[r] /\ e.used[r] = d.used[r]
      /\ e.used["concurrency"] = d.used["concurrency"]
      /\ e.reserved["concurrency"] = d.reserved["concurrency"]
  BY DEF Resources
<1>4. Booking(d, e, t)
  BY <1>1, <1>2, <1>3, PlainBooks
<1>. QED BY <1>1, <1>4, BooksKept DEF Booking

\* The Lease of a task that does not run was never dispatched, nor is the one
\* it is about to get.
LEMMA LeaseIsNew ==
  ASSUME StepInv, tx.pc # "idle", NEW t \in Tasks, db.task[t].state # "running"
  PROVE  /\ ~Dispatched(db, Proposed(db, t).id)
         /\ Held(db, t) => ~Dispatched(db, db.lease[t].id)
         /\ Proposed(db, t).id \in LeaseIds /\ Proposed(db, t).id.task = t
<1>. USE DEF StepInv, AuthorityInv
<1>1. StoreType(db) /\ Sound(db)
  BY DEF TypeInv
<1>2. Proposed(db, t).id \in LeaseIds
  BY ProposedType
<1>. HIDE DEF StepInv, AuthorityInv
<1>3. ASSUME NEW id \in LeaseIds, id.task = t, \A m \in Asked(db, t) : m.lid.attempt # id.attempt
      PROVE  ~Dispatched(db, id)
  BY <1>3 DEF Dispatched, Adopted, Asked
<1>4. /\ \A m \in Asked(db, t) : m.lid.attempt \in Nat /\ m.lid.attempt <= db.task[t].attempt
      /\ db.task[t].attempt \in Nat
      /\ Held(db, t) => /\ db.lease[t].id.task = t /\ db.lease[t].id \in LeaseIds
                        /\ db.lease[t].id.attempt = db.task[t].attempt
                        /\ \A m \in Asked(db, t) : m.lid.attempt < db.task[t].attempt
  BY <1>1, AskedUnder, RowTypes, IdTypes DEF Pending
<1>5. CASE Held(db, t)
  BY <1>2, <1>3, <1>4, <1>5 DEF Proposed
<1>6. CASE ~Held(db, t)
  <2>1. Proposed(db, t).id.attempt = db.task[t].attempt + 1 /\ Proposed(db, t).id.task = t
    BY <1>6 DEF Proposed
  <2>. QED BY <1>2, <1>3, <1>4, <1>6, <2>1
<1>. QED BY <1>5, <1>6

\* A call that opens books nothing.
LEMMA OpenBooks ==
  ASSUME TypeInv, LeasesOwn(disk), Books(disk), StoreType(db')
  PROVE  /\ AdvanceClock => Books(db') /\ Repaid(disk, db')
         /\ \A h, target, pc, after :
              Begin(h, target, pc, after) => Books(db') /\ Repaid(disk, db')
<1>1. ASSUME NEW e, StoreType(e), e.task = disk.task, e.lease = disk.lease,
             e.reserved = disk.reserved, e.consumed = disk.consumed, e.mail = disk.mail,
             \A r \in Resources \ {"wall_time_seconds"} : e.used[r] = disk.used[r]
      PROVE  Books(e) /\ Repaid(disk, e)
  BY <1>1, SameBooks DEF TypeInv, Bills
<1>2. ASSUME AdvanceClock
      PROVE  Books(db') /\ Repaid(disk, db')
  <2>. DEFINE e == [disk EXCEPT !.spoke = Scheduler]
  <2>1. /\ e.task = disk.task /\ e.lease = disk.lease /\ e.reserved = disk.reserved
        /\ e.used = disk.used /\ e.consumed = disk.consumed /\ e.mail = disk.mail
    BY DEF TypeInv, StoreType
  <2>. HIDE DEF e
  <2>2. StoreType(e) => Books(e) /\ Repaid(disk, e)
    BY <1>1, <2>1
  <2>. QED BY <1>2, <2>2 DEF AdvanceClock, e
<1>3. ASSUME NEW h, NEW target, NEW pc, NEW after, Begin(h, target, pc, after)
      PROVE  Books(db') /\ Repaid(disk, db')
  <2>. DEFINE e == Observed(disk)
  <2>1. /\ e.task = disk.task /\ e.lease = disk.lease /\ e.reserved = disk.reserved
        /\ e.consumed = disk.consumed /\ e.mail = disk.mail
        /\ \A r \in Resources \ {"wall_time_seconds"} : e.used[r] = disk.used[r]
    BY DEF TypeInv, StoreType, Observed
  <2>. HIDE DEF e
  <2>2. StoreType(e) => Books(e) /\ Repaid(disk, e)
    BY <1>1, <2>1
  <2>. QED BY <1>3, <2>2 DEF Begin, e
<1>. QED BY <1>2, <1>3

\* Withdrawing an attempt that was never intended neither charges nor approves.
LEMMA WithdrawnBooks ==
  ASSUME NEW d, StoreType(d), NEW t \in Tasks, Held(d, t), NEW e, e = Withdrawn(d, t)
  PROVE  e.used = d.used /\ e.consumed = d.consumed
<1>. DEFINE f == Moved(d, t, "ready", "not_dispatched", d.task[t].outcome, {})
<1>1. f.used = d.used /\ f.consumed = d.consumed
  BY MovedBooks
<1>2. DOMAIN f = DOMAIN d
  BY DEF Moved
<1>3. DOMAIN e = DOMAIN f /\ e.used = f.used /\ e.consumed = f.consumed
  <2>. HIDE DEF f
  <2>. QED BY <1>2 DEF Withdrawn, f, StoreType
<1>. QED BY <1>1, <1>3

\* The expiry pass keeps the books and gives no spent retry back.
LEMMA ExpiryBooks ==
  ASSUME StepInv, Books(db), StoreType(db'), NEW t \in Tasks, Expire(t)
  PROVE  Books(db') /\ Repaid(db, db')
<1>0. StoreType(db) /\ Sound(db) /\ LeasesOwn(db) /\ TypeInv
  BY SoundOwn DEF StepInv, AuthorityInv, TypeInv
<1>1. Held(db, t) /\ AuthorityAt(db, t)
  BY <1>0 DEF Expire, ProposalExpires, LeaseExpires, FirstExpired, Expired, Sound
<1>2. CASE ProposalExpires(t)
  <2>. DEFINE e == Withdrawn(db, t)
  <2>1. ~Dispatched(db, db.lease[t].id)
    BY <1>2 DEF ProposalExpires, Activated
  <2>2. db.task[t].state # "running"
    BY <1>0, <1>1, <1>2, ActivatedMeans DEF ProposalExpires, AuthorityAt
  <2>3. /\ e.mail = db.mail /\ e.reserved = db.reserved
        /\ e.used = db.used /\ e.consumed = db.consumed
        /\ e.lease[t] = NoLease
        /\ \A u \in Tasks \ {t} : e.task[u] = db.task[u] /\ e.lease[u] = db.lease[u]
    BY <1>0, <1>1, WithdrawnParts, WithdrawnBooks
  <2>4. db' = e
    BY <1>2 DEF ProposalExpires, Record
  <2>. HIDE DEF e
  <2>5. /\ \A u \in Tasks \ {t} : SameLease(db, e, u)
        /\ ~Held(e, t) /\ Bills(e) = Bills(db)
        /\ \A u \in Tasks : db.task[u].state = "running" => e.task[u].state # "ready"
    BY <2>2, <2>3 DEF SameLease, Held, Bills
  <2>6. Booking(db, e, t)
    BY <1>0, <2>1, <2>3, <2>5, PlainBooks
  <2>. QED BY <1>0, <2>4, <2>6, BooksKept DEF Booking
<1>3. CASE LeaseExpires(t)
  <2>. DEFINE out == Outstanding(db, db.lease[t].id)
              c == Closed(db, t, out)
  <2>1. out = Owed(db, t)
    BY <1>1 DEF Owed
  <2>2. out \in [AttemptResources -> Nat]
    BY OwedType DEF Books
  <2>3. \/ SafeRetry(db, t) /\ \E reason : db' = Retried(c, t, reason)
        \/ \E reason : db' = Quarantined(c, t, reason)
    BY <1>3 DEF LeaseExpires, Record
  <2>. HIDE DEF c, out
  <2>4. ASSUME NEW e,
               \/ SafeRetry(db, t) /\ \E reason : e = Retried(c, t, reason)
               \/ \E reason : e = Quarantined(c, t, reason)
        PROVE  Booking(db, e, t)
    <3>1. \/ /\ db.used["retries"] < Limit["retries"]
             /\ \E reason : e = Retried(c, t, reason)
          \/ \E state, phase, outcome, blockers :
               state # "ready" /\ e = Moved(c, t, state, phase, outcome, blockers)
      BY <2>4 DEF SafeRetry, Quarantined
    <3>2. out \in [AttemptResources -> Int] /\ \A r \in AttemptResources : out[r] <= Owed(db, t)[r]
      BY <2>1, <2>2
    <3>. QED BY <1>0, <1>1, <3>1, <3>2, EndingBooks DEF c
  <2>. QED BY <1>0, <2>3, <2>4, BooksKept DEF Booking
<1>. QED BY <1>2, <1>3 DEF Expire

\* A step that changes nothing repays nothing.
LEMMA NothingRepaid ==
  ASSUME NEW d, StoreType(d)
  PROVE  Repaid(d, d)
<1>1. d.used["retries"] \in Int
  BY DEF StoreType, Resources
<1>. QED BY <1>1 DEF Repaid

\* The readiness pass keeps the books and gives no spent retry back.
LEMMA RefreshBooks ==
  ASSUME StepInv, Books(db), StoreType(db'), NEW t \in Tasks,
         RefreshTask(t) \/ RetryWorktree(t)
  PROVE  Books(db') /\ Repaid(db, db')
<1>0. StoreType(db) /\ Sound(db) /\ LeasesOwn(db) /\ now \in Nat
  BY SoundOwn DEF StepInv, AuthorityInv, TypeInv
<1>1. CASE RefreshTask(t)
  <2>1. Visit(IdOrder, t, RefreshChanges) /\ db' = Refreshed(db, t)
    BY <1>1 DEF RefreshTask
  <2>2. Refreshable(db, t)
    BY <2>1 DEF Visit, RefreshChanges
  <2>3. \E state, blockers : db' = Readied(db, t, state, blockers)
    BY <2>1 DEF Refreshed
  <2>4. ASSUME NEW state, NEW blockers, NEW e, e = Readied(db, t, state, blockers)
        PROVE  Booking(db, e, t)
    <3>1. /\ e.lease = db.lease /\ e.mail = db.mail /\ e.reserved = db.reserved
          /\ e.used = db.used /\ e.consumed = db.consumed
          /\ e.task[t].phase = db.task[t].phase
          /\ \A u \in Tasks \ {t} : e.task[u] = db.task[u]
      BY <1>0, <2>4, ReadiedParts, ReadiedBooks
    <3>2. /\ \A u \in Tasks : SameLease(db, e, u)
          /\ \A u \in Tasks : db.task[u].state = "running" => e.task[u].state # "ready"
          /\ Bills(e) = Bills(db)
      BY <2>2, <3>1 DEF SameLease, Held, Bills, Refreshable, Readiness
    <3>. QED BY <1>0, <3>1, <3>2, PlainBooks
  <2>. QED BY <1>0, <2>3, <2>4, BooksKept DEF Booking
<1>2. CASE RetryWorktree(t)
  <2>1. Visit(DispatchOrder, t, BudgetBlockedWorktrees)
    BY <1>2 DEF RetryWorktree
  <2>2. /\ Held(db, t) /\ db.task[t].state = "running"
        /\ db.task[t].phase = "not_dispatched"
    BY <2>1 DEF Visit, BudgetBlockedWorktrees
  <2>3. db' = Resumed(db, t, now) \/ db' = db
    BY <1>2 DEF RetryWorktree
  <2>4. db.lease[t].id.task = t
    BY <1>0, <2>2, AskedUnder
  <2>5. ASSUME NEW e, e = Resumed(db, t, now)
        PROVE  Booking(db, e, t)
    BY <1>0, <2>2, <2>4, <2>5, ResumedBooks
  <2>. QED BY <1>0, <2>3, <2>5, BooksKept, NothingRepaid DEF Booking
<1>. QED BY <1>1, <1>2

\* A cancellation request keeps the books and gives no spent retry back.
LEMMA CancelBooks ==
  ASSUME StepInv, Books(db), StoreType(db'), NEW t \in Tasks, Cancel(t)
  PROVE  Books(db') /\ Repaid(db, db')
<1>0. StoreType(db) /\ Sound(db) /\ LeasesOwn(db)
  BY SoundOwn DEF StepInv, AuthorityInv, TypeInv
<1>1. CASE CancelRefused(t) \/ CancelRepeated(t)
  BY <1>0, <1>1, NothingRepaid DEF CancelRefused, CancelRepeated
<1>2. CASE CancelRequested(t)
  <2>. DEFINE m == Outgoing([type |-> "cancel_request"], db.lease[t].id, now)
              row == [db.task[t] EXCEPT !.phase = "cancellation_requested"]
              e == [db EXCEPT !.mail = @ \cup {m},
                              !.task[t].phase = "cancellation_requested"]
  <2>1. db' = e
    BY <1>2 DEF CancelRequested, Record
  <2>2. db.task[t] \in TaskRows
    BY <1>0 DEF StoreType
  <2>3. row.state = db.task[t].state /\ row.phase = "cancellation_requested"
    BY <2>2 DEF TaskRows
  <2>4. ~Billing(m)
    BY DEF Outgoing, Billing
  <2>5. /\ e.task = [db.task EXCEPT ![t] = row]
        /\ e.lease = db.lease /\ e.reserved = db.reserved
        /\ e.mail = db.mail \cup {m}
        /\ e.used = db.used /\ e.consumed = db.consumed
    BY <1>0 DEF StoreType
  <2>. HIDE DEF m, row, e
  <2>6. e.task[t] = row /\ \A u \in Tasks \ {t} : e.task[u] = db.task[u]
    BY <1>0, <2>5 DEF StoreType
  <2>7. /\ \A u \in Tasks : SameLease(db, e, u)
        /\ \A u \in Tasks : db.task[u].state = "running" => e.task[u].state # "ready"
        /\ Bills(e) = Bills(db)
    BY <2>3, <2>4, <2>5, <2>6 DEF SameLease, Held, Bills
  <2>8. Booking(db, e, t)
    BY <1>0, <2>5, <2>7, PlainBooks
  <2>. QED BY <1>0, <2>1, <2>8, BooksKept DEF Booking
<1>. QED BY <1>1, <1>2 DEF Cancel

\* Creating a Lease books nothing.
LEMMA WithLeaseBooks ==
  ASSUME NEW d, StoreType(d), NEW t \in Tasks, NEW w, w = WithLease(d, t)
  PROVE  w.used = d.used /\ w.consumed = d.consumed
<1>1. CASE Held(d, t)
  BY <1>1 DEF WithLease
<1>2. CASE ~Held(d, t)
  BY <1>2 DEF WithLease, Leased, StoreType
<1>. QED BY <1>1, <1>2

\* From a ready task to one that is blocked, asked for a worktree or dispatched.
LEMMA ReadyBooks ==
  ASSUME StepInv, Books(db), StoreType(db'), NEW t \in Tasks, DispatchReady(t)
  PROVE  Books(db') /\ Repaid(db, db')
<1>. DEFINE w == WithLease(db, t)
            id == Proposed(db, t).id
<1>0. StoreType(db) /\ Sound(db) /\ LeasesOwn(db) /\ now \in Nat /\ TypeInv
  BY SoundOwn DEF StepInv, AuthorityInv, TypeInv
<1>1. Dispatching(t)
  BY DEF DispatchReady, BudgetBlocks, ApprovalBlocks, WorktreeBlocks,
         RequestWorktree, Dispatch
<1>2. db.task[t].state = "ready" /\ tx.pc # "idle"
  BY <1>1 DEF Dispatching, Visit, Dispatchable, InTx
<1>3. /\ StoreType(w) /\ Held(w, t)
      /\ w.lease[t].id = id
      /\ w.mail = db.mail /\ w.reserved = db.reserved
      /\ w.used = db.used /\ w.consumed = db.consumed
      /\ \A u \in Tasks \ {t} : w.task[u] = db.task[u] /\ w.lease[u] = db.lease[u]
  <2>1. w.used = db.used /\ w.consumed = db.consumed
    BY <1>0, WithLeaseBooks
  <2>. QED BY <1>0, <1>2, <2>1, WithLeaseSound
<1>4. /\ ~Dispatched(db, id)
      /\ Held(db, t) => ~Dispatched(db, db.lease[t].id)
      /\ id \in LeaseIds /\ id.task = t
  BY <1>2, LeaseIsNew
<1>. HIDE DEF w, id
<1>5. ASSUME NEW e, Booking(db, e, t), db' = e
      PROVE  Books(db') /\ Repaid(db, db')
  BY <1>0, <1>5, BooksKept DEF Booking
\* The slot may be taken, and nothing else is booked.
<1>6. ASSUME NEW e, e.lease = w.lease, NEW m, ~Billing(m),
             e.mail \in {w.mail, w.mail \cup {m}},
             e.used = w.used, e.consumed = w.consumed,
             \A r \in Resources \ {"concurrency"} : e.reserved[r] = w.reserved[r],
             \/ e.reserved["concurrency"] = w.reserved["concurrency"]
             \/ /\ e.reserved["concurrency"] = w.reserved["concurrency"] + 1
                /\ BudgetAllows(db, t, 1),
             \A u \in Tasks \ {t} : e.task[u] = w.task[u]
      PROVE  Booking(db, e, t)
  <2>1. /\ \A u \in Tasks \ {t} : SameLease(db, e, u)
        /\ \A u \in Tasks : db.task[u].state = "running" => e.task[u].state # "ready"
        /\ Held(e, t) => ~Dispatched(db, e.lease[t].id)
    BY <1>2, <1>3, <1>4, <1>6 DEF SameLease, Held
  <2>2. Bills(e) = Bills(db)
    BY <1>3, <1>6 DEF Bills
  <2>3. /\ \A r \in Resources \ {"concurrency", "wall_time_seconds"} :
             e.reserved[r] = db.reserved[r] /\ e.used[r] = db.used[r]
        /\ e.used["concurrency"] = db.used["concurrency"]
    BY <1>3, <1>6
  <2>4. \/ e.reserved["concurrency"] = db.reserved["concurrency"]
        \/ e.reserved["concurrency"] + e.used["concurrency"] <= Limit["concurrency"]
    <3>1. db.used["concurrency"] = 0 /\ db.reserved["concurrency"] \in Int
      BY <1>0 DEF Books, OneSided, StoreType, Resources
    <3>2. Limit["concurrency"] \in Nat
      BY BudgetAssumption DEF Resources
    <3>3. BudgetAllows(db, t, 1) => db.reserved["concurrency"] + 1 <= Limit["concurrency"]
      BY DEF BudgetAllows
    <3>. QED BY <1>3, <1>6, <3>1, <3>2, <3>3
  <2>5. e.consumed = db.consumed
    BY <1>3, <1>6
  <2>. QED BY <1>0, <1>4, <2>1, <2>2, <2>3, <2>4, <2>5, PlainBooks
<1>7. CASE BudgetBlocks(t) \/ WorktreeBlocks(t)
  <2>1. ASSUME NEW blockers, NEW e, e = Readied(db, t, "blocked", blockers)
        PROVE  Booking(db, e, t)
    <3>1. /\ e.lease = db.lease /\ e.mail = db.mail /\ e.reserved = db.reserved
          /\ e.used = db.used /\ e.consumed = db.consumed
          /\ e.task[t].phase = db.task[t].phase /\ e.task[t].state = "blocked"
          /\ \A u \in Tasks \ {t} : e.task[u] = db.task[u]
      BY <1>0, <2>1, ReadiedParts, ReadiedBooks
    <3>2. /\ \A u \in Tasks : SameLease(db, e, u)
          /\ \A u \in Tasks : db.task[u].state = "running" => e.task[u].state # "ready"
          /\ Bills(e) = Bills(db)
      BY <3>1 DEF SameLease, Held, Bills
    <3>. QED BY <1>0, <3>1, <3>2, PlainBooks
  <2>. QED BY <1>5, <1>7, <2>1 DEF BudgetBlocks, WorktreeBlocks, Record
<1>8. CASE ApprovalBlocks(t)
  <2>. DEFINE e == Readied(w, t, "blocked", {"approval-required"})
  <2>1. db' = e
    BY <1>8 DEF ApprovalBlocks, Record, w
  <2>2. /\ e.lease = w.lease /\ e.mail = w.mail /\ e.reserved = w.reserved
        /\ e.used = w.used /\ e.consumed = w.consumed
        /\ \A u \in Tasks \ {t} : e.task[u] = w.task[u]
    BY <1>3, ReadiedParts, ReadiedBooks
  <2>. HIDE DEF e
  <2>3. ~Billing(Outgoing([type |-> "worktree_request"], id, now))
    BY DEF Outgoing, Billing
  <2>4. Booking(db, e, t)
    BY <1>6, <2>2, <2>3
  <2>. QED BY <1>5, <2>1, <2>4
<1>9. CASE RequestWorktree(t)
  <2>. DEFINE d == Moved(w, t, "running", "not_dispatched", "none", {})
              m == Outgoing([type |-> "worktree_request"], id, now)
              e == [d EXCEPT !.tree[t] = "requested",
                             !.reserved = SlotTaken(d),
                             !.mail = @ \cup {m}]
  <2>1. db' = e /\ BudgetAllows(db, t, 1)
    BY <1>9 DEF RequestWorktree, Record, Cleared, w, id
  <2>2. ~Billing(m)
    BY DEF Outgoing, Billing
  <2>3. /\ StoreType(d)
        /\ d.lease = w.lease /\ d.mail = w.mail /\ d.reserved = w.reserved
        /\ d.used = w.used /\ d.consumed = w.consumed
        /\ \A u \in Tasks \ {t} : d.task[u] = w.task[u]
    BY <1>3, MovedType, MovedParts, MovedBooks DEF States, Phases, Outcomes
  <2>4. /\ SlotTaken(d)["concurrency"] = w.reserved["concurrency"] + 1
        /\ \A r \in Resources \ {"concurrency"} : SlotTaken(d)[r] = w.reserved[r]
    BY <2>3 DEF SlotTaken, StoreType, Resources
  <2>. HIDE DEF d, m
  <2>5. /\ e.lease = w.lease /\ e.mail = w.mail \cup {m} /\ e.task = d.task
        /\ e.reserved = SlotTaken(d)
        /\ e.used = w.used /\ e.consumed = w.consumed
    BY <2>3 DEF StoreType
  <2>. HIDE DEF e
  <2>6. Booking(db, e, t)
    BY <1>6, <2>1, <2>2, <2>3, <2>4, <2>5
  <2>. QED BY <1>5, <2>1, <2>6
<1>10. CASE Dispatch(t)
  <2>. DEFINE d == Moved(w, t, "running", "intent_pending", "none", {})
              e == [d EXCEPT !.reserved = SlotTaken(d)]
              c == Consumed(e, t, id, now)
              f == Intent(c, t, id, now)
  <2>1. /\ BudgetAllows(db, t, 1) /\ Approved(db, t, id, now)
        /\ db' = f
    BY <1>10 DEF Dispatch, Record, Cleared, w, id
  <2>2. /\ StoreType(d)
        /\ d.lease = w.lease /\ d.mail = w.mail /\ d.reserved = w.reserved
        /\ d.used = w.used /\ d.consumed = w.consumed
        /\ d.task[t].state = "running" /\ d.task[t].phase = "intent_pending"
        /\ \A u \in Tasks \ {t} : d.task[u] = w.task[u]
    BY <1>3, MovedType, MovedParts, MovedBooks DEF States, Phases, Outcomes
  <2>3. /\ SlotTaken(d) \in [Resources -> Int]
        /\ SlotTaken(d)["concurrency"] = w.reserved["concurrency"] + 1
        /\ \A r \in Resources \ {"concurrency"} : SlotTaken(d)[r] = w.reserved[r]
    BY <2>2 DEF SlotTaken, StoreType, Resources
  <2>. HIDE DEF d
  <2>4. /\ StoreType(e) /\ e.task = d.task /\ e.lease = d.lease
        /\ e.mail = db.mail /\ e.consumed = db.consumed /\ e.used = db.used
        /\ e.reserved = SlotTaken(d)
    BY <1>3, <2>2, <2>3 DEF StoreType
  <2>. HIDE DEF e
  <2>5. \A stop : Grants(e, t, id, stop, now) = Grants(db, t, id, stop, now)
    BY <2>4, GrantsDepend
  <2>6. Approved(e, t, id, now)
    BY <2>1, <2>5 DEF Approved
  <2>7. StoreType(c)
    BY <2>4, <2>6, ConsumedType
  <2>8. /\ c.task = d.task /\ c.lease = w.lease /\ c.mail = db.mail
        /\ c.reserved = SlotTaken(d) /\ c.used = db.used
        /\ c.consumed = db.consumed \cup
             {CHOOSE m \in Grants(db, t, id, stop, now) : TRUE : stop \in ApprovalStops[t]}
    <3>1. c = [e EXCEPT !.consumed = e.consumed \cup
                 {CHOOSE m \in Grants(e, t, id, stop, now) : TRUE :
                    stop \in ApprovalStops[t]}]
      BY DEF Consumed
    <3>. HIDE DEF c
    <3>2. /\ c.task = e.task /\ c.lease = e.lease /\ c.mail = e.mail
          /\ c.reserved = e.reserved /\ c.used = e.used
          /\ c.consumed = e.consumed \cup
               {CHOOSE m \in Grants(e, t, id, stop, now) : TRUE :
                  stop \in ApprovalStops[t]}
      BY <2>4, <3>1 DEF StoreType
    <3>3. {CHOOSE m \in Grants(e, t, id, stop, now) : TRUE : stop \in ApprovalStops[t]}
        = {CHOOSE m \in Grants(db, t, id, stop, now) : TRUE : stop \in ApprovalStops[t]}
      BY <2>5
    <3>. QED BY <2>2, <2>4, <3>2, <3>3
  <2>. HIDE DEF c
  <2>9. /\ c.task[t].phase = "intent_pending" /\ c.task[t].state = "running"
        /\ \A u \in Tasks \ {t} : c.task[u] = db.task[u] /\ c.lease[u] = db.lease[u]
        /\ Held(c, t) /\ c.lease[t].id = id
    BY <1>3, <2>2, <2>8 DEF Held
  <2>10. /\ \A r \in Resources \ {"concurrency"} : c.reserved[r] = db.reserved[r]
         /\ c.reserved["concurrency"] = db.reserved["concurrency"] + 1
    BY <1>3, <2>3, <2>8
  <2>11. Booking(db, f, t)
    BY <1>0, <1>4, <2>1, <2>7, <2>8, <2>9, <2>10, DispatchBooks
  <2>. HIDE DEF f
  <2>. QED BY <1>5, <2>1, <2>11
<1>. QED BY <1>7, <1>8, <1>9, <1>10 DEF DispatchReady

\* The store with a message just received.
LEMMA ReceivedBooks ==
  ASSUME StoreType(db), NEW m
  PROVE  /\ Received(m).task = db.task /\ Received(m).lease = db.lease
         /\ Received(m).tree = db.tree
         /\ Received(m).reserved = db.reserved /\ Received(m).used = db.used
         /\ Received(m).consumed = db.consumed
         /\ Received(m).mail = db.mail \cup {m}
BY DEF Received, StoreType

\* The first acceptance of a dispatch.
LEMMA AcceptedBooks ==
  ASSUME StepInv, Books(db), NEW m, DispatchAccepted(m)
  PROVE  Booking(db, db', m.lid.task)
<1>. DEFINE t == m.lid.task
            r == Received(m)
            settled == Outstanding(db, m.lid)["context_bytes"]
            row == [r.task[t] EXCEPT !.phase = "accepted"]
            e == [r EXCEPT !.task[t].phase = "accepted",
                           !.reserved["context_bytes"] = @ - settled,
                           !.used["context_bytes"] = @ + settled]
<1>0. StoreType(db) /\ Sound(db) /\ LeasesOwn(db) /\ TypeInv
  BY SoundOwn DEF StepInv, AuthorityInv, TypeInv
<1>1. /\ Adopting(m) /\ m.say.type = "dispatch_acknowledgement" /\ m.say.accepted
      /\ m.say.type \in HostTypes /\ ~Capability(m) /\ ~Approval(m)
      /\ db' = e
  BY DEF DispatchAccepted, Adopt, HostTypes, Capability, Approval
<1>2. t \in Tasks /\ db.lease[t].id = m.lid /\ db.task[t].state = "running"
  BY <1>1, AdoptingRuns
<1>3. Held(db, t) /\ StoreType(r)
  BY <1>0, <1>1, AdoptingType
<1>4. Dispatched(db, m.lid)
  <2>1. Adopted(db, CauseOf(m.say.type), m.lid) # {}
    BY <1>1 DEF Adopting, Adoptable, ReplyAdoptable
  <2>2. CauseOf(m.say.type) = "dispatch_intent"
    BY <1>1 DEF CauseOf
  <2>. QED BY <2>1, <2>2 DEF Dispatched
<1>5. settled = Owed(db, t)["context_bytes"] /\ settled \in Nat
  <2>1. Outstanding(db, m.lid) = Owed(db, t)
    BY <1>2, <1>3 DEF Owed
  <2>. QED BY <1>0, <2>1, AmountTypes DEF Books, AttemptResources
<1>6. /\ r.task = db.task /\ r.lease = db.lease /\ r.reserved = db.reserved
      /\ r.used = db.used /\ r.consumed = db.consumed /\ r.mail = db.mail \cup {m}
  BY <1>0, ReceivedBooks
<1>7. row.state = "running" /\ row.phase = "accepted"
  BY <1>0, <1>2, <1>6 DEF StoreType, TaskRows
<1>. HIDE DEF settled, t, r
<1>8. /\ e.task = [db.task EXCEPT ![t] = row]
      /\ e.reserved = [db.reserved EXCEPT !["context_bytes"] = @ - settled]
      /\ e.used = [db.used EXCEPT !["context_bytes"] = @ + settled]
      /\ e.lease = db.lease /\ e.consumed = db.consumed /\ e.mail = db.mail \cup {m}
  BY <1>3, <1>6 DEF StoreType
<1>. HIDE DEF e, row
<1>9. e.task[t] = row /\ \A u \in Tasks \ {t} : e.task[u] = db.task[u]
  BY <1>0, <1>2, <1>8 DEF StoreType
<1>10. /\ \A u \in Tasks : SameLease(db, e, u)
       /\ \A u \in Tasks : db.task[u].state = "running" => e.task[u].state # "ready"
       /\ Bills(e) = Bills(db) \cup {m}
  BY <1>1, <1>7, <1>8, <1>9 DEF SameLease, Held, Bills, Billing
<1>11. /\ \A q \in Resources \ {"context_bytes"} :
            e.reserved[q] = db.reserved[q] /\ e.used[q] = db.used[q]
       /\ e.reserved["context_bytes"] = db.reserved["context_bytes"] - settled
       /\ e.used["context_bytes"] = db.used["context_bytes"] + settled
       /\ \A q \in Resources : db.reserved[q] \in Int /\ db.used[q] \in Int
  BY <1>0, <1>8 DEF StoreType, Resources, AttemptResources
<1>12. Fits(db, e)
  <2>1. ASSUME NEW q \in Resources \ {"wall_time_seconds"}
        PROVE  e.reserved[q] + e.used[q] <= db.reserved[q] + db.used[q]
    <3>1. CASE q = "context_bytes"
      BY <1>5, <1>11, <3>1
    <3>2. CASE q # "context_bytes"
      BY <1>11, <3>2
    <3>. QED BY <3>1, <3>2
  <2>. QED BY <2>1 DEF Fits
<1>13. Repaid(db, e) /\ (OneSided(db) => OneSided(e))
  BY <1>10, <1>11 DEF Repaid, OneSided, Resources
<1>14. Accepts(db, e, t)
  <2>1. \A q \in AttemptResources :
          e.reserved[q] = db.reserved[q] - (IF q = "context_bytes" THEN Owed(db, t)[q] ELSE 0)
    BY <1>5, <1>11 DEF Resources, AttemptResources
  <2>. QED BY <1>0, <1>1, <1>2, <1>3, <1>4, <1>8, <1>10, <2>1 DEF Accepts, LeasesOwn
<1>. QED BY <1>1, <1>2, <1>10, <1>12, <1>13, <1>14 DEF Booking, t

\* What adopting, rejecting or hearing again a message does to the books.
LEMMA IngestBooks ==
  ASSUME StepInv, Books(db), StoreType(db'), NEW m \in Deliverable, Ingest(m)
  PROVE  Books(db') /\ Repaid(db, db')
<1>. DEFINE t == m.lid.task
            r == Received(m)
            out == Outstanding(db, m.lid)
<1>0. StoreType(db) /\ Sound(db) /\ LeasesOwn(db) /\ TypeInv /\ now \in Nat
  BY SoundOwn DEF StepInv, AuthorityInv, TypeInv
<1>1. /\ r.task = db.task /\ r.lease = db.lease /\ r.tree = db.tree
      /\ r.reserved = db.reserved
      /\ r.used = db.used /\ r.consumed = db.consumed /\ r.mail = db.mail \cup {m}
  BY <1>0, ReceivedBooks
<1>2. ASSUME Adopting(m), ~Billing(m)
      PROVE  StoreType(r) /\ LeasesOwn(r) /\ Books(r) /\ Bills(r) = Bills(db)
  <2>1. StoreType(r)
    BY <1>0, <1>2, AdoptingType
  <2>2. LeasesOwn(r)
    BY <1>0, <1>1 DEF LeasesOwn, Held
  <2>3. Bills(r) = Bills(db)
    BY <1>1, <1>2 DEF Bills
  <2>. HIDE DEF r
  <2>. QED BY <1>0, <1>1, <2>1, <2>2, <2>3, SameBooks
<1>3. ASSUME Adopting(m), ~Capability(m)
      PROVE  /\ t \in Tasks /\ Held(r, t) /\ r.lease[t].id = m.lid
  <2>1. t \in Tasks /\ Held(db, t) /\ db.lease[t].id = m.lid
    BY <1>0, <1>3, AdoptingType
  <2>. QED BY <1>1, <2>1 DEF Held
<1>4. ASSUME Adopting(m), m.say.type \in HostTypes, ~Capability(m), ~Approval(m)
      PROVE  /\ db.task[t].state = "running"
             /\ db.task[t].phase \in OpenPhases(m.say.type)
  BY <1>4, AdoptingRuns
\* A step from r is one from db.
<1>5. ASSUME Adopting(m), ~Billing(m), ~Capability(m), NEW e, Booking(r, e, t), db' = e
      PROVE  Books(db') /\ Repaid(db, db')
  <2>1. StoreType(r) /\ LeasesOwn(r) /\ Books(r) /\ t \in Tasks
    BY <1>2, <1>3, <1>5
  <2>2. Repaid(db, e)
    BY <1>1, <1>5 DEF Booking, Repaid
  <2>. HIDE DEF r, t
  <2>. QED BY <1>5, <2>1, <2>2, BooksKept
<1>6. ASSUME Adopting(m), ~Billing(m), ~Capability(m)
      PROVE  Owed(r, t) = out /\ out \in [AttemptResources -> Nat]
  <2>1. BillsUnder(r, m.lid) = BillsUnder(db, m.lid)
    BY <1>2, <1>6 DEF BillsUnder
  <2>2. Outstanding(r, m.lid) = out
    BY <2>1, BillsDecide
  <2>3. out \in [AttemptResources -> Nat]
    BY OwedType DEF Books
  <2>. QED BY <1>3, <1>6, <2>2, <2>3 DEF Owed
<1>. HIDE DEF r, out, t
\* A reply that ends the attempt, charged with no more than is outstanding.
<1>7. ASSUME Adopting(m), ~Billing(m), ~Capability(m),
             NEW charge \in [AttemptResources -> Int],
             \A q \in AttemptResources : charge[q] <= out[q],
             NEW c, c = Closed(r, t, charge), NEW e,
             \/ SafeRetry(db, t) /\ \E reason : e = Retried(c, t, reason)
             \/ \E reason : e = Quarantined(c, t, reason)
             \/ \E state, phase, outcome, blockers :
                  state # "ready" /\ e = Moved(c, t, state, phase, outcome, blockers),
             db' = e
      PROVE  Books(db') /\ Repaid(db, db')
  <2>1. \/ /\ r.used["retries"] < Limit["retries"]
           /\ \E reason : e = Retried(c, t, reason)
        \/ \E state, phase, outcome, blockers :
             state # "ready" /\ e = Moved(c, t, state, phase, outcome, blockers)
    BY <1>1, <1>7 DEF SafeRetry, Quarantined
  <2>2. \A q \in AttemptResources : charge[q] <= Owed(r, t)[q]
    BY <1>6, <1>7
  <2>3. StoreType(r) /\ Books(r) /\ t \in Tasks /\ Held(r, t)
    BY <1>2, <1>3, <1>7
  <2>4. Booking(r, e, t)
    BY <1>7, <2>1, <2>2, <2>3, EndingBooks
  <2>. QED BY <1>5, <1>7, <2>4
<1>8. /\ Nothing \in [AttemptResources -> Int]
      /\ \A q \in AttemptResources : Nothing[q] = 0
  BY DEF Nothing
<1>9. CASE Redelivered(m) \/ ResultRaises(m)
  BY <1>0, <1>9, NothingRepaid DEF Redelivered, ResultRaises
<1>10. CASE Reject(m)
  <2>. DEFINE e == [db EXCEPT !.rejected = @ \cup {m}]
  <2>1. /\ e.task = db.task /\ e.lease = db.lease /\ e.reserved = db.reserved
        /\ e.used = db.used /\ e.consumed = db.consumed /\ Bills(e) = Bills(db)
    BY <1>0 DEF StoreType, Bills
  <2>2. db' = e
    BY <1>10 DEF Reject
  <2>. HIDE DEF e
  <2>3. StoreType(e)
    BY <2>2
  <2>. QED BY <1>0, <2>1, <2>2, <2>3, SameBooks
<1>11. CASE CapabilityObserved(m)
  <2>. DEFINE e == [r EXCEPT !.caps[m.sender] = m.say.caps,
                             !.registered = @ \cup {m.sender}]
  <2>1. Adopting(m) /\ ~Billing(m)
    BY <1>11 DEF CapabilityObserved, Capability, Billing
  <2>2. db' = e
    BY <1>11 DEF CapabilityObserved, r
  <2>3. /\ e.task = r.task /\ e.lease = r.lease /\ e.reserved = r.reserved
        /\ e.used = r.used /\ e.consumed = r.consumed /\ Bills(e) = Bills(r)
    BY <1>2, <2>1 DEF StoreType, Bills
  <2>. HIDE DEF e
  <2>4. StoreType(e) /\ Bills(r) = Bills(db)
    BY <1>2, <2>1, <2>2
  <2>. QED BY <1>0, <1>1, <2>2, <2>3, <2>4, SameBooks
<1>12. CASE ApprovalReceived(m)
  <2>1. /\ Adopting(m) /\ ~Capability(m) /\ ~Billing(m)
        /\ db' = IF r.tree[t] = "observed" /\ r.task[t].phase = "not_dispatched"
                   THEN Resumed(r, t, now) ELSE r
    BY <1>12 DEF ApprovalReceived, Approval, Capability, Billing, r, t
  <2>2. StoreType(r) /\ LeasesOwn(r) /\ Books(r) /\ t \in Tasks /\ Held(r, t)
    BY <1>2, <1>3, <2>1
  <2>3. CASE r.tree[t] = "observed" /\ r.task[t].phase = "not_dispatched"
    <3>1. r.task[t].state = "running"
      BY <1>0, <1>1, <2>2, <2>3 DEF Sound, AuthorityAt
    <3>2. r.lease[t].id.task = t
      BY <2>2 DEF LeasesOwn
    <3>3. ASSUME NEW e, e = Resumed(r, t, now)
          PROVE  Booking(r, e, t)
      BY <1>0, <2>2, <2>3, <3>1, <3>2, <3>3, ResumedBooks
    <3>. QED BY <1>5, <2>1, <2>3, <3>3
  <2>4. CASE ~(r.tree[t] = "observed" /\ r.task[t].phase = "not_dispatched")
    <3>1. db' = r
      BY <2>1, <2>4
    <3>2. Repaid(db, r)
      BY <1>0, <1>1, NothingRepaid DEF Repaid
    <3>. QED BY <2>2, <3>1, <3>2
  <2>. QED BY <2>3, <2>4
<1>13. CASE DispatchAccepted(m)
  <2>1. Booking(db, db', t)
    BY <1>13, AcceptedBooks DEF t
  <2>2. t \in Tasks
    BY <1>3, <1>13 DEF DispatchAccepted, Capability
  <2>. QED BY <1>0, <2>1, <2>2, BooksKept DEF Booking
<1>14. CASE Heartbeat(m)
  <2>. DEFINE row == [id |-> m.lid, expires |-> now + Ttl]
              e == [r EXCEPT !.lease[t] = row, !.history = @ \cup {row}]
  <2>1. Adopting(m) /\ ~Capability(m) /\ ~Billing(m)
    BY <1>14 DEF Heartbeat, Capability, Billing
  <2>2. db' = e
    BY <1>14 DEF Heartbeat, Adopt, r, t
  <2>3. StoreType(r) /\ t \in Tasks /\ Held(r, t) /\ r.lease[t].id = m.lid /\ Books(r)
    BY <1>2, <1>3, <2>1
  <2>4. row # NoLease /\ row.id = m.lid
    <3>1. m.lid \in LeaseIds
      BY <2>3, HeldType
    <3>. QED BY <1>0, <3>1, NoLeaseAssumption, BudgetAssumption DEF LeaseRows
  <2>. HIDE DEF row
  <2>5. /\ e.lease = [r.lease EXCEPT ![t] = row]
        /\ e.task = r.task /\ e.mail = r.mail /\ e.reserved = r.reserved
        /\ e.used = r.used /\ e.consumed = r.consumed
    BY <2>3 DEF StoreType
  <2>. HIDE DEF e
  <2>6. e.lease[t] = row /\ \A u \in Tasks \ {t} : e.lease[u] = r.lease[u]
    BY <2>3, <2>5 DEF StoreType
  <2>7. /\ \A u \in Tasks : SameLease(r, e, u)
        /\ \A u \in Tasks : r.task[u].state = "running" => e.task[u].state # "ready"
        /\ Bills(e) = Bills(r)
    BY <2>3, <2>4, <2>5, <2>6 DEF SameLease, Held, Bills
  <2>8. Booking(r, e, t)
    BY <2>3, <2>5, <2>7, PlainBooks
  <2>. QED BY <1>5, <2>1, <2>2, <2>8
<1>15. CASE DispatchRejected(m)
  <2>1. /\ Adopting(m) /\ ~Capability(m) /\ ~Billing(m)
        /\ \/ /\ SafeRetry(db, t)
              /\ \E reason : db' = Retried(Closed(r, t, Nothing), t, reason)
           \/ \E reason : db' = Quarantined(Closed(r, t, Nothing), t, reason)
    BY <1>15 DEF DispatchRejected, Capability, Billing, Adopt, r, t
  <2>2. \A q \in AttemptResources : Nothing[q] <= out[q]
    BY <1>6, <1>8, <2>1
  <2>. QED BY <1>7, <1>8, <2>1, <2>2
<1>16. CASE CancelAcknowledged(m)
  <2>1. /\ Adopting(m) /\ ~Capability(m) /\ ~Billing(m)
        /\ \E state, phase, outcome, blockers :
             state # "ready" /\ db' = Moved(Closed(r, t, out), t, state, phase, outcome, blockers)
    BY <1>16 DEF CancelAcknowledged, Capability, Billing, Adopt, r, t, out
  <2>2. /\ out \in [AttemptResources -> Int]
        /\ \A q \in AttemptResources : out[q] <= out[q]
    BY <1>6, <2>1
  <2>. QED BY <1>7, <2>1, <2>2
<1>17. CASE WorktreeObserved(m)
  <2>. DEFINE e == [r EXCEPT !.tree[t] = "observed"]
  <2>1. /\ Adopting(m) /\ ~Capability(m) /\ ~Billing(m) /\ ~Approval(m)
        /\ m.say.type = "worktree_observation" /\ m.say.type \in HostTypes
    BY <1>17 DEF WorktreeObserved, Capability, Billing, Approval, HostTypes
  <2>2. \/ \E reason : db' = Quarantined(Closed(r, t, Nothing), t, reason)
        \/ db' = Resumed(e, t, now)
    BY <1>17 DEF WorktreeObserved, Adopt, r, t
  <2>3. /\ StoreType(r) /\ LeasesOwn(r) /\ Books(r) /\ t \in Tasks /\ Held(r, t)
        /\ r.task[t].state = "running" /\ r.task[t].phase = "not_dispatched"
    BY <1>1, <1>2, <1>3, <1>4, <2>1 DEF OpenPhases
  <2>4. /\ e.task = r.task /\ e.lease = r.lease /\ e.mail = r.mail
        /\ e.reserved = r.reserved /\ e.used = r.used /\ e.consumed = r.consumed
        /\ StoreType(e)
    BY <2>3 DEF StoreType
  <2>. HIDE DEF e
  <2>5. LeasesOwn(e) /\ Bills(e) = Bills(r)
    BY <2>3, <2>4 DEF LeasesOwn, Held, Bills
  <2>6. Books(e)
    BY <2>3, <2>4, <2>5, SameBooks
  <2>7. ASSUME NEW x, x = Resumed(e, t, now), db' = x
        PROVE  Books(db') /\ Repaid(db, db')
    <3>1. Held(e, t) /\ e.lease[t].id.task = t
      BY <2>3, <2>4, <2>5 DEF Held, LeasesOwn
    <3>2. Booking(e, x, t)
      BY <1>0, <2>3, <2>4, <2>6, <2>7, <3>1, ResumedBooks
    <3>3. Books(x)
      BY <2>3, <2>4, <2>5, <2>6, <2>7, <3>2, BooksKept
    <3>4. Repaid(db, x)
      BY <1>1, <2>4, <3>2 DEF Booking, Repaid
    <3>. QED BY <2>7, <3>3, <3>4
  <2>8. \A q \in AttemptResources : Nothing[q] <= out[q]
    BY <1>6, <1>8, <2>1
  <2>. QED BY <1>7, <1>8, <2>1, <2>2, <2>7, <2>8
<1>18. ASSUME ResultSucceeded(m) \/ ResultUnsuccessful(m)
       PROVE  Books(db') /\ Repaid(db, db')
  <2>1. /\ Adopting(m) /\ ~Capability(m) /\ ~Billing(m)
        /\ m.say.type = "task_result" /\ m.say.type \in HostTypes /\ ~Overspent(m)
    BY <1>18 DEF ResultSucceeded, ResultUnsuccessful, Capability, Billing, HostTypes
  <2>2. m.say.usage \in [AttemptResources -> Nat]
    BY <1>0, <2>1, AdoptingType, HostWords, VocabularyAssumption
  <2>3. /\ Charge(m) \in [AttemptResources -> Int]
        /\ \A q \in AttemptResources : Charge(m)[q] <= out[q]
    <3>1. out \in [AttemptResources -> Nat]
      BY <1>6, <2>1
    <3>2. Charge(m) = [m.say.usage EXCEPT !["context_bytes"] = out["context_bytes"]]
      BY DEF Charge, out
    <3>3. \A q \in AttemptResources \ {"context_bytes"} : out[q] = Reserved(db, m.lid)[q]
      BY DEF out, Outstanding
    <3>4. \A q \in AttemptResources \ {"context_bytes"} : m.say.usage[q] <= out[q]
      <4>1. ASSUME NEW q \in AttemptResources \ {"context_bytes"}
            PROVE  m.say.usage[q] <= out[q]
        <5>1. ~(m.say.usage[q] > out[q])
          BY <2>1, <3>3 DEF Overspent
        <5>2. m.say.usage[q] \in Nat /\ out[q] \in Nat
          BY <2>2, <3>1
        <5>. QED BY <5>1, <5>2
      <4>. QED BY <4>1
    <3>. HIDE DEF out
    <3>. QED BY <2>2, <3>1, <3>2, <3>4 DEF AttemptResources
  <2>. DEFINE c == Closed(r, t, Charge(m))
  <2>4. \/ SafeRetry(db, t) /\ \E reason : db' = Retried(c, t, reason)
        \/ \E reason : db' = Quarantined(c, t, reason)
        \/ \E state, phase, outcome, blockers :
             state # "ready" /\ db' = Moved(c, t, state, phase, outcome, blockers)
    <3>1. CASE ResultSucceeded(m)
      <4>1. db' = Verified(c, t, m)
        BY <3>1 DEF ResultSucceeded, Adopt, r, t
      <4>. HIDE DEF c
      <4>. QED BY <4>1 DEF Verified
    <3>2. CASE ResultUnsuccessful(m)
      BY <3>2 DEF ResultUnsuccessful, Adopt, r, t
    <3>. QED BY <1>18, <3>1, <3>2
  <2>. HIDE DEF c
  <2>. QED BY <1>7, <2>1, <2>3, <2>4 DEF c
<1>. QED BY <1>9, <1>10, <1>11, <1>12, <1>13, <1>14, <1>15, <1>16, <1>17, <1>18 DEF Ingest

-----------------------------------------------------------------------------
\* Every attempt after the first is paid for.

\* The attempts of t after its first one, and the one it is about to make.
Paid(d, t) ==
  IF Refreshable(d, t) \/ Ids(d, t) = {}
    THEN Cardinality(Ids(d, t)) ELSE Cardinality(Ids(d, t)) - 1

PaidOf(d) == [t \in Tasks |-> Paid(d, t)]

PaidIn(d) == Total(PaidOf(d), Tasks) <= d.used["retries"]

\* What was paid for is a number of attempts.
LEMMA PaidType ==
  ASSUME NEW d, NEW t \in Tasks, CountedOf(d, t)
  PROVE  /\ Cardinality(Ids(d, t)) \in Nat
         /\ Ids(d, t) = {} <=> Cardinality(Ids(d, t)) = 0
         /\ Paid(d, t) \in Nat
<1>1. Cardinality(Ids(d, t)) \in Nat /\ (Ids(d, t) = {} <=> Cardinality(Ids(d, t)) = 0)
  BY NoElements DEF CountedOf
<1>. QED BY <1>1 DEF Paid

\* A task that becomes ready again after an attempt has to be paid for.
LEMMA PaidChange ==
  ASSUME NEW d, NEW e, NEW t \in Tasks, Change(d, e, t), RowOf(d, t),
         CountedOf(d, t), CountedOf(e, t), StoreType(d), Sound(d)
  PROVE  \/ Paid(e, t) <= Paid(d, t)
         \/ /\ d.task[t].state = "running" /\ e.task[t].state = "ready"
            /\ Paid(e, t) <= Paid(d, t) + 1
<1>0. /\ Cardinality(Ids(d, t)) \in Nat /\ Paid(d, t) \in Nat
      /\ Ids(d, t) = {} <=> Cardinality(Ids(d, t)) = 0
      /\ Cardinality(Ids(e, t)) \in Nat /\ Paid(e, t) \in Nat
      /\ Ids(e, t) = {} <=> Cardinality(Ids(e, t)) = 0
  BY PaidType
<1>1. /\ d.task[t].state = "running" => Held(d, t) /\ d.lease[t].id \in Ids(d, t)
      /\ d.task[t] \in TaskRows
  BY AskedUnder, RowTypes
<1>2. ASSUME Ids(e, t) = Ids(d, t), Refreshable(e, t) => Refreshable(d, t)
      PROVE  Paid(e, t) <= Paid(d, t)
  BY <1>0, <1>2 DEF Paid
<1>3. CASE Kept(d, e, t)
  <2>1. Ids(e, t) = Ids(d, t)
    BY <1>1, <1>3 DEF Kept, Ids
  <2>2. Refreshable(e, t) => Refreshable(d, t)
    BY <1>3 DEF Kept, Refreshable, Readiness
  <2>. QED BY <1>2, <2>1, <2>2
<1>4. CASE Reconsidered(d, e, t)
  BY <1>2, <1>4 DEF Reconsidered, Ids
<1>5. CASE Offered(d, e, t)
  BY <1>2, <1>5 DEF Offered, Takes, Ids, Refreshable, Readiness
<1>6. CASE Started(d, e, t)
  <2>1. /\ Ids(e, t) = Ids(d, t) \cup {e.lease[t].id}
        /\ Refreshable(d, t) /\ ~Refreshable(e, t)
    BY <1>6 DEF Started, Takes, Refreshable, Readiness, Ids
  <2>2. IsFiniteSet(Ids(d, t))
    BY DEF CountedOf
  <2>3. ASSUME NEW S, NEW x, IsFiniteSet(S)
        PROVE  Cardinality(S \cup {x}) <= Cardinality(S) + 1
    <3>1. CASE x \in S
      <4>1. Cardinality(S \cup {x}) = Cardinality(S)
        <5>1. S \cup {x} = S
          BY <3>1
        <5>. QED BY <5>1
      <4>2. Cardinality(S) \in Nat
        BY <2>3, FS_CardinalityType
      <4>. QED BY <4>1, <4>2
    <3>2. CASE x \notin S
      <4>1. Cardinality(S \cup {x}) = Cardinality(S) + 1 /\ Cardinality(S) \in Nat
        BY <2>3, <3>2, FS_AddElement, FS_CardinalityType
      <4>. QED BY <4>1
    <3>. QED BY <3>1, <3>2
  <2>4. Cardinality(Ids(e, t)) <= Cardinality(Ids(d, t)) + 1
    BY <2>1, <2>2, <2>3
  <2>. QED BY <1>0, <2>1, <2>4 DEF Paid
<1>7. CASE Finished(d, e, t)
  <2>1. Ids(e, t) = Ids(d, t) /\ Ids(d, t) # {}
    BY <1>1, <1>7 DEF Finished, Ids
  <2>2. CASE e.task[t].state = "ready"
    BY <1>0, <1>7, <2>1, <2>2 DEF Finished, Paid
  <2>3. CASE e.task[t].state # "ready"
    BY <1>2, <1>7, <2>1, <2>3 DEF Finished, Refreshable, Readiness
  <2>. QED BY <2>2, <2>3
<1>8. CASE Withdrew(d, e, t)
  <2>1. d.task[t].state \in States
    BY <1>1 DEF TaskRows
  <2>2. d.task[t].state # "running" /\ ~Settled(d, t)
    BY <1>8 DEF Withdrew, RowOf
  <2>3. Refreshable(d, t)
    BY <2>1, <2>2 DEF Settled, Refreshable, Readiness, States
  <2>4. Ids(e, t) = Ids(d, t)
    BY <1>8 DEF Withdrew, Ids
  <2>. QED BY <1>2, <2>3, <2>4
<1>. QED BY <1>3, <1>4, <1>5, <1>6, <1>7, <1>8 DEF Change

\* The retries used cover the attempts after the first.
LEMMA PaidKept ==
  ASSUME NEW d, NEW e, TaskStep(d, e), Repaid(d, e), Ledger(d, now), now \in Nat,
         StoreType(d), StoreType(e), Sound(d), PaidIn(d)
  PROVE  PaidIn(e)
<1>. PICK t \in Tasks : Change(d, e, t)
  BY DEF TaskStep
<1>1. \A u \in Tasks : CountedOf(d, u) /\ CountedOf(e, u) /\ RowOf(d, u)
  BY LedgerKept DEF Ledger, AttemptsOf
<1>2. \A u \in Tasks : Paid(d, u) \in Int /\ Paid(e, u) \in Int
  BY <1>1, PaidType
<1>3. ASSUME NEW u \in Tasks \ {t}
      PROVE  Paid(e, u) = Paid(d, u)
  BY DEF Change, Elsewhere, Paid, Refreshable, Ids
<1>4. \/ Paid(e, t) <= Paid(d, t)
      \/ /\ d.task[t].state = "running" /\ e.task[t].state = "ready"
         /\ Paid(e, t) <= Paid(d, t) + 1
  BY <1>1, PaidChange
<1>5. d.used["retries"] \in Int /\ e.used["retries"] \in Int
  BY DEF StoreType, Resources
<1>. DEFINE f == PaidOf(d)
            k == PaidOf(e)
<1>6. \A u \in Tasks : f[u] = Paid(d, u) /\ k[u] = Paid(e, u)
  BY DEF PaidOf
<1>. HIDE DEF f, k
<1>7. Total(k, Tasks) = Total(f, Tasks) + k[t] - f[t] /\ Total(f, Tasks) \in Int
  <2>0. /\ \A u \in Tasks : f[u] \in Int /\ k[u] \in Int
        /\ \A u \in Tasks \ {t} : f[u] = k[u]
    BY <1>2, <1>3, <1>6
  <2>1. Total(k, Tasks) = Total(f, Tasks) + k[t] - f[t]
    BY <2>0, TasksAssumption, TotalChange
  <2>2. Total(f, Tasks) \in Int
    BY <1>2, <1>6, TasksAssumption, TotalType
  <2>. QED BY <2>1, <2>2
<1>8. Total(f, Tasks) <= d.used["retries"]
  BY DEF PaidIn, f
<1>9. Total(k, Tasks) <= e.used["retries"]
  BY <1>2, <1>4, <1>5, <1>6, <1>7, <1>8 DEF Repaid
<1>. QED BY <1>9 DEF PaidIn, k

-----------------------------------------------------------------------------
\* All of it together, from the first state on.

BookInv ==
  /\ AttemptInv
  /\ Books(disk) /\ Books(db)
  /\ PaidIn(disk) /\ PaidIn(db)

\* The first store owes nothing and has spent nothing.
LEMMA BookInit == Init /\ AttemptInv => BookInv
<1>. SUFFICES ASSUME Init, AttemptInv
              PROVE  Books(EmptyStore) /\ PaidIn(EmptyStore)
  BY DEF Init, BookInv
<1>. DEFINE d == EmptyStore
<1>1. /\ \A t \in Tasks : d.lease[t] = NoLease
      /\ \A r \in Resources : d.reserved[r] = 0 /\ d.used[r] = 0
      /\ d.mail = {} /\ d.consumed = {}
  BY DEF EmptyStore
<1>. HIDE DEF d
<1>2. \A t \in Tasks : ~Held(d, t) /\ Ids(d, t) = {} /\ Owed(d, t) = Nothing
  BY <1>1 DEF Held, Ids, Asked, Owed
<1>3. BilledOf(d) /\ OneSided(d) /\ ApprovalsBoundIn(d)
  BY <1>1, <1>2 DEF BilledOf, Bills, OneSided, ApprovalsBoundIn, Resources
<1>4. WithinLimitsIn(d)
  <2>1. \A r \in Resources : 0 <= Limit[r]
    BY BudgetAssumption
  <2>. QED BY <1>1, <2>1 DEF WithinLimitsIn
<1>5. ReservedOf(d)
  <2>1. ASSUME NEW r \in AttemptResources
        PROVE  d.reserved[r] = Total(OwedIn(d, r), Tasks)
    <3>1. \A t \in Tasks : OwedIn(d, r)[t] = 0
      BY <1>2 DEF OwedIn, Nothing
    <3>2. Total(OwedIn(d, r), Tasks) = 0
      BY <3>1, TasksAssumption, TotalZero
    <3>. QED BY <1>1, <3>2 DEF Resources
  <2>. QED BY <2>1 DEF ReservedOf
<1>6. PaidIn(d)
  <2>1. \A t \in Tasks : PaidOf(d)[t] = 0
    BY <1>2, FS_EmptySet DEF PaidOf, Paid
  <2>2. Total(PaidOf(d), Tasks) = 0
    BY <2>1, TasksAssumption, TotalZero
  <2>. QED BY <1>1, <2>2 DEF PaidIn, Resources
<1>. QED BY <1>3, <1>4, <1>5, <1>6 DEF Books, d

\* One step from store d to store e.
Booked(d, e) ==
  /\ Books(e)
  /\ e = d \/ (TaskStep(d, e) /\ Repaid(d, e))

\* The books of the working copy stay right in every step, and follow either
\* those of the last step or those of the committed store.
LEMMA BookStep ==
  ASSUME BookInv, StepInv', [Next]_vars
  PROVE  /\ disk' \in {disk, db, db'}
         /\ Booked(disk, db') \/ Booked(db, db')
<1>. USE DEF BookInv, AttemptInv
<1>0. /\ StepInv /\ Books(disk) /\ Books(db) /\ StoreType(db') /\ TypeInv
      /\ LeasesOwn(disk)
  BY SoundOwn DEF StepInv, AuthorityInv, TypeInv
<1>. HIDE DEF BookInv, AttemptInv
<1>1. CASE UNCHANGED vars
  BY <1>0, <1>1 DEF vars, Booked
<1>2. CASE AdvanceClock \/ \E h \in Hosts : BeginTick(h)
  <2>1. AdvanceClock \/ \E h, target, pc, after : Begin(h, target, pc, after)
    BY <1>2 DEF BeginTick
  <2>2. /\ TaskStep(disk, db') /\ disk' \in {disk, db'}
        /\ Books(db') /\ Repaid(disk, db')
    BY <1>0, <2>1, OpenChange, OpenBooks
  <2>. QED BY <2>2 DEF Booked
<1>3. CASE \E h \in Hosts, t \in Tasks : BeginCancelCheck(h, t) \/ BeginCancel(h, t)
  <2>1. \E h, target, pc, after : Begin(h, target, pc, after)
    BY <1>3 DEF BeginCancelCheck, BeginCancel
  <2>2. /\ TaskStep(disk, db') /\ disk' = disk
        /\ Books(db') /\ Repaid(disk, db')
    BY <1>0, <2>1, OpenChange, OpenBooks
  <2>. QED BY <2>2 DEF Booked
<1>4. CASE \E t \in Tasks : Expire(t) \/ RefreshTask(t) \/ RetryWorktree(t)
                            \/ DispatchReady(t) \/ Cancel(t)
  <2>. PICK t \in Tasks : \/ Expire(t) \/ RefreshTask(t) \/ RetryWorktree(t)
                          \/ DispatchReady(t) \/ Cancel(t)
    BY <1>4
  <2>1. disk' = disk
    BY DEF Expire, ProposalExpires, LeaseExpires, RefreshTask, RetryWorktree,
           DispatchReady, Dispatching, BudgetBlocks, ApprovalBlocks, WorktreeBlocks,
           RequestWorktree, Dispatch, Cancel, CancelRefused, CancelRepeated,
           CancelRequested
  <2>2. db' = db \/ TaskStep(db, db')
    BY <1>0, ExpiryChange, RefreshChange, DispatchChange, CancelChange
  <2>3. Books(db') /\ Repaid(db, db')
    BY <1>0, ExpiryBooks, RefreshBooks, ReadyBooks, CancelBooks
  <2>. QED BY <2>1, <2>2, <2>3 DEF Booked
<1>5. CASE \E m \in Deliverable : Ingest(m)
  <2>. PICK m \in Deliverable : Ingest(m)
    BY <1>5
  <2>1. disk' = disk
    BY DEF Ingest, Redelivered, Reject, CapabilityObserved, ApprovalReceived,
           DispatchAccepted, DispatchRejected, Heartbeat, ResultRaises,
           ResultSucceeded, ResultUnsuccessful, CancelAcknowledged,
           WorktreeObserved, Adopt
  <2>2. db' = db \/ TaskStep(db, db')
    BY <1>0, IngestChange
  <2>3. Books(db') /\ Repaid(db, db')
    BY <1>0, IngestBooks
  <2>. QED BY <2>1, <2>2, <2>3 DEF Booked
<1>6. CASE ExpiryDone \/ IngestDone \/ RefreshDone \/ RetryDone \/ DispatchDone
  BY <1>0, <1>6 DEF ExpiryDone, IngestDone, RefreshDone, RetryDone, DispatchDone, Booked
<1>7. CASE Commit \/ Abort \/ Crash
  BY <1>0, <1>7 DEF Commit, Abort, Crash, Booked
<1>. QED BY <1>1, <1>2, <1>3, <1>4, <1>5, <1>6, <1>7 DEF Next, Work, Call

\* The invariant on which the theorems below rest.
LEMMA BookInvariant == Spec => []BookInv
<1>1. Init /\ AttemptInv => BookInv
  BY BookInit
<1>2. ASSUME BookInv, StepInv', [Next]_vars
      PROVE  /\ Books(disk') /\ Books(db')
             /\ PaidIn(disk') /\ PaidIn(db')
  <2>1. /\ disk' \in {disk, db, db'}
        /\ Booked(disk, db') \/ Booked(db, db')
    BY <1>2, BookStep
  <2>2. /\ StoreType(disk) /\ StoreType(db) /\ Sound(disk) /\ Sound(db) /\ now \in Nat
        /\ StoreType(db') /\ Ledger(disk, now) /\ Ledger(db, now)
        /\ Books(disk) /\ Books(db) /\ PaidIn(disk) /\ PaidIn(db)
    BY <1>2 DEF BookInv, AttemptInv, StepInv, AuthorityInv, TypeInv
  <2>3. Books(db') /\ PaidIn(db')
    BY <2>1, <2>2, PaidKept DEF Booked
  <2>. QED BY <2>1, <2>2, <2>3
<1>3. BookInv /\ StepInv' /\ AttemptInv' /\ [Next]_vars => BookInv'
  BY <1>2 DEF BookInv
<1>. QED BY <1>1, <1>3, StepInvariant, AttemptInvariant, PTL DEF Spec

-----------------------------------------------------------------------------
\* What follows from it.

\* The sum the safety property takes of what Leases have outstanding.
LEMMA OwedSum ==
  ASSUME NEW d, NEW r \in AttemptResources, NEW A, A = {t \in Tasks : Held(d, t)}
  PROVE  MapThenSumSet(LAMBDA t : Outstanding(d, d.lease[t].id)[r], A)
           = Total(OwedIn(d, r), A)
<1>. DEFINE f == OwedIn(d, r)
            Q(g) == g = [s \in SUBSET A |->
                           IF s = {} THEN 0
                           ELSE LET x == CHOOSE x \in s : TRUE
                                IN  Outstanding(d, d.lease[x].id)[r] + g[s \ {x}]]
<1>0. IsFiniteSet(A)
  BY TasksAssumption, FS_Subset
<1>1. ASSUME NEW s \in SUBSET A, s # {}
      PROVE  f[Taken(s)] = Outstanding(d, d.lease[Taken(s)].id)[r]
  <2>1. Taken(s) \in Tasks /\ Held(d, Taken(s))
    BY <1>1, TakenFrom
  <2>. QED BY <2>1 DEF OwedIn, Owed
<1>. HIDE DEF f
<1>2. ASSUME NEW g
      PROVE  FoldOf(g, f, A) <=> Q(g)
  <2>1. Q(g) <=> g = [s \in SUBSET A |->
                        IF s = {} THEN 0
                        ELSE Outstanding(d, d.lease[Taken(s)].id)[r] + g[s \ {Taken(s)}]]
    BY DEF Taken
  <2>2. ASSUME NEW s \in SUBSET A
        PROVE  (IF s = {} THEN 0
                ELSE Outstanding(d, d.lease[Taken(s)].id)[r] + g[s \ {Taken(s)}])
             = SumFrom(g, f, s)
    BY <1>1 DEF SumFrom, Rest
  <2>. HIDE DEF Q
  <2>3. [s \in SUBSET A |->
           IF s = {} THEN 0
           ELSE Outstanding(d, d.lease[Taken(s)].id)[r] + g[s \ {Taken(s)}]]
      = [s \in SUBSET A |-> SumFrom(g, f, s)]
    BY <2>2
  <2>. QED BY <2>1, <2>3 DEF FoldOf
<1>3. MapThenSumSet(LAMBDA t : Outstanding(d, d.lease[t].id)[r], A) = (CHOOSE g : Q(g))[A]
  BY DEF MapThenSumSet, MapThenFoldSet
<1>. HIDE DEF Q
<1>4. Q(CHOOSE g : Q(g))
  BY <1>0, <1>2, FoldExists
<1>5. (CHOOSE g : Q(g))[A] = Total(f, A)
  BY <1>0, <1>2, <1>4, TotalIs
<1>. QED BY <1>3, <1>5 DEF f

\* The sum the safety property takes of the attempts after the first.
LEMMA RetriesSum ==
  ASSUME NEW d, NEW f, \A t \in Tasks : f[t] = LET n == Cardinality(ActivatedIds(d, t))
                                              IN  IF n = 0 THEN 0 ELSE n - 1
  PROVE  MapThenSumSet(LAMBDA t : LET n == Cardinality(ActivatedIds(d, t))
                                  IN  IF n = 0 THEN 0 ELSE n - 1, Tasks)
           = Total(f, Tasks)
<1>. DEFINE A == Tasks
            P(t) == LET n == Cardinality(ActivatedIds(d, t))
                    IN  IF n = 0 THEN 0 ELSE n - 1
            Q(g) == g = [s \in SUBSET A |->
                           IF s = {} THEN 0
                           ELSE LET x == CHOOSE x \in s : TRUE
                                IN  P(x) + g[s \ {x}]]
<1>0. IsFiniteSet(A) /\ \A t \in A : f[t] = P(t)
  BY TasksAssumption
<1>3. MapThenSumSet(LAMBDA t : LET n == Cardinality(ActivatedIds(d, t))
                               IN  IF n = 0 THEN 0 ELSE n - 1, A) = (CHOOSE g : Q(g))[A]
  BY DEF MapThenSumSet, MapThenFoldSet
<1>. HIDE DEF P, A
<1>1. ASSUME NEW s \in SUBSET A, s # {}
      PROVE  f[Taken(s)] = P(Taken(s))
  BY <1>0, <1>1, TakenFrom
<1>2. ASSUME NEW g
      PROVE  FoldOf(g, f, A) <=> Q(g)
  <2>1. Q(g) <=> g = [s \in SUBSET A |->
                        IF s = {} THEN 0 ELSE P(Taken(s)) + g[s \ {Taken(s)}]]
    BY DEF Taken
  <2>2. ASSUME NEW s \in SUBSET A
        PROVE  (IF s = {} THEN 0 ELSE P(Taken(s)) + g[s \ {Taken(s)}]) = SumFrom(g, f, s)
    BY <1>1 DEF SumFrom, Rest
  <2>. HIDE DEF Q
  <2>3. [s \in SUBSET A |-> IF s = {} THEN 0 ELSE P(Taken(s)) + g[s \ {Taken(s)}]]
      = [s \in SUBSET A |-> SumFrom(g, f, s)]
    BY <2>2
  <2>. QED BY <2>1, <2>3 DEF FoldOf
<1>. HIDE DEF Q
<1>4. Q(CHOOSE g : Q(g))
  BY <1>0, <1>2, FoldExists
<1>5. (CHOOSE g : Q(g))[A] = Total(f, A)
  BY <1>0, <1>2, <1>4, TotalIs
<1>. QED BY <1>3, <1>5 DEF A

\* What is reserved of each resource is the sum of what the current Leases
\* have outstanding, and never negative: every reservation that is made is
\* settled or given back exactly once, however the attempt ends
\* (_settle_context_reservation, _settle_result_budget,
\* _close_attempt_budget).
THEOREM ReservationsAreExact == Spec => []ReservationsExact
<1>1. ASSUME BookInv, NEW d \in {disk, db}, NEW r \in AttemptResources
      PROVE  /\ d.reserved[r] = MapThenSumSet(LAMBDA t : Outstanding(d, d.lease[t].id)[r],
                                              {t \in Tasks : Held(d, t)})
             /\ d.reserved[r] >= 0
  <2>. DEFINE A == {t \in Tasks : Held(d, t)}
              f == OwedIn(d, r)
  <2>1. BilledOf(d) /\ d.reserved[r] = Total(f, Tasks)
    BY <1>1 DEF BookInv, Books, ReservedOf
  <2>2. \A t \in Tasks : f[t] \in Nat
    BY <2>1, OwedType DEF OwedIn
  <2>3. \A t \in Tasks \ A : f[t] = 0
    BY DEF OwedIn, Owed, Nothing
  <2>4. Total(f, Tasks) = Total(f, A)
    <3>. HIDE DEF f
    <3>1. A \in SUBSET Tasks
      OBVIOUS
    <3>. HIDE DEF A
    <3>. QED BY <2>2, <2>3, <3>1, TasksAssumption, TotalOver
  <2>5. MapThenSumSet(LAMBDA t : Outstanding(d, d.lease[t].id)[r], A) = Total(f, A)
    BY OwedSum
  <2>6. Total(f, Tasks) \in Nat
    <3>. HIDE DEF f
    <3>. QED BY <2>2, TasksAssumption, TotalType
  <2>. HIDE DEF f
  <2>. QED BY <2>1, <2>4, <2>5, <2>6
<1>2. BookInv => ReservationsExact
  BY <1>1 DEF ReservationsExact, ReservationsExactIn, Everywhere
<1>. QED BY <1>2, BookInvariant, PTL

\* What is reserved and what is used never exceed a limit of the graph
\* together, whichever way reservations turn into usage.
THEOREM LimitsHold == Spec => []WithinLimits
<1>1. BookInv => WithinLimits
  BY DEF BookInv, Books, WithinLimits, Everywhere
<1>. QED BY <1>1, BookInvariant, PTL

\* Every dispatch has for each of its stops exactly one consumed approval, of
\* its own Lease and alive when it was dispatched.
THEOREM ApprovalsAreBound == Spec => []ApprovalsBound
<1>1. BookInv => ApprovalsBound
  BY DEF BookInv, Books, ApprovalsBound, Everywhere
<1>. QED BY <1>1, BookInvariant, PTL

\* Every activation after the first one of its task was paid for with a retry,
\* in the transaction that made the task ready again (_reserve_retry).
THEOREM RetriesArePaid == Spec => []RetriesPaid
<1>1. ASSUME BookInv, NEW d \in {disk, db}
      PROVE  RetriesPaidIn(d)
  <2>. DEFINE f == [t \in Tasks |-> LET n == Cardinality(ActivatedIds(d, t))
                                    IN  IF n = 0 THEN 0 ELSE n - 1]
              k == PaidOf(d)
  <2>1. /\ StoreType(d) /\ \A t \in Tasks : CountedOf(d, t)
        /\ Total(k, Tasks) <= d.used["retries"]
    BY <1>1, StoresOf DEF BookInv, AttemptsOf, PaidIn
  <2>2. ASSUME NEW t \in Tasks
        PROVE  f[t] \in Int /\ k[t] \in Int /\ f[t] <= k[t]
    <3>1. /\ ActivatedIds(d, t) = Ids(d, t) /\ Cardinality(Ids(d, t)) \in Nat
          /\ Ids(d, t) = {} <=> Cardinality(Ids(d, t)) = 0
      BY <2>1, ActivatedAre, PaidType
    <3>2. k[t] = Paid(d, t)
      BY DEF PaidOf
    <3>3. f[t] = IF Cardinality(Ids(d, t)) = 0 THEN 0 ELSE Cardinality(Ids(d, t)) - 1
      BY <3>1
    <3>. HIDE DEF f, k
    <3>. QED BY <3>1, <3>2, <3>3 DEF Paid
  <2>3. MapThenSumSet(LAMBDA t : LET n == Cardinality(ActivatedIds(d, t))
                                 IN  IF n = 0 THEN 0 ELSE n - 1, Tasks) = Total(f, Tasks)
    BY RetriesSum
  <2>. HIDE DEF f, k
  <2>4. Total(f, Tasks) <= Total(k, Tasks)
    BY <2>2, TasksAssumption, TotalAtMost
  <2>5. Total(f, Tasks) \in Int /\ Total(k, Tasks) \in Int /\ d.used["retries"] \in Int
    <3>1. d.used["retries"] \in Int
      BY <2>1 DEF StoreType, Resources
    <3>. QED BY <2>2, <3>1, TasksAssumption, TotalType
  <2>6. Total(f, Tasks) <= d.used["retries"]
    BY <2>1, <2>4, <2>5
  <2>. QED BY <2>3, <2>6 DEF RetriesPaidIn
<1>2. BookInv => RetriesPaid
  BY <1>1 DEF RetriesPaid, Everywhere
<1>. QED BY <1>2, BookInvariant, PTL
=============================================================================
