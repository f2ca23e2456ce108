---------------------------- MODULE AttemptLedger ----------------------------
(***************************************************************************)
(* What the scheduler promises of attempts, with no messages, leases,      *)
(* budgets or clocks: where each task stands and how many attempts it had. *)
(* A call works on a copy of the ledger; it is committed as a whole or     *)
(* forgotten, and a task that is over stays as it is.                      *)
(***************************************************************************)
EXTENDS Naturals, FiniteSets

CONSTANTS
  Tasks, Dependencies, ReviewTargets, ReadOnly, MaxAttempts,
  Slots     \* how many tasks may run at once

VARIABLES
  entry,    \* task -> [standing, attempt], as the open call sees it
  saved     \* the same, as committed

ledger == <<entry, saved>>

\* "offered": an attempt has its number, and nobody was asked to run it.
Standings == {"waiting", "offered", "running", "completed", "closed", "doubtful"}

Init ==
  /\ entry = [t \in Tasks |-> [standing |-> "waiting", attempt |-> 0]]
  /\ saved = entry

Is(t, standing) == entry[t].standing = standing
Completed(S) == \A u \in S : Is(u, "completed")

Becomes(t, standing, attempt) ==
  /\ entry' = [entry EXCEPT ![t] = [standing |-> standing, attempt |-> attempt]]
  /\ UNCHANGED saved

\* The next attempt gets its number, once what the task waits for is done.
Offer(t) ==
  /\ Is(t, "waiting") /\ Completed(Dependencies[t])
  /\ entry[t].attempt < MaxAttempts[t]
  /\ Becomes(t, "offered", entry[t].attempt + 1)

\* An offer nobody acted on gives its number back.
Withdraw(t) == Is(t, "offered") /\ Becomes(t, "waiting", entry[t].attempt - 1)

\* A host is asked, for an offer or at once, while a slot is free.
Start(t) ==
  /\ Completed(Dependencies[t])
  /\ Cardinality({u \in Tasks : Is(u, "running")}) < Slots
  /\ \/ Is(t, "offered") /\ Becomes(t, "running", entry[t].attempt)
     \/ /\ Is(t, "waiting") /\ entry[t].attempt < MaxAttempts[t]
        /\ Becomes(t, "running", entry[t].attempt + 1)

\* A lost or failed attempt may be repeated, if it had no effects.
Retry(t) ==
  /\ Is(t, "running") /\ t \in ReadOnly /\ entry[t].attempt < MaxAttempts[t]
  /\ Becomes(t, "waiting", entry[t].attempt)

\* A review is complete only after what it reviews.
Complete(t) ==
  /\ Is(t, "running") /\ Completed(ReviewTargets[t])
  /\ Becomes(t, "completed", entry[t].attempt)

\* Rejected or superseded, or over with nobody knowing how.
GiveUp(t) ==
  /\ Is(t, "running")
  /\ \E standing \in {"closed", "doubtful"} : Becomes(t, standing, entry[t].attempt)

Commit == saved' = entry /\ UNCHANGED entry
Forget == entry' = saved /\ UNCHANGED saved

Next ==
  \/ Commit \/ Forget
  \/ \E t \in Tasks : \/ Offer(t) \/ Withdraw(t) \/ Start(t)
                      \/ Retry(t) \/ Complete(t) \/ GiveUp(t)
Spec == Init /\ [][Next]_ledger
=============================================================================
