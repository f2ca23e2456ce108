--------------------------- MODULE WorkflowLedger ---------------------------
(***************************************************************************)
(* What the workflow epochs promise, with no receipts, keys, retries or    *)
(* phases: each Plan has one current State; at most once it gets its       *)
(* Outcome; between that decision and its settlement nothing else in the   *)
(* store moves, so the Outcome speaks of the scheduler as it then is.      *)
(***************************************************************************)
EXTENDS Naturals

CONSTANTS Plans, States, Outcomes, None

VARIABLES
  authority,    \* the scheduler's event sequence
  current,      \* each Plan's current State, or None
  verdict,      \* each Plan's Outcome, or None
  settled       \* the Plans whose Outcome is confirmed

ledger == <<authority, current, verdict, settled>>

Init ==
  /\ authority = 0
  /\ current = [p \in Plans |-> None]
  /\ verdict = [p \in Plans |-> None]
  /\ settled = {}

\* A Plan between its decision and its settlement.
Undecided(p) == verdict[p] = None
Quiet == \A p \in Plans : Undecided(p) \/ p \in settled

\* The scheduler advances.
Advance == Quiet /\ authority' = authority + 1 /\ UNCHANGED <<current, verdict, settled>>

\* A Plan gets its next State.
Extend(p) ==
  /\ Quiet /\ Undecided(p)
  /\ \E s \in States : current' = [current EXCEPT ![p] = s]
  /\ UNCHANGED <<authority, verdict, settled>>

\* A started Plan gets its only Outcome, with its last State.
Decide(p) ==
  /\ Quiet /\ Undecided(p) /\ current[p] # None
  /\ \E s \in States, o \in Outcomes :
       /\ current' = [current EXCEPT ![p] = s]
       /\ verdict' = [verdict EXCEPT ![p] = o]
  /\ UNCHANGED <<authority, settled>>

\* The decided Plan's publication is complete.
Settle(p) ==
  /\ ~Undecided(p)
  /\ settled' = settled \cup {p}
  /\ UNCHANGED <<authority, current, verdict>>

Next == Advance \/ \E p \in Plans : Extend(p) \/ Decide(p) \/ Settle(p)
Spec == Init /\ [][Next]_ledger
=============================================================================
