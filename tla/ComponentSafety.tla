--------------------------- MODULE ComponentSafety ---------------------------
(***************************************************************************)
(* What two components have in common: the migrations and the evidence     *)
(* ledger each keep a file that several processes rewrite under a lock     *)
(* file, and neither loses what was in it.                                 *)
(***************************************************************************)
EXTENDS Migrations, Assurance

\* Two processes that write one file under its lock keep each other's writes: the claims of
\* the consumption file (MigrationApprovalConsumptionStore.claim) and the evidence of a
\* ledger (EvidenceLedgerStore.add).
WritesKept == [][ClaimsStay /\ EvidenceStays]_<<vars, assuranceVars>>
=============================================================================
