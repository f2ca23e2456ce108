--------------------- MODULE WorkflowPublicationSafety ---------------------
(* What the workflow services promise about the checkout and the epoch.     *)
EXTENDS WorkflowPublication

\* A confirmed receipt is evidence that the bytes are there: the file exists under
\* that path with that identity and, once its writer is past it, one link.
\* Publication precedes confirmation in every service, whatever crashes, races
\* and retries happen in between.
ConfirmedIsPublished ==
  \A p \in Plans : \A a \in Receipts(p) :
    heads[p].receipts[a] = "CONFIRMED" =>
      a.path \in DOMAIN disk /\ disk[a.path] = a.id /\ a.path \notin twice

\* Nothing is ever published that the store did not reserve first: a process that
\* dies can leave a file whose receipt is still open, never an unaccounted one.
ReservedBeforePublished ==
  \A path \in DOMAIN disk : \E p \in Plans : \E a \in Receipts(p) :
    a.path = path /\ a.id = disk[path]

\* A pending terminal publication is finished: it blocks the whole scheduler, and
\* the exact request may be repeated after a crash.
TerminalCloses ==
  \A p \in Plans : (p \in Pending(heads)) ~> (p \notin Pending(heads))
=============================================================================
