----------------------------- MODULE Migrations -----------------------------
(***************************************************************************)
(* Owner-approved one-shot migrations: MigrationService (a 1.0 registry to *)
(* a new 2.0 file) and SchedulerMigrationService (a v1 scheduler database  *)
(* to a new v2 one).  Both claim their approval in one shared consumption  *)
(* file, under a lock file, before they link their output into place.      *)
(*                                                                         *)
(* A source's bytes are its version: registries change when someone edits  *)
(* them or the companion Tool Registry, the scheduler's when a host        *)
(* appends an event.                                                       *)
(***************************************************************************)
EXTENDS Naturals, FiniteSets

CONSTANTS
  Procs,        \* processes running a migration
  Approvals,    \* approval records: [id, source, version, output, from, until]
  Registries,   \* sources that are registry files; the others are databases
  Sources,      \* all migration sources
  MaxVersion,   \* edits the model lets a source take
  MaxTime,      \* last reading of the clock
  MaxRecords,   \* _MAX_MIGRATION_CONSUMPTION_RECORDS
  None

ASSUME MigrationBounds == {MaxVersion, MaxTime, MaxRecords} \subseteq Nat
ASSUME RegistriesAreSources == Registries \subseteq Sources
ASSUME ApprovalsNameSources == \A a \in Approvals : a.source \in Sources
ASSUME NobodyIsNone == None \notin Procs

VARIABLES
  now,          \* the wall clock
  bytes,        \* source -> its version
  writer,       \* database -> the process inside BEGIN IMMEDIATE, or None
  consumed,     \* records of the consumption file: [id, at]
  lock,         \* holder of the lock file, "stale" if its holder died, or None
  outputs,      \* output path -> [id, version], once linked
  proc,         \* process -> its place in migrate()
  told          \* what migrate() last told a caller: [id, verdict]

vars == <<now, bytes, writer, consumed, lock, outputs, proc, told>>

Outputs == {a.output : a \in Approvals}
Idle == [step |-> "idle"]
At(p, step) == proc[p].step = step
Goto(p, step) == proc' = [proc EXCEPT ![p].step = step]
InForce(a, t) == a.from <= t /\ t < a.until
IsRegistry(a) == a.source \in Registries
Finished(p, verdict) ==
  /\ proc' = [proc EXCEPT ![p] = Idle]
  /\ told' = [id |-> proc[p].a.id, verdict |-> verdict]
Release(p) == writer' = [s \in DOMAIN writer |-> IF writer[s] = p THEN None ELSE writer[s]]

\* _load_migration_approval: the record names exactly this source, these bytes
\* and this output, and is current.
Authorizes(a, t) ==
  /\ bytes[a.source] = a.version
  /\ a.output \notin DOMAIN outputs
  /\ InForce(a, t)

Begin(p, a) ==
  /\ At(p, "idle")
  /\ Authorizes(a, now)
  /\ proc' = [proc EXCEPT ![p] =
       [step |-> IF IsRegistry(a) THEN "confirm" ELSE "copy", a |-> a, read |-> bytes[a.source],
        at |-> now, seen |-> {}, claimed |-> FALSE]]
  /\ UNCHANGED <<now, bytes, writer, consumed, lock, outputs, told>>

\* migrate_scheduler_database_v1_to_v2: exclude writers, then copy the evidence the
\* approval named.
M_Copy(p) ==
  LET a == proc[p].a
  IN  /\ At(p, "copy")
      /\ writer[a.source] = None /\ bytes[a.source] = proc[p].read
      /\ Goto(p, "confirm")
      /\ UNCHANGED <<now, bytes, writer, consumed, lock, outputs, told>>
Copy(p) ==
  LET a == proc[p].a
  IN  /\ At(p, "copy")
      /\ writer[a.source] = None /\ bytes[a.source] = proc[p].read
      /\ writer' = [writer EXCEPT ![a.source] = p]
      /\ Goto(p, "confirm")
      /\ UNCHANGED <<now, bytes, consumed, lock, outputs, told>>

\* before_publish: the source still has the bytes read, and the approval is still
\* current at the time the claim will carry.
Confirm(p) ==
  LET a == proc[p].a
  IN  /\ At(p, "confirm")
      /\ IsRegistry(a) => bytes[a.source] = proc[p].read
      /\ InForce(a, now)
      /\ proc' = [proc EXCEPT ![p].step = "lock", ![p].at = now]
      /\ UNCHANGED <<now, bytes, writer, consumed, lock, outputs, told>>

\* MigrationApprovalConsumptionStore.claim
TakeLock(p) ==
  /\ At(p, "lock") /\ lock = None
  /\ lock' = p
  /\ Goto(p, "load")
  /\ UNCHANGED <<now, bytes, writer, consumed, outputs, told>>
Claimable(a, at) ==
  /\ \A r \in consumed : r.id # a.id /\ r.at <= at
  /\ Cardinality(consumed) < MaxRecords
Load(p) ==
  /\ At(p, "load") /\ Claimable(proc[p].a, proc[p].at)
  /\ proc' = [proc EXCEPT ![p].step = "replace", ![p].seen = consumed]
  /\ UNCHANGED <<now, bytes, writer, consumed, lock, outputs, told>>
Replace(p) ==
  /\ At(p, "replace")
  /\ consumed' = proc[p].seen \cup {[id |-> proc[p].a.id, at |-> proc[p].at]}
  /\ proc' = [proc EXCEPT ![p].step = "unlock", ![p].claimed = TRUE]
  /\ UNCHANGED <<now, bytes, writer, lock, outputs, told>>
\* The finally clause, after the claim or after its refusal.
M_Unlock(p) ==
  /\ At(p, "unlock") \/ At(p, "load")
  /\ lock' = IF lock = p THEN None ELSE lock
  /\ Goto(p, "link")
  /\ UNCHANGED <<now, bytes, writer, consumed, outputs, told>>
Unlock(p) ==
  /\ \/ At(p, "unlock")
     \/ At(p, "load") /\ ~Claimable(proc[p].a, proc[p].at)
  /\ lock' = IF lock = p THEN None ELSE lock
  /\ IF proc[p].claimed
     THEN Goto(p, "link") /\ UNCHANGED <<writer, told>>
     ELSE Finished(p, "refused") /\ Release(p)
  /\ UNCHANGED <<now, bytes, consumed, outputs>>

\* os.link: exclusive, whoever else published there since.
Link(p) ==
  LET a == proc[p].a
  IN  /\ At(p, "link") /\ a.output \notin DOMAIN outputs
      /\ outputs' = [o \in DOMAIN outputs \cup {a.output} |->
                       IF o = a.output THEN [id |-> a.id, version |-> proc[p].read]
                                       ELSE outputs[o]]
      /\ Goto(p, "after")
      /\ UNCHANGED <<now, bytes, writer, consumed, lock, told>>
\* after_publish for a registry, commit and release for a database.
After(p) ==
  LET a == proc[p].a
  IN  /\ At(p, "after")
      /\ Finished(p, IF IsRegistry(a) /\ bytes[a.source] # proc[p].read
                     THEN "indeterminate" ELSE "migrated")
      /\ Release(p)
      /\ UNCHANGED <<now, bytes, consumed, lock, outputs>>

\* Every other failed check raises before anything is published.
Refused(p) ==
  LET a == proc[p].a
  IN  /\ CASE proc[p].step = "copy" -> writer[a.source] # None \/ bytes[a.source] # proc[p].read
           [] proc[p].step = "confirm" ->
                (IsRegistry(a) /\ bytes[a.source] # proc[p].read) \/ ~InForce(a, now)
           [] proc[p].step = "lock" -> lock # None
           [] proc[p].step = "link" -> a.output \in DOMAIN outputs
           [] OTHER -> FALSE
      /\ Finished(p, "refused") /\ Release(p)
      /\ UNCHANGED <<now, bytes, consumed, lock, outputs>>

\* A process dies: SQLite drops its write lock, but the lock file stays.
Crash(p) ==
  /\ ~At(p, "idle")
  /\ proc' = [proc EXCEPT ![p] = Idle]
  /\ Release(p)
  /\ lock' = IF lock = p THEN "stale" ELSE lock
  /\ UNCHANGED <<now, bytes, consumed, outputs, told>>

\* Everyone else: editors of a registry, hosts of a database, the clock.
Edit(s) ==
  /\ bytes[s] < MaxVersion
  /\ s \notin Registries => writer[s] = None
  /\ bytes' = [bytes EXCEPT ![s] = @ + 1]
  /\ UNCHANGED <<now, writer, consumed, lock, outputs, proc, told>>
Elapse ==
  /\ now < MaxTime
  /\ now' = now + 1
  /\ UNCHANGED <<bytes, writer, consumed, lock, outputs, proc, told>>

Init ==
  /\ now = 0
  /\ bytes = [s \in Sources |-> 0]
  /\ writer = [s \in Sources \ Registries |-> None]
  /\ consumed = {} /\ lock = None
  /\ outputs = <<>>
  /\ proc = [p \in Procs |-> Idle]
  /\ told = [id |-> 0, verdict |-> "none"]
Next ==
  \/ Elapse
  \/ \E s \in Sources : Edit(s)
  \/ \E p \in Procs :
       \/ \E a \in Approvals : Begin(p, a)
       \/ Copy(p) \/ Confirm(p) \/ TakeLock(p) \/ Load(p) \/ Replace(p) \/ Unlock(p)
       \/ Link(p) \/ After(p) \/ Refused(p) \/ Crash(p)
Spec == Init /\ [][Next]_vars

----------------------------------------------------------------------------
(* Properties *)

\* Nothing appears without its approval being spent first: whatever crashes and clock
\* readings a claim meets, and whoever held the lock, a published output has its record in
\* the consumption file (before_publish runs before os.link).
ClaimedBeforePublished ==
  \A o \in DOMAIN outputs : \E r \in consumed : r.id = outputs[o].id

\* A claim is never lost: two processes that claim different approvals at the same
\* time both stay in the consumption file (the lock orders load and replace).
ClaimsStay == consumed \subseteq consumed'

\* Nothing of the source is left behind unseen: when the v2 output of a database appears
\* no event has been added to its v1 source since the copy, and a registry that was edited
\* before its migration ends is never reported as migrated, although its copy, with the
\* bytes from before the edit, may have appeared.
CopiesWhole ==
  [][/\ \A o \in DOMAIN outputs' \ DOMAIN outputs : \E a \in Approvals :
          /\ a.output = o /\ a.id = outputs'[o].id
          /\ ~IsRegistry(a) => outputs'[o].version = bytes[a.source]
     /\ told' # told /\ told'.verdict = "migrated" => \E a \in Approvals :
          /\ a.id = told'.id
          /\ IsRegistry(a) => outputs[a.output].version = bytes[a.source]]_vars
=============================================================================
