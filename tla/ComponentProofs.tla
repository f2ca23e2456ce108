-------------------------- MODULE ComponentProofs --------------------------
(***************************************************************************)
(* The components beside the scheduler, for any number of processes,       *)
(* approvals, writers and rows.  What a consumed approval buys: in the     *)
(* migrations (Migrations), no output without its claim and none that      *)
(* leaves some of its source behind; in the tool executor (ToolExecution), *)
(* one started process for each approval and no retry of a sandbox denial  *)
(* without a new one.  Both rest on a lock file that is held from the read *)
(* of the consumption file to the write of it.  Who checks the work and    *)
(* when it may be called done: of a plan (Orchestration), reviewers come   *)
(* last and worktrees do not overlap; of a candidate (Assurance), what     *)
(* LOCAL_READY rests on, and that the lock file of the evidence ledger     *)
(* keeps its writers apart.  Of a context (Context), both sides of a       *)
(* contradiction or neither, and all that is required, for any manifest.   *)
(* Of a workflow (WorkflowRuntime), every entry one of the writers puts on *)
(* the chain is reproduced by the reader, at any later time, an ambiguity  *)
(* stays on record, and a completed Outcome rests on what the scheduler    *)
(* knew.                                                                   *)
(***************************************************************************)
EXTENDS ComponentSafety, ToolExecution, Orchestration, Context, WorkflowRuntime, SumProofs,
        SequenceTheorems

-----------------------------------------------------------------------------
\* The migrations.

Steps == {"copy", "confirm", "lock", "load", "replace", "unlock", "link", "after"}
Claims == [id : {a.id : a \in Approvals}, at : Nat]
Working == [step : Steps, a : Approvals, read : Nat, at : Nat, seen : SUBSET Claims,
            claimed : BOOLEAN]

TypeInv ==
  /\ now \in Nat
  /\ bytes \in [Sources -> Nat]
  /\ writer \in [Sources \ Registries -> Procs \cup {None}]
  /\ consumed \in SUBSET Claims
  /\ proc \in [Procs -> {Idle} \cup Working]

InLock == {"load", "replace", "unlock"}
Spent(id) == \E r \in consumed : r.id = id

\* What a process knows at each step: who has passed the lock file holds it, what it
\* read there is still there, its claim stays, and the database it copies stays.
Knows(p) ==
  /\ proc[p].step \in InLock => lock = p
  /\ proc[p].step = "replace" => proc[p].seen = consumed
  /\ proc[p].step \in Steps /\ proc[p].claimed => Spent(proc[p].a.id)
  /\ proc[p].step \in {"link", "after"} => proc[p].claimed
  /\ proc[p].step \in Steps \ {"copy"} /\ ~IsRegistry(proc[p].a) =>
       /\ writer[proc[p].a.source] = p
       /\ bytes[proc[p].a.source] = proc[p].read
  /\ proc[p].step = "copy" => ~IsRegistry(proc[p].a)
  /\ proc[p].step = "after" =>
       /\ proc[p].a.output \in DOMAIN outputs
       /\ outputs[proc[p].a.output].version = proc[p].read

Inv == TypeInv /\ ClaimedBeforePublished /\ \A p \in Procs : Knows(p)

\* The claims and the outputs are empty at first.
LEMMA InitInv == Init => Inv
BY RegistriesAreSources DEF Init, Inv, TypeInv, ClaimedBeforePublished, Knows, Idle, Steps,
   InLock, Claims

\* Starting an apply keeps the invariant.
LEMMA BeginInv == ASSUME Inv, NEW p \in Procs, NEW a \in Approvals, Begin(p, a) PROVE Inv'
<1>1. TypeInv'
  BY ApprovalsNameSources DEF Begin, Inv, TypeInv, Working, Steps, At, Authorizes
<1>2. ASSUME NEW q \in Procs PROVE Knows(q)'
  BY DEF Begin, Inv, TypeInv, Working, Steps, At, Authorizes, Knows, InLock, Spent, IsRegistry
<1>. QED BY <1>1, <1>2 DEF Inv, Begin, ClaimedBeforePublished

\* So does taking the private copy of the approved source.
LEMMA CopyInv == ASSUME Inv, NEW p \in Procs, Copy(p) PROVE Inv'
<1>1. proc[p] \in Working
  BY DEF Copy, Inv, TypeInv, At, Idle, Working
<1>2. TypeInv'
  BY <1>1 DEF Copy, Inv, TypeInv, Working, Steps, At, Goto
<1>3. ASSUME NEW q \in Procs PROVE Knows(q)'
  BY <1>1, ApprovalsNameSources, NobodyIsNone
     DEF Copy, Inv, TypeInv, Working, Steps, At, Goto, Knows, InLock, Spent, IsRegistry
<1>. QED BY <1>2, <1>3 DEF Inv, Copy, ClaimedBeforePublished

\* So does confirming that the copy is what was approved.
LEMMA ConfirmInv == ASSUME Inv, NEW p \in Procs, Confirm(p) PROVE Inv'
<1>1. proc[p] \in Working
  BY DEF Confirm, Inv, TypeInv, At, Idle, Working
<1>2. TypeInv'
  BY <1>1 DEF Confirm, Inv, TypeInv, Working, Steps, At
<1>3. ASSUME NEW q \in Procs PROVE Knows(q)'
  BY <1>1 DEF Confirm, Inv, TypeInv, Working, Steps, At, Knows, InLock, Spent, IsRegistry
<1>. QED BY <1>2, <1>3 DEF Inv, Confirm, ClaimedBeforePublished

\* So does taking the advisory lock.
LEMMA TakeLockInv == ASSUME Inv, NEW p \in Procs, TakeLock(p) PROVE Inv'
<1>1. proc[p] \in Working
  BY DEF TakeLock, Inv, TypeInv, At, Idle, Working
<1>2. TypeInv'
  BY <1>1 DEF TakeLock, Inv, TypeInv, Working, Steps, At, Goto
<1>3. ASSUME NEW q \in Procs PROVE Knows(q)'
  BY <1>1, NobodyIsNone
     DEF TakeLock, Inv, TypeInv, Working, Steps, At, Goto, Knows, InLock, Spent, IsRegistry
<1>. QED BY <1>2, <1>3 DEF Inv, TakeLock, ClaimedBeforePublished

\* So does loading the registry under the lock.
LEMMA LoadInv == ASSUME Inv, NEW p \in Procs, Load(p) PROVE Inv'
<1>1. proc[p] \in Working
  BY DEF Load, Inv, TypeInv, At, Idle, Working
<1>2. TypeInv'
  BY <1>1 DEF Load, Inv, TypeInv, Working, Steps, At
<1>3. ASSUME NEW q \in Procs PROVE Knows(q)'
  BY <1>1 DEF Load, Inv, TypeInv, Working, Steps, At, Knows, InLock, Spent, IsRegistry
<1>. QED BY <1>2, <1>3 DEF Inv, Load, ClaimedBeforePublished

\* The lock is what keeps this from losing a claim: seen is all there is.
LEMMA ReplaceInv == ASSUME Inv, NEW p \in Procs, Replace(p) PROVE Inv' /\ consumed \subseteq consumed'
<1>1. proc[p] \in Working /\ lock = p /\ proc[p].seen = consumed
  BY DEF Replace, Inv, TypeInv, At, Idle, Working, Knows, InLock
<1>. DEFINE claim == [id |-> proc[p].a.id, at |-> proc[p].at]
<1>2. claim \in Claims /\ consumed' = consumed \cup {claim}
  BY <1>1 DEF Replace, Working, Claims
<1>3. TypeInv'
  BY <1>1, <1>2 DEF Replace, Inv, TypeInv, Working, Steps
<1>4. proc'[p].a = proc[p].a /\ claim \in consumed' /\ claim.id = proc[p].a.id
  BY <1>1, <1>2 DEF Replace, Inv, TypeInv, Working
<1>. HIDE DEF claim
<1>5. ASSUME NEW q \in Procs PROVE Knows(q)'
  <2>1. CASE q = p
    <3>1. Spent(proc[p].a.id)'
      BY <1>4 DEF Spent
    <3>. QED
      BY <1>1, <3>1, <2>1 DEF Replace, Inv, TypeInv, Working, Steps, At, Knows, InLock, IsRegistry
  <2>2. CASE q # p
    BY <1>1, <1>2, <2>2 DEF Replace, Inv, TypeInv, Steps, At, Knows, InLock, Spent, IsRegistry
  <2>. QED BY <2>1, <2>2
<1>. QED BY <1>2, <1>3, <1>5 DEF Inv, Replace, ClaimedBeforePublished

\* A process that ends keeps nothing; the others know what they knew.
LEMMA ReleasedWriter ==
  ASSUME TypeInv, NEW p \in Procs, Release(p)
  PROVE  /\ writer' \in [Sources \ Registries -> Procs \cup {None}]
         /\ \A s \in Sources \ Registries : writer[s] # p => writer'[s] = writer[s]
BY DEF TypeInv, Release

\* So does giving up.
LEMMA EndedInv ==
  ASSUME Inv, NEW p \in Procs, Release(p), proc' = [proc EXCEPT ![p] = Idle],
         UNCHANGED <<now, bytes, consumed, outputs>>,
         lock' = lock \/ lock = p
  PROVE  Inv'
<1>1. TypeInv'
  BY ReleasedWriter DEF Inv, TypeInv
<1>2. ASSUME NEW q \in Procs PROVE Knows(q)'
  <2>1. CASE q = p
    BY <2>1 DEF Inv, TypeInv, Knows, Idle, Steps, InLock
  <2>2. CASE q # p
    <3>1. proc'[q] = proc[q] /\ (proc[q].step \in InLock => lock' = lock)
      BY <2>2 DEF Inv, TypeInv, Knows
    <3>2. proc[q].step \in Steps /\ ~IsRegistry(proc[q].a) =>
            proc[q].a.source \in Sources \ Registries
      BY ApprovalsNameSources DEF Inv, TypeInv, Idle, Working, IsRegistry, Steps
    <3>. QED
      BY <2>2, <3>1, <3>2, ReleasedWriter DEF Inv, Knows, IsRegistry, Spent, Steps, InLock
  <2>. QED BY <2>1, <2>2
<1>. QED BY <1>1, <1>2 DEF Inv, ClaimedBeforePublished

\* So does releasing the lock.
LEMMA UnlockInv == ASSUME Inv, NEW p \in Procs, Unlock(p) PROVE Inv'
<1>1. proc[p] \in Working /\ lock = p
  BY DEF Unlock, Inv, TypeInv, At, Idle, Working, Knows, InLock
<1>2. CASE ~proc[p].claimed
  BY <1>1, <1>2, EndedInv DEF Unlock, Finished
<1>3. CASE proc[p].claimed
  <2>1. TypeInv'
    BY <1>1, <1>3 DEF Unlock, Inv, TypeInv, Working, Steps, Goto
  <2>2. ASSUME NEW q \in Procs PROVE Knows(q)'
    BY <1>1, <1>3
       DEF Unlock, Inv, TypeInv, Working, Steps, At, Goto, Knows, InLock, Spent, IsRegistry
  <2>. QED BY <1>3, <2>1, <2>2 DEF Inv, Unlock, ClaimedBeforePublished
<1>. QED BY <1>2, <1>3

\* So does linking a claim or an output into place.
LEMMA LinkInv == ASSUME Inv, NEW p \in Procs, Link(p) PROVE Inv'
<1>1. proc[p] \in Working
  BY DEF Link, Inv, TypeInv, At, Idle, Working
<1>2. TypeInv'
  BY <1>1 DEF Link, Inv, TypeInv, Working, Steps, At, Goto
<1>3. /\ DOMAIN outputs' = DOMAIN outputs \cup {proc[p].a.output}
      /\ \A o \in DOMAIN outputs : outputs'[o] = outputs[o]
      /\ outputs'[proc[p].a.output] = [id |-> proc[p].a.id, version |-> proc[p].read]
  BY DEF Link, Inv, TypeInv
<1>4. ClaimedBeforePublished'
  BY <1>1, <1>3 DEF Link, Inv, ClaimedBeforePublished, Knows, Spent, At, Working, Steps
<1>5. ASSUME NEW q \in Procs PROVE Knows(q)'
  BY <1>1, <1>3
     DEF Link, Inv, TypeInv, Working, Steps, At, Goto, Knows, InLock, Spent, IsRegistry
<1>. QED BY <1>2, <1>4, <1>5 DEF Inv

\* So does a change the environment makes to a source.
LEMMA EnvironmentInv ==
  ASSUME Inv, Elapse \/ (\E s \in Sources : Edit(s)) \/ UNCHANGED vars
  PROVE  Inv'
<1>1. CASE Elapse
  BY <1>1 DEF Elapse, Inv, TypeInv, ClaimedBeforePublished, Knows, Spent, IsRegistry
<1>2. ASSUME NEW s \in Sources, Edit(s) PROVE Inv'
  <2>1. TypeInv'
    BY <1>2 DEF Edit, Inv, TypeInv
  <2>2. ASSUME NEW q \in Procs PROVE Knows(q)'
    BY <1>2, NobodyIsNone, ApprovalsNameSources
       DEF Edit, Inv, TypeInv, Knows, Spent, IsRegistry, Idle, Working, Steps
  <2>. QED BY <1>2, <2>1, <2>2 DEF Inv, Edit, ClaimedBeforePublished
<1>3. CASE UNCHANGED vars
  BY <1>3 DEF vars, Inv, TypeInv, ClaimedBeforePublished, Knows, Spent, IsRegistry
<1>. QED BY <1>1, <1>2, <1>3

\* Every step of the migrations keeps the invariant.
LEMMA NextInv == Inv /\ [Next]_vars => Inv'
<1>. SUFFICES ASSUME Inv, [Next]_vars PROVE Inv'
  OBVIOUS
<1>1. ASSUME NEW p \in Procs, After(p) \/ Refused(p) \/ Crash(p) PROVE Inv'
  BY <1>1, EndedInv DEF After, Refused, Crash, Finished
<1>. QED
  BY <1>1, BeginInv, CopyInv, ConfirmInv, TakeLockInv, LoadInv, ReplaceInv, UnlockInv, LinkInv,
     EnvironmentInv DEF Next

\* The invariant holds in every reachable state.
LEMMA Invariant == Spec => []Inv
BY InitInv, NextInv, PTL DEF Spec

\* A published output was paid for: its approval's claim is in the consumption file
\* before the link appears and is never lost to another process's write
\* (MigrationApprovalConsumptionStore.claim).
THEOREM OutputsAreClaimed == Spec => []ClaimedBeforePublished
<1>1. Inv => ClaimedBeforePublished
  BY DEF Inv
<1>. QED BY <1>1, Invariant, PTL

\* Claims are never taken out of the consumption file (claim's load and replace).
THEOREM ClaimsAreKept == Spec => [][ClaimsStay]_vars
<1>1. Inv /\ [Next]_vars => [ClaimsStay]_vars
  <2>. SUFFICES ASSUME Inv, Next PROVE consumed \subseteq consumed'
    BY DEF ClaimsStay
  <2>1. ASSUME NEW p \in Procs, Replace(p) PROVE consumed \subseteq consumed'
    BY <2>1, ReplaceInv
  <2>. QED
    BY <2>1 DEF Next, Elapse, Edit, Begin, Copy, Confirm, TakeLock, Load, Unlock, Link, After,
                Refused, Crash, Finished
<1>. QED BY <1>1, Invariant, PTL DEF Spec

\* The v2 database that appears holds every event its v1 source has at that moment.  The
\* copy of a registry edited between the last look and the link appears with the older
\* bytes, and its migration is then never reported as done (SchedulerMigrationService.migrate,
\* MigrationService.migrate).
THEOREM MigrationsAreWhole == Spec => CopiesWhole
<1>. DEFINE Whole ==
  /\ \A o \in DOMAIN outputs' \ DOMAIN outputs : \E a \in Approvals :
       /\ a.output = o /\ a.id = outputs'[o].id
       /\ ~IsRegistry(a) => outputs'[o].version = bytes[a.source]
  /\ told' # told /\ told'.verdict = "migrated" => \E a \in Approvals :
       /\ a.id = told'.id
       /\ IsRegistry(a) => outputs[a.output].version = bytes[a.source]
<1>1. Inv /\ [Next]_vars => [Whole]_vars
  <2>. SUFFICES ASSUME Inv, Next PROVE Whole
    OBVIOUS
  <2>1. ASSUME NEW p \in Procs, Link(p) PROVE Whole
    <3>1. proc[p] \in Working
      BY <2>1 DEF Link, Inv, TypeInv, At, Idle, Working
    <3>2. proc[p].a \in Approvals /\ told' = told
      BY <2>1, <3>1 DEF Link, Working
    <3>3. ~IsRegistry(proc[p].a) => proc[p].read = bytes[proc[p].a.source]
      BY <2>1 DEF Link, Inv, Knows, At, Steps
    <3>4. ASSUME NEW o \in DOMAIN outputs' \ DOMAIN outputs
          PROVE  \E a \in Approvals :
                   /\ a.output = o /\ a.id = outputs'[o].id
                   /\ ~IsRegistry(a) => outputs'[o].version = bytes[a.source]
      <4>1. o = proc[p].a.output
        BY <2>1 DEF Link
      <4>2. outputs'[o] = [id |-> proc[p].a.id, version |-> proc[p].read]
        BY <2>1, <4>1 DEF Link
      <4>. QED BY <3>2, <3>3, <4>1, <4>2
    <3>. QED BY <3>2, <3>4
  <2>2. ASSUME NEW p \in Procs, After(p) PROVE Whole
    <3>1. proc[p].a \in Approvals
      BY <2>2 DEF After, Inv, TypeInv, At, Idle, Working
    <3>2. outputs[proc[p].a.output].version = proc[p].read
      BY <2>2 DEF After, Inv, Knows, At
    <3>3. told'.id = proc[p].a.id /\ outputs' = outputs
      BY <2>2 DEF After, Finished
    <3>4. IsRegistry(proc[p].a) /\ told'.verdict = "migrated" =>
            bytes[proc[p].a.source] = proc[p].read
      BY <2>2 DEF After, Finished
    <3>5. ASSUME told'.verdict = "migrated"
          PROVE  \E a \in Approvals :
                   /\ a.id = told'.id
                   /\ IsRegistry(a) => outputs[a.output].version = bytes[a.source]
      BY <3>1, <3>2, <3>3, <3>4, <3>5
    <3>. QED BY <3>3, <3>5
  <2>3. ASSUME NEW p \in Procs, Unlock(p) \/ Refused(p) PROVE Whole
    BY <2>3 DEF Unlock, Refused, Finished
  <2>. QED
    BY <2>1, <2>2, <2>3 DEF Next, Elapse, Edit, Begin, Copy, Confirm, TakeLock, Load, Replace, Crash
<1>. QED BY <1>1, Invariant, PTL DEF Spec, CopiesWhole

-----------------------------------------------------------------------------
\* The tool executor.

\* The worker of an executor: at rest, in the middle of execute with its own
\* variables, or saving the checkpoint that execute returned.
Executing(w) ==
  w = [step |-> w.step, prior |-> w.prior, token |-> w.token, at |-> w.at,
       seen |-> w.seen, ids |-> w.ids]
ExecSteps == {"lock", "read", "write", "unlock", "run"}
SaveSteps == {"save", "backup", "publish"}
WorkerOf(w) ==
  \/ w = Resting
  \/ Executing(w) /\ w.step \in ExecSteps
  \/ w = [step |-> w.step, result |-> w.result] /\ w.step \in SaveSteps

SpentIds == {r.id : r \in spent}
Claiming(w) == w.step \in {"read", "write", "unlock"}
Claimed(w)  == w.step \in {"unlock", "run"}

\* A retry after a sandbox denial has a technical approval the denied attempt had not.
Approved(ids, prior) ==
  prior # Nothing /\ prior.failure = "sandbox" =>
    \E g \in Grants : g.type = "technical_sandbox" /\ g.id \in ids \ prior.ids

\* What an executor knows: it holds the lock file while it claims, what it read is
\* still the file and names none of its approvals, what it claimed stays claimed.
ExecutorKnows(e) ==
  LET w == worker[e]
  IN  /\ WorkerOf(w)
      /\ Claiming(w) => spendLock = e
      /\ w.step = "write" => w.seen = spent /\ w.ids \cap SpentIds = {}
      /\ Claimed(w) => w.ids \subseteq SpentIds
      /\ w.step \in ExecSteps => Approved(w.ids, w.prior)

\* No claimed approval is in two places: two executors about to run, or one of them
\* and a process that was started.
Apart ==
  /\ \A e, f \in Executors : e # f /\ Claimed(worker[e]) /\ Claimed(worker[f]) =>
       worker[e].ids \cap worker[f].ids = {}
  /\ \A i \in DOMAIN ran :
       /\ ran[i].ids \subseteq SpentIds
       /\ \A e \in Executors : Claimed(worker[e]) => ran[i].ids \cap worker[e].ids = {}

ExecInv ==
  /\ worker = [e \in Executors |-> worker[e]]
  /\ \E S : ran \in Seq(S)
  /\ \A e \in Executors : ExecutorKnows(e)
  /\ Apart
  /\ ApprovalsSpentOnce
  /\ SandboxRetryApproved

\* An executor changes its own worker only.
Moves(e) ==
  /\ worker' = [f \in Executors |-> worker'[f]]
  /\ \A f \in Executors \ {e} : worker'[f] = worker[f]

\* Nobody runs anything at first.
LEMMA ExecStarts == ExecInit => ExecInv
<1> SUFFICES ASSUME ExecInit PROVE ExecInv
  OBVIOUS
<1>1. worker = [e \in Executors |-> Resting] /\ ran = <<>> /\ DOMAIN ran = {} /\ ran \in Seq({})
  BY DEF ExecInit
<1>2. \A e \in Executors : ExecutorKnows(e)
  BY <1>1 DEF ExecutorKnows, WorkerOf, Resting, Claiming, Claimed, ExecSteps
<1>3. \A e \in Executors : ~Claimed(worker[e])
  BY <1>1 DEF Claimed, Resting
<1> QED BY <1>1, <1>2, <1>3 DEF ExecInv, Apart, ApprovalsSpentOnce, SandboxRetryApproved

\* A step of one executor that leaves the spent approvals and the started processes,
\* takes no lock of another, and claims nothing, keeps the invariant.
LEMMA QuietKept ==
  ASSUME ExecInv, NEW e \in Executors, Moves(e), ExecutorKnows(e)',
         UNCHANGED <<spent, ran>>,
         spendLock' = spendLock \/ spendLock \in {e, Nothing},
         Nothing \notin Executors,
         Claimed(worker'[e]) => \/ Claimed(worker[e]) /\ worker'[e].ids = worker[e].ids
                                \/ worker'[e].ids = {}
  PROVE  ExecInv'
<1>1. SpentIds' = SpentIds
  BY DEF SpentIds
<1>2. \A f \in Executors : ExecutorKnows(f)'
  <2> TAKE f \in Executors
  <2>1. CASE f = e
    BY <2>1
  <2>2. CASE f # e
    <3>1. worker'[f] = worker[f] /\ ExecutorKnows(f)
      BY <2>2 DEF Moves, ExecInv
    <3>2. Claiming(worker[f]) => spendLock' = f
      BY <2>2, <3>1 DEF ExecutorKnows
    <3> QED BY <1>1, <3>1, <3>2 DEF ExecutorKnows, WorkerOf, Executing, Claiming, Claimed, Approved
  <2> QED BY <2>1, <2>2
<1>3. Apart'
  <2>1. \A f \in Executors : Claimed(worker'[f]) =>
          \/ Claimed(worker[f]) /\ worker'[f].ids = worker[f].ids
          \/ worker'[f].ids = {}
    BY DEF Moves
  <2>2. \A f, g \in Executors : f # g /\ Claimed(worker'[f]) /\ Claimed(worker'[g]) =>
          worker'[f].ids \cap worker'[g].ids = {}
    BY <2>1 DEF ExecInv, Apart
  <2>3. \A i \in DOMAIN ran : \A f \in Executors : Claimed(worker'[f]) =>
          ran[i].ids \cap worker'[f].ids = {}
    BY <2>1 DEF ExecInv, Apart
  <2>4. \A i \in DOMAIN ran : ran[i].ids \subseteq SpentIds
    BY DEF ExecInv, Apart
  <2> QED BY <1>1, <2>2, <2>3, <2>4 DEF Apart, Claimed
<1> QED BY <1>2, <1>3 DEF ExecInv, Moves, ApprovalsSpentOnce, SandboxRetryApproved

\* The checkpoint of a finished call is saved by its executor.
LEMMA EndsSaving ==
  ASSUME NEW e \in Executors, NEW failure, NEW ids, Ends(e, failure, ids),
         worker = [f \in Executors |-> worker[f]]
  PROVE  Moves(e) /\ WorkerOf(worker'[e]) /\ worker'[e].step = "save"
BY DEF Ends, Saving, Moves, WorkerOf, SaveSteps

\* What the policy permits is approved: for a sandbox retry exactly one technical
\* approval is applied, and the denied attempt did not spend it.
LEMMA PermittedApproves ==
  ASSUME ToolBounds, NEW offered \in Offers, NEW prior, NEW at, Permitted(offered, prior, at)
  PROVE  Approved(Applied(offered, prior), prior)
<1> SUFFICES ASSUME prior # Nothing, prior.failure = "sandbox"
             PROVE  \E g \in Grants : /\ g.type = "technical_sandbox"
                                      /\ g.id \in Applied(offered, prior) \ prior.ids
  BY DEF Approved
<1>1. "technical_sandbox" \in Needed(prior)
  BY DEF Needed, Additional
<1> DEFINE exact == {g \in offered : g.type = "technical_sandbox" /\ Matches(g)}
<1>2. Cardinality(exact) = 1 /\ \A g \in exact : g.id \notin prior.ids
  BY <1>1 DEF Permitted, SpentBy
<1>3. PICK g : g \in exact
  <2>1. exact # {}
    BY <1>2, FS_EmptySet
  <2> QED BY <2>1
<1>4. g \in Grants
  BY <1>3 DEF ToolBounds
<1>5. g.id \in Applied(offered, prior)
  BY <1>1, <1>3 DEF Applied
<1> QED BY <1>2, <1>3, <1>4, <1>5

\* Beginning a call keeps the invariant.
LEMMA StartKept ==
  ASSUME ToolBounds, ExecInv, NEW e \in Executors, NEW prior, NEW token, NEW offered \in Offers,
         Start(e, prior, token, offered)
  PROVE  ExecInv'
<1> DEFINE ids == Applied(offered, prior)
           begun == [step |-> IF ids = {} THEN "run" ELSE "lock", prior |-> prior,
                     token |-> token, at |-> clock, seen |-> {}, ids |-> ids]
<1>1. /\ worker = [f \in Executors |-> worker[f]]
      /\ UNCHANGED <<spent, spendLock, ran>> /\ worker[e].step = "idle"
  BY DEF ExecInv, Start, In
<1>2. \/ Permitted(offered, prior, clock) /\ worker' = [worker EXCEPT ![e] = begun]
      \/ \E failure : worker' = [worker EXCEPT ![e] = Saving(prior, token, failure, {})]
  BY DEF Start
<1>3. CASE Permitted(offered, prior, clock) /\ worker' = [worker EXCEPT ![e] = begun]
  <2>1. Moves(e) /\ worker'[e] = begun
    BY <1>1, <1>3 DEF Moves
  <2>2. Approved(ids, prior)
    BY <1>3, PermittedApproves
  <2>3. Claimed(begun) => ids = {}
    BY DEF Claimed
  <2>4. /\ begun.step \in {"run", "lock"} /\ begun.ids = ids /\ begun.prior = prior
        /\ Executing(begun)
    BY DEF Executing
  <2> HIDE DEF begun, ids
  <2>5. ExecutorKnows(e)'
    BY <2>1, <2>2, <2>3, <2>4 DEF ExecutorKnows, WorkerOf, Executing, ExecSteps, Claiming, Claimed,
       Approved
  <2> QED BY <1>1, <2>1, <2>3, <2>4, <2>5, QuietKept DEF ToolBounds
<1>4. CASE \E failure : worker' = [worker EXCEPT ![e] = Saving(prior, token, failure, {})]
  <2>1. PICK result : worker' = [worker EXCEPT ![e] = [step |-> "save", result |-> result]]
    BY <1>4 DEF Saving
  <2>2. Moves(e) /\ WorkerOf(worker'[e]) /\ worker'[e].step = "save"
    BY <1>1, <2>1 DEF Moves, WorkerOf, SaveSteps
  <2>3. ExecutorKnows(e)' /\ ~Claimed(worker'[e])
    BY <2>2 DEF ExecutorKnows, WorkerOf, Claiming, Claimed, ExecSteps
  <2> QED BY <1>1, <2>2, <2>3, QuietKept DEF ToolBounds
<1> QED BY <1>2, <1>3, <1>4

\* So does a step that only moves an executor that has claimed nothing on.
LEMMA LockSpendingKept ==
  ASSUME ToolBounds, ExecInv, NEW e \in Executors, LockSpending(e)
  PROVE  ExecInv'
<1>1. worker = [f \in Executors |-> worker[f]] /\ UNCHANGED <<spent, ran>> /\ ExecutorKnows(e)
  BY DEF ExecInv, LockSpending
<1>2. CASE spendLock = Nothing /\ spendLock' = e /\ Move(e, "read")
  <2>1. Executing(worker[e]) /\ worker[e].step = "lock"
    BY <1>1 DEF ExecutorKnows, WorkerOf, Resting, SaveSteps, LockSpending, In
  <2>2. Moves(e) /\ worker'[e] = [worker[e] EXCEPT !.step = "read"]
    BY <1>1, <1>2 DEF Move, Moves
  <2>3. /\ Executing(worker'[e]) /\ worker'[e].step = "read"
        /\ worker'[e].ids = worker[e].ids /\ worker'[e].prior = worker[e].prior
    BY <2>1, <2>2 DEF Executing
  <2>4. ExecutorKnows(e)' /\ ~Claimed(worker'[e])
    BY <1>1, <1>2, <2>1, <2>3
       DEF ExecutorKnows, WorkerOf, Executing, ExecSteps, Claiming, Claimed, Approved
  <2> QED BY <1>1, <1>2, <2>2, <2>4, QuietKept DEF ToolBounds
<1>3. CASE spendLock' = spendLock /\ Ends(e, "refused", {})
  <2>1. Moves(e) /\ WorkerOf(worker'[e]) /\ worker'[e].step = "save"
    BY <1>1, <1>3, EndsSaving
  <2>2. ExecutorKnows(e)' /\ ~Claimed(worker'[e])
    BY <2>1 DEF ExecutorKnows, WorkerOf, Claiming, Claimed, ExecSteps
  <2> QED BY <1>1, <1>3, <2>1, <2>2, QuietKept DEF ToolBounds
<1> QED BY <1>2, <1>3 DEF LockSpending

\* Under the lock the file is read, and holds none of the approvals to be spent.
LEMMA ReadSpentKept ==
  ASSUME ToolBounds, ExecInv, NEW e \in Executors, ReadSpent(e)
  PROVE  ExecInv'
<1>1. /\ worker = [f \in Executors |-> worker[f]]
      /\ UNCHANGED <<spent, spendLock, ran>> /\ ExecutorKnows(e)
  BY DEF ExecInv, ReadSpent
<1>2. Executing(worker[e]) /\ worker[e].step = "read"
  BY <1>1 DEF ExecutorKnows, WorkerOf, Resting, SaveSteps, ReadSpent, In
<1>3. /\ Moves(e)
      /\ worker'[e] = [worker[e] EXCEPT !.step = "write", !.seen = spent]
  BY <1>1 DEF ReadSpent, Moves
<1>4. /\ Executing(worker'[e]) /\ worker'[e].step = "write" /\ worker'[e].seen = spent
      /\ worker'[e].ids = worker[e].ids /\ worker'[e].prior = worker[e].prior
  BY <1>2, <1>3 DEF Executing
<1>5. worker[e].ids \cap SpentIds = {}
  BY DEF ReadSpent, Spendable, SpentIds
<1>6. ExecutorKnows(e)' /\ ~Claimed(worker'[e])
  BY <1>1, <1>2, <1>4, <1>5
     DEF ExecutorKnows, WorkerOf, Executing, ExecSteps, Claiming, Claimed, Approved, SpentIds
<1> QED BY <1>1, <1>3, <1>6, QuietKept DEF ToolBounds

\* The claim: only the holder of the lock writes, so nobody's claim is lost and
\* nobody else has, or ran with, what is claimed now.
LEMMA WriteSpentKept ==
  ASSUME ExecInv, NEW e \in Executors, WriteSpent(e)
  PROVE  ExecInv' /\ spent \subseteq spent'
<1>1. /\ worker = [f \in Executors |-> worker[f]]
      /\ UNCHANGED <<spendLock, ran>> /\ ExecutorKnows(e)
  BY DEF ExecInv, WriteSpent
<1>2. Executing(worker[e]) /\ worker[e].step = "write"
  BY <1>1 DEF ExecutorKnows, WorkerOf, Resting, SaveSteps, WriteSpent, In
<1>3. Moves(e) /\ worker'[e] = [worker[e] EXCEPT !.step = "unlock"]
  BY <1>1 DEF WriteSpent, Move, Moves
<1>4. /\ Executing(worker'[e]) /\ worker'[e].step = "unlock"
      /\ worker'[e].ids = worker[e].ids /\ worker'[e].prior = worker[e].prior
  BY <1>2, <1>3 DEF Executing
<1> DEFINE mine == worker[e].ids
<1>5. spendLock = e /\ mine \cap SpentIds = {} /\ Approved(mine, worker[e].prior)
  BY <1>1, <1>2 DEF ExecutorKnows, Claiming, ExecSteps
<1>6. spent' = spent \cup {[id |-> i, at |-> worker[e].at] : i \in mine}
  BY <1>1, <1>2 DEF WriteSpent, ExecutorKnows
<1>7. SpentIds' = SpentIds \cup mine
  <2>1. \A r \in spent' : r.id \in SpentIds \cup mine
    BY <1>6 DEF SpentIds
  <2>2. ASSUME NEW i \in mine PROVE \E r \in spent' : r.id = i
    <3>1. [id |-> i, at |-> worker[e].at] \in spent'
      BY <1>6
    <3> QED BY <3>1
  <2>3. spent \subseteq spent'
    BY <1>6
  <2> QED BY <2>1, <2>2, <2>3 DEF SpentIds
<1>8. \A f \in Executors : ExecutorKnows(f)'
  <2> TAKE f \in Executors
  <2>1. CASE f = e
    BY <1>1, <1>4, <1>5, <1>7, <2>1
       DEF ExecutorKnows, WorkerOf, Executing, ExecSteps, Claiming, Claimed, Approved
  <2>2. CASE f # e
    <3>1. worker'[f] = worker[f] /\ ExecutorKnows(f)
      BY <1>3, <2>2 DEF Moves, ExecInv
    <3>2. ~Claiming(worker[f])
      BY <1>5, <2>2, <3>1 DEF ExecutorKnows
    <3> QED BY <1>7, <3>1, <3>2
            DEF ExecutorKnows, WorkerOf, Executing, Claiming, Claimed, Approved
  <2> QED BY <2>1, <2>2
<1>9. Apart'
  <2>1. \A f \in Executors \ {e} : worker'[f] = worker[f] /\ (Claimed(worker[f]) =>
          worker[f].ids \subseteq SpentIds)
    BY <1>3 DEF Moves, ExecInv, ExecutorKnows
  <2>2. \A f, g \in Executors : f # g /\ Claimed(worker'[f]) /\ Claimed(worker'[g]) =>
          worker'[f].ids \cap worker'[g].ids = {}
    <3> SUFFICES ASSUME NEW f \in Executors, NEW g \in Executors, f # g,
                        Claimed(worker'[f]), Claimed(worker'[g])
                 PROVE  worker'[f].ids \cap worker'[g].ids = {}
      OBVIOUS
    <3>1. CASE f = e
      BY <1>4, <1>5, <2>1, <3>1
    <3>2. CASE g = e
      BY <1>4, <1>5, <2>1, <3>2
    <3>3. CASE f # e /\ g # e
      BY <2>1, <3>3 DEF ExecInv, Apart
    <3> QED BY <3>1, <3>2, <3>3
  <2>3. \A i \in DOMAIN ran : ran[i].ids \subseteq SpentIds
    BY DEF ExecInv, Apart
  <2>4. ASSUME NEW i \in DOMAIN ran, NEW f \in Executors, Claimed(worker'[f])
        PROVE  ran[i].ids \cap worker'[f].ids = {}
    <3>1. CASE f = e
      BY <1>4, <1>5, <2>3, <3>1
    <3>2. CASE f # e
      BY <2>1, <2>4, <3>2 DEF ExecInv, Apart
    <3> QED BY <3>1, <3>2
  <2> QED BY <1>1, <1>7, <2>2, <2>3, <2>4 DEF Apart, Claimed
<1> QED BY <1>1, <1>3, <1>6, <1>8, <1>9
        DEF ExecInv, Moves, ApprovalsSpentOnce, SandboxRetryApproved

\* Releasing the lock, with the claim made or refused.
LEMMA UnlockSpendingKept ==
  ASSUME ToolBounds, ExecInv, NEW e \in Executors, UnlockSpending(e)
  PROVE  ExecInv'
<1>1. /\ worker = [f \in Executors |-> worker[f]] /\ UNCHANGED <<spent, ran>> /\ ExecutorKnows(e)
      /\ spendLock' = spendLock \/ spendLock \in {e, Nothing}
  BY DEF ExecInv, UnlockSpending
<1>2. CASE In(e, "unlock") /\ Move(e, "run")
  <2>1. Executing(worker[e]) /\ worker[e].step = "unlock"
    BY <1>1, <1>2 DEF ExecutorKnows, WorkerOf, Resting, SaveSteps, In
  <2>2. Moves(e) /\ worker'[e] = [worker[e] EXCEPT !.step = "run"]
    BY <1>1, <1>2 DEF Move, Moves
  <2>3. /\ Executing(worker'[e]) /\ worker'[e].step = "run"
        /\ worker'[e].ids = worker[e].ids /\ worker'[e].prior = worker[e].prior
    BY <2>1, <2>2 DEF Executing
  <2>4. ExecutorKnows(e)' /\ Claimed(worker[e])
    BY <1>1, <2>1, <2>3
       DEF ExecutorKnows, WorkerOf, Executing, ExecSteps, Claiming, Claimed, Approved, SpentIds
  <2> QED BY <1>1, <2>2, <2>3, <2>4, QuietKept DEF ToolBounds
<1>3. CASE Ends(e, "refused", {})
  <2>1. Moves(e) /\ WorkerOf(worker'[e]) /\ worker'[e].step = "save"
    BY <1>1, <1>3, EndsSaving
  <2>2. ExecutorKnows(e)' /\ ~Claimed(worker'[e])
    BY <2>1 DEF ExecutorKnows, WorkerOf, Claiming, Claimed, ExecSteps
  <2> QED BY <1>1, <2>1, <2>2, QuietKept DEF ToolBounds
<1> QED BY <1>2, <1>3 DEF UnlockSpending

\* A started process takes the executor's approvals over, and nobody else has them.
LEMMA RunKept ==
  ASSUME ExecInv, NEW e \in Executors, Run(e)
  PROVE  ExecInv'
<1> DEFINE new == [ids |-> worker[e].ids, after |-> worker[e].prior]
<1>1. /\ worker = [f \in Executors |-> worker[f]]
      /\ UNCHANGED <<spent, spendLock>> /\ ExecutorKnows(e)
      /\ worker[e].step = "run" /\ ran' = Append(ran, new)
  BY DEF ExecInv, Run, In
<1>2. Moves(e) /\ WorkerOf(worker'[e]) /\ worker'[e].step = "save"
  <2>1. PICK failure : Ends(e, failure, worker[e].ids)
    BY DEF Run
  <2> QED BY <1>1, <2>1, EndsSaving
<1>3. SpentIds' = SpentIds /\ ~Claimed(worker'[e]) /\ Claimed(worker[e])
  BY <1>1, <1>2 DEF SpentIds, Claimed
<1>4. new.ids \subseteq SpentIds /\ Approved(new.ids, new.after)
  BY <1>1, <1>3 DEF ExecutorKnows, ExecSteps
<1>5. PICK S : ran \in Seq(S)
  BY DEF ExecInv
<1>6. /\ ran' \in Seq(S \cup {new}) /\ DOMAIN ran' = 1 .. Len(ran) + 1
      /\ DOMAIN ran = 1 .. Len(ran) /\ Len(ran) \in Nat
      /\ ran'[Len(ran) + 1] = new /\ \A i \in DOMAIN ran : ran'[i] = ran[i]
  <2>1. ran \in Seq(S \cup {new})
    BY <1>5
  <2> HIDE DEF new
  <2> QED BY <1>1, <2>1
<1> HIDE DEF new
<1>7. \A f \in Executors : ExecutorKnows(f)'
  <2> TAKE f \in Executors
  <2>1. CASE f = e
    BY <1>2, <1>3, <2>1 DEF ExecutorKnows, WorkerOf, Claiming, Claimed, ExecSteps
  <2>2. CASE f # e
    <3>1. worker'[f] = worker[f] /\ ExecutorKnows(f)
      BY <1>2, <2>2 DEF Moves, ExecInv
    <3> QED BY <1>1, <1>3, <3>1 DEF ExecutorKnows, WorkerOf, Executing, Claiming, Claimed, Approved
  <2> QED BY <2>1, <2>2
<1>8. \A f \in Executors : Claimed(worker'[f]) =>
        f # e /\ worker'[f] = worker[f] /\ Claimed(worker[f])
  BY <1>2, <1>3 DEF Moves
<1>9. Apart'
  <2>1. \A f, g \in Executors : f # g /\ Claimed(worker'[f]) /\ Claimed(worker'[g]) =>
          worker'[f].ids \cap worker'[g].ids = {}
    BY <1>8 DEF ExecInv, Apart
  <2>2. ASSUME NEW i \in DOMAIN ran'
        PROVE  /\ ran'[i].ids \subseteq SpentIds
               /\ \A f \in Executors : Claimed(worker'[f]) => ran'[i].ids \cap worker'[f].ids = {}
    <3>1. CASE i \in DOMAIN ran
      BY <1>6, <1>8, <3>1 DEF ExecInv, Apart
    <3>2. CASE i = Len(ran) + 1
      <4>1. ran'[i].ids = worker[e].ids
        BY <1>6, <3>2 DEF new
      <4> QED BY <1>3, <1>4, <1>6, <1>8, <3>2, <4>1 DEF ExecInv, Apart
    <3> QED BY <1>6, <3>1, <3>2
  <2> QED BY <1>3, <2>1, <2>2 DEF Apart, Claimed
<1>10. ApprovalsSpentOnce'
  <2> SUFFICES ASSUME NEW i \in DOMAIN ran', NEW j \in DOMAIN ran', i # j
               PROVE  ran'[i].ids \cap ran'[j].ids = {}
    BY DEF ApprovalsSpentOnce
  <2>1. \A k \in DOMAIN ran : ran[k].ids \cap new.ids = {}
    BY <1>3 DEF ExecInv, Apart, new
  <2>2. CASE i \in DOMAIN ran /\ j \in DOMAIN ran
    BY <1>6, <2>2 DEF ExecInv, ApprovalsSpentOnce
  <2>3. CASE i = Len(ran) + 1 /\ j \in DOMAIN ran
    BY <1>6, <2>1, <2>3
  <2>4. CASE j = Len(ran) + 1 /\ i \in DOMAIN ran
    BY <1>6, <2>1, <2>4
  <2> QED BY <1>6, <2>2, <2>3, <2>4
<1>11. SandboxRetryApproved'
  <2> SUFFICES ASSUME NEW i \in DOMAIN ran'
               PROVE  Approved(ran'[i].ids, ran'[i].after)
    BY DEF SandboxRetryApproved, Approved
  <2>1. CASE i \in DOMAIN ran
    BY <1>6, <2>1 DEF ExecInv, SandboxRetryApproved, Approved
  <2>2. CASE i = Len(ran) + 1
    BY <1>4, <1>6, <2>2
  <2> QED BY <1>6, <2>1, <2>2
<1> QED BY <1>2, <1>6, <1>7, <1>9, <1>10, <1>11 DEF ExecInv, Moves

\* Saving the checkpoint spends nothing and starts nothing.
LEMMA SaveKept ==
  ASSUME ToolBounds, ExecInv, NEW e \in Executors,
         CopyPublished(e) \/ ReplaceBackup(e) \/ ReplacePrimary(e)
  PROVE  ExecInv'
<1>1. /\ worker = [f \in Executors |-> worker[f]]
      /\ UNCHANGED <<spent, spendLock, ran>> /\ ExecutorKnows(e) /\ worker[e].step \in SaveSteps
  BY DEF ExecInv, CopyPublished, ReplaceBackup, ReplacePrimary, In, SaveSteps
<1>2. PICK w : worker' = [worker EXCEPT ![e] = w] /\ WorkerOf(w) /\ w.step \in SaveSteps \cup {"idle"}
  <2>1. worker[e] = [step |-> worker[e].step, result |-> worker[e].result]
    BY <1>1 DEF ExecutorKnows, WorkerOf, Resting, ExecSteps, SaveSteps
  <2>2. \A step \in SaveSteps : /\ WorkerOf([worker[e] EXCEPT !.step = step])
                                /\ [worker[e] EXCEPT !.step = step].step = step
    BY <2>1 DEF WorkerOf
  <2>3. WorkerOf(Resting) /\ Resting.step = "idle"
    BY DEF WorkerOf, Resting
  <2>4. \/ worker' = [worker EXCEPT ![e] = Resting]
        \/ \E step \in SaveSteps : worker' = [worker EXCEPT ![e].step = step]
    BY DEF CopyPublished, ReplaceBackup, ReplacePrimary, Move, SaveSteps
  <2> DEFINE Next1(w) == worker' = [worker EXCEPT ![e] = w] /\ WorkerOf(w)
                         /\ w.step \in SaveSteps \cup {"idle"}
  <2>5. CASE worker' = [worker EXCEPT ![e] = Resting]
    <3>1. Next1(Resting)
      BY <2>3, <2>5
    <3> QED BY <3>1
  <2>6. ASSUME NEW step \in SaveSteps, worker' = [worker EXCEPT ![e].step = step]
        PROVE  \E w : Next1(w)
    <3>1. worker' = [worker EXCEPT ![e] = [worker[e] EXCEPT !.step = step]]
      BY <2>6
    <3>2. Next1([worker[e] EXCEPT !.step = step])
      BY <2>2, <3>1
    <3> QED BY <3>2
  <2> QED BY <2>4, <2>5, <2>6
<1>3. Moves(e) /\ worker'[e] = w
  BY <1>1, <1>2 DEF Moves
<1>4. ExecutorKnows(e)' /\ ~Claimed(worker'[e])
  BY <1>2, <1>3 DEF ExecutorKnows, WorkerOf, Claiming, Claimed, ExecSteps, SaveSteps
<1> QED BY <1>1, <1>3, <1>4, QuietKept DEF ToolBounds

\* A death leaves the lock file to nobody: what was claimed is lost, not spent again.
LEMMA DieKept ==
  ASSUME ToolBounds, ExecInv, NEW e \in Executors, Die(e)
  PROVE  ExecInv'
<1>1. /\ worker = [f \in Executors |-> worker[f]] /\ UNCHANGED <<spent, ran>>
      /\ spendLock' = spendLock \/ spendLock \in {e, Nothing}
      /\ worker' = [worker EXCEPT ![e] = Resting]
  BY DEF ExecInv, Die
<1>2. Moves(e) /\ worker'[e] = Resting
  BY <1>1 DEF Moves
<1>3. ExecutorKnows(e)' /\ ~Claimed(worker'[e])
  BY <1>2 DEF ExecutorKnows, WorkerOf, Resting, Claiming, Claimed, ExecSteps
<1> QED BY <1>1, <1>2, <1>3, QuietKept DEF ToolBounds

\* Where none of the claims, the workers, the lock and the processes moves, nothing changes.
LEMMA ElsewhereKept ==
  ASSUME ExecInv, UNCHANGED <<spent, spendLock, worker, ran>>
  PROVE  ExecInv'
BY DEF ExecInv, ExecutorKnows, WorkerOf, Executing, Claiming, Claimed, SpentIds, Apart, Approved,
   ApprovalsSpentOnce, SandboxRetryApproved

\* Every step of execute and of the save after it keeps the invariant and every claim.
LEMMA ExecKept ==
  ASSUME ToolBounds, ExecInv, [ExecNext]_execVars
  PROVE  ExecInv' /\ spent \subseteq spent'
<1>1. CASE Pass \/ UNCHANGED execVars
  BY <1>1, ElsewhereKept DEF Pass, execVars
<1>2. ASSUME NEW e \in Executors, NEW prior, NEW token, NEW offered \in Offers,
             Start(e, prior, token, offered)
      PROVE  ExecInv' /\ spent \subseteq spent'
  BY <1>2, StartKept DEF Start
<1>3. ASSUME NEW e \in Executors,
             LockSpending(e) \/ ReadSpent(e) \/ WriteSpent(e) \/ UnlockSpending(e) \/ Run(e)
      PROVE  ExecInv' /\ spent \subseteq spent'
  BY <1>3, LockSpendingKept, ReadSpentKept, WriteSpentKept, UnlockSpendingKept, RunKept
     DEF LockSpending, ReadSpent, UnlockSpending, Run
<1>4. ASSUME NEW e \in Executors,
             CopyPublished(e) \/ ReplaceBackup(e) \/ ReplacePrimary(e) \/ Die(e)
      PROVE  ExecInv' /\ spent \subseteq spent'
  BY <1>4, SaveKept, DieKept DEF CopyPublished, ReplaceBackup, ReplacePrimary, Die
<1> QED BY <1>1, <1>2, <1>3, <1>4 DEF ExecNext

\* The inductive invariant of tool execution, for any executors, approvals and offers.
THEOREM ExecutionInvariant == ASSUME ToolBounds PROVE ExecSpec => []ExecInv
<1>1. ExecInit => ExecInv
  BY ExecStarts
<1>2. ExecInv /\ [ExecNext]_execVars => ExecInv'
  BY ExecKept
<1> QED BY <1>1, <1>2, PTL DEF ExecSpec

\* One approval starts one process at most, whatever executors race for it, die between
\* claim and run, or retry from a checkpoint (claim before run, max_executions = 1).
THEOREM ApprovalsPayOnce == ASSUME ToolBounds PROVE ExecSpec => []ApprovalsSpentOnce
<1>1. ExecInv => ApprovalsSpentOnce
  BY DEF ExecInv
<1> QED BY <1>1, ExecutionInvariant, PTL

\* A retry after a sandbox denial runs under a technical approval that the denied
\* attempt did not have.
THEOREM SandboxRetriesApproved == ASSUME ToolBounds PROVE ExecSpec => []SandboxRetryApproved
<1>1. ExecInv => SandboxRetryApproved
  BY DEF ExecInv
<1> QED BY <1>1, ExecutionInvariant, PTL

\* The same for all that execute starts: a process has approvals that no other
\* process had, and one more than the attempt the sandbox denied.
THEOREM ExecutionsAreApproved == ASSUME ToolBounds PROVE ExecSpec => []ExecutionsApproved
BY ApprovalsPayOnce, SandboxRetriesApproved, PTL DEF ExecutionsApproved

\* A spent approval stays spent: the writer under the lock has read every claim there is.
THEOREM SpendingStays == ASSUME ToolBounds PROVE ExecSpec => [][spent \subseteq spent']_execVars
<1>1. ExecInv /\ [ExecNext]_execVars => [spent \subseteq spent']_execVars
  BY ExecKept
<1> QED BY <1>1, ExecutionInvariant, PTL DEF ExecSpec

-----------------------------------------------------------------------------
\* Plans and their roles.

\* A plan's widest wave is a number.
LEMMA WidestIs ==
  ASSUME NEW waves, IsFiniteSet(DOMAIN waves), DOMAIN waves # {}
  PROVE  Widest(waves) \in Nat
<1> DEFINE width(n) == Cardinality({r \in DOMAIN waves : waves[r] = n})
           widths == {width(n) : n \in {waves[r] : r \in DOMAIN waves}}
           N == Cardinality(DOMAIN waves)
<1>1. N \in Nat
  BY FS_CardinalityType
<1>2. ASSUME NEW n PROVE width(n) \in 0 .. N
  <2> DEFINE R == {r \in DOMAIN waves : waves[r] = n}
  <2>1. IsFiniteSet(R) /\ Cardinality(R) <= N
    BY FS_Subset, R \subseteq DOMAIN waves
  <2>2. Cardinality(R) \in Nat
    BY <2>1, FS_CardinalityType
  <2> QED BY <1>1, <2>1, <2>2
<1> HIDE DEF width, N
<1>3. widths \in SUBSET (0 .. N) /\ widths # {}
  BY <1>2
<1>4. widths \subseteq Nat
  BY <1>1, <1>2
<1> USE DEF width
<1>5. Widest(waves) = CHOOSE w \in widths : \A v \in widths : v <= w
  BY DEF Widest
<1> HIDE DEF widths
<1>6. \E w \in widths : \A v \in widths : v <= w
  BY <1>1, <1>3, LargestNumber
<1>7. Widest(waves) \in widths
  BY <1>5, <1>6
<1> QED BY <1>4, <1>7

\* The first of some roles is one of them.
LEMMA FirstIs ==
  ASSUME OrchestrationBounds, NEW S \in SUBSET Roles, S # {}
  PROVE  FirstOf(S) \in S
<1> DEFINE place(r) == CHOOSE i \in DOMAIN RoleOrder : RoleOrder[i] = r
           places == {place(r) : r \in S}
<1>1. ASSUME NEW r \in S PROVE place(r) \in Nat
  <2>1. \E i \in DOMAIN RoleOrder : RoleOrder[i] = r
    BY DEF OrchestrationBounds, Roles
  <2>2. DOMAIN RoleOrder \subseteq Nat
    BY DEF OrchestrationBounds
  <2> QED BY <2>1, <2>2
<1>2. places \subseteq Nat /\ places # {}
  BY <1>1
<1> HIDE DEF places
<1>3. PICK x \in places : \A y \in places : x <= y
  BY <1>2, LeastNumber
<1> USE DEF places
<1>4. PICK r \in S : x = place(r)
  BY <1>3
<1>5. \A s \in S : place(r) <= place(s)
  <2> TAKE s \in S
  <2>1. place(s) \in places /\ place(s) \in Nat /\ place(r) \in Nat
    BY <1>1
  <2> HIDE DEF place, places
  <2> QED BY <1>3, <1>4, <2>1
<1>6. FirstOf(S) = CHOOSE q \in S : \A s \in S : place(q) <= place(s)
  BY DEF FirstOf
<1> HIDE DEF place
<1> QED BY <1>4, <1>5, <1>6

\* There are finitely many roles.
LEMMA RolesFinite == ASSUME OrchestrationBounds PROVE IsFiniteSet(Roles)
<1>1. IsFiniteSet(1 .. Len(RoleOrder))
  BY FS_Interval DEF OrchestrationBounds
<1>2. DOMAIN RoleOrder = 1 .. Len(RoleOrder)
  BY DEF OrchestrationBounds
<1>3. Roles = {RoleOrder[i] : i \in DOMAIN RoleOrder}
  BY DEF OrchestrationBounds, Roles
<1>4. RoleOrder \in Surjection(DOMAIN RoleOrder, Roles)
  BY <1>3 DEF OrchestrationBounds, Surjection, Roles
<1> QED BY <1>1, <1>2, <1>4, FS_Surjection

\* What is selected are roles of the registry, and the one chosen or asked for is among them.
LEMMA SelectedRoles ==
  ASSUME OrchestrationBounds, NEW req, NEW worktrees, SelectionHolds(req, worktrees)
  PROVE  /\ Selected(req, worktrees) \subseteq Roles
         /\ Selected(req, worktrees) # {}
         /\ IsFiniteSet(Selected(req, worktrees))
<1> DEFINE eligible == {r \in Roles : Eligible(r, req)}
<1>1. eligible \subseteq Roles
  OBVIOUS
<1>2. Chosen(req) \subseteq Roles
  <2>1. CASE req.roles # {}
    BY <2>1 DEF Chosen
  <2>2. CASE req.roles = {}
    <3> DEFINE pool == IF req.problem = "review" THEN Reviewers(eligible)
                       ELSE eligible \ Reviewers(eligible)
    <3>1. pool \in SUBSET Roles
      BY DEF Reviewers
    <3>2. Chosen(req) = IF pool = {} THEN {} ELSE {FirstOf(pool)}
      BY <2>2 DEF Chosen
    <3> HIDE DEF pool
    <3> QED BY <3>1, <3>2, FirstIs
  <2> QED BY <2>1, <2>2
<1>3. AddedReviewer(req) \subseteq Roles
  <2>1. Reviewers(eligible) \in SUBSET Roles
    BY DEF Reviewers
  <2>2. AddedReviewer(req) = {} \/
          (Reviewers(eligible) # {} /\ AddedReviewer(req) = {FirstOf(Reviewers(eligible))})
    BY DEF AddedReviewer
  <2> HIDE DEF eligible
  <2> QED BY <2>1, <2>2, FirstIs
<1>4. TreeRoles(req, worktrees) \subseteq Roles
  BY DEF SelectionHolds, TreeRoles
<1>5. Chosen(req) # {}
  BY DEF SelectionHolds
<1>6. Selected(req, worktrees) \subseteq Roles
  BY <1>2, <1>3, <1>4 DEF Selected
<1> QED BY <1>5, <1>6, RolesFinite, FS_Subset DEF Selected

\* The request was accepted, its worktree plan is none or was loaded, and a plan is the
\* one the planner makes of them.
OrchestrationInv ==
  /\ RequestLoads(request.work)
  /\ request.tree = NoTreePlan \/ (request.tree \in TreePlans /\ TreePlanLoads(request.tree))
  /\ IsPlanned => /\ MayPlan(request.work, request.tree)
                  /\ planned = PlanOf(request.work, request.tree)

\* The invariant holds throughout.
LEMMA OrchestrationInvariant == OrchestrationSpec => []OrchestrationInv
<1>1. OrchestrationInit => OrchestrationInv
  BY DEF OrchestrationInit, OrchestrationInv, IsPlanned
<1>2. OrchestrationInv /\ [OrchestrationNext]_orchestrationVars => OrchestrationInv'
  <2> SUFFICES ASSUME OrchestrationInv, [OrchestrationNext]_orchestrationVars
               PROVE  OrchestrationInv'
    OBVIOUS
  <2>1. CASE Plan
    BY <2>1 DEF Plan, OrchestrationInv, IsPlanned
  <2>2. CASE Resolve \/ UNCHANGED orchestrationVars
    BY <2>2 DEF Resolve, orchestrationVars, OrchestrationInv, IsPlanned
  <2> QED BY <2>1, <2>2 DEF OrchestrationNext
<1> QED BY <1>1, <1>2, PTL DEF OrchestrationSpec

\* Work that needs a review has a reviewer in a later wave than everyone who is not one; of work
\* in parallel worktrees, the integrator comes after every owner who is not a reviewer and before
\* every reviewer; and no more agents run at once than the request allows
\* (AgentOrchestrator.plan, _assignment_wave).
THEOREM ReviewersComeLast == ASSUME OrchestrationBounds PROVE OrchestrationSpec => []ReviewedLast
<1>1. OrchestrationInv => ReviewedLast
  <2> SUFFICES ASSUME OrchestrationInv, IsPlanned PROVE ReviewedLast
    BY DEF ReviewedLast
  <2> DEFINE req == request.work
             worktrees == request.tree
             w == planned.waves
  <2>1. MayPlan(req, worktrees) /\ planned = PlanOf(req, worktrees) /\ SelectionHolds(req, worktrees)
    BY DEF OrchestrationInv, MayPlan
  <2>2. w = [r \in Selected(req, worktrees) |-> Wave(r, req, worktrees)]
    BY <2>1 DEF PlanOf
  <2>3. ASSUME NeedsReviewer(req), req.problem # "review"
        PROVE  \E v \in Reviewers(DOMAIN w) : \A r \in DOMAIN w \ Reviewers(DOMAIN w) : w[r] < w[v]
    <3>1. PICK v : v \in Reviewers(Chosen(req) \cup AddedReviewer(req))
      BY <2>1, <2>3 DEF SelectionHolds
    <3>2. v \in Reviewers(DOMAIN w) /\ Registry[v].review
      BY <2>2, <3>1 DEF Reviewers, Selected
    <3>3. ASSUME NEW r \in DOMAIN w \ Reviewers(DOMAIN w) PROVE w[r] < w[v]
      <4>1. ~Registry[r].review /\ r \in Selected(req, worktrees) /\ v \in Selected(req, worktrees)
        BY <2>2, <3>2, <3>3 DEF Reviewers
      <4>2. Wave(r, req, worktrees) < Wave(v, req, worktrees)
        BY <2>3, <3>2, <4>1 DEF Wave
      <4> QED BY <2>2, <4>1, <4>2
    <3> QED BY <3>2, <3>3
  <2>4. ASSUME req.parallelism = "write_parallel", req.problem # "review"
        PROVE  /\ \A r \in (DOMAIN w \ Reviewers(DOMAIN w)) \cap DOMAIN planned.tree.owns :
                    w[r] < w[planned.tree.integrator]
               /\ \A v \in Reviewers(DOMAIN w) : w[planned.tree.integrator] < w[v]
    <3> DEFINE integrator == worktrees.integrator
    <3>1. planned.tree = worktrees
      BY <2>1 DEF PlanOf
    <3>2. worktrees # NoTreePlan /\ TreePlanLoads(worktrees)
      BY <2>1, <2>4 DEF SelectionHolds, OrchestrationInv
    <3>3. integrator \notin DOMAIN worktrees.owns
      BY <3>2 DEF TreePlanLoads, OwnershipHolds
    <3>4. integrator \in DOMAIN w /\ ~Registry[integrator].review
      BY <2>1, <2>2, <2>4 DEF MayPlan, ParallelismHolds, Selected, TreeRoles
    <3>5. w[integrator] = 2
      BY <2>2, <2>4, <3>4 DEF Wave
    <3>6. ASSUME NEW r \in (DOMAIN w \ Reviewers(DOMAIN w)) \cap DOMAIN worktrees.owns
          PROVE  w[r] = 1
      <4>1. r # integrator /\ ~Registry[r].review
        BY <3>3, <3>6 DEF Reviewers
      <4> QED BY <2>2, <2>4, <3>6, <4>1 DEF Wave
    <3>7. ASSUME NEW v \in Reviewers(DOMAIN w) PROVE w[v] = 3
      BY <2>2, <2>4, <3>7 DEF Wave, Reviewers
    <3> QED BY <3>1, <3>5, <3>6, <3>7
  <2>5. planned.concurrency <= req.concurrency
    <3>1. Widest(w) \in Nat
      BY <2>1, <2>2, SelectedRoles, WidestIs
    <3>2. req.concurrency \in Nat /\ 1 <= req.concurrency
      BY DEF OrchestrationInv, RequestLoads
    <3>3. planned.concurrency = IF Mode(req) = "sequential" THEN 1 ELSE Lesser(req.concurrency, Widest(w))
      BY <2>1, <2>2 DEF PlanOf
    <3> HIDE DEF w
    <3> QED BY <3>1, <3>2, <3>3 DEF Lesser
  <2> QED BY <2>3, <2>4, <2>5 DEF ReviewedLast
<1> QED BY <1>1, OrchestrationInvariant, PTL

-----------------------------------------------------------------------------
\* The evidence ledger, the gates and local readiness.

\* The diff review of a ledger is never a test: it is its SOURCE_REVIEW.
LedgerSound(l) ==
  /\ l = [at |-> l.at, claims |-> l.claims, evidence |-> l.evidence]
  /\ DiffReview \in DOMAIN l.evidence /\ l.evidence[DiffReview].type = "SOURCE_REVIEW"

\* A writer that passed the lock file holds it, and the ledger it read is still there.
WriterKnows(w) ==
  adders[w].stage = "locked" =>
    lockOwner = w /\ ledger # <<>> /\ adders[w].ledger = ledger[1]

\* What G4 passed was installed when the gates ran.
TrialKnown ==
  \A at : results["G4"] = <<[at |-> at, passed |-> TRUE]>> => trial = <<at>>

AssuranceInv ==
  /\ ledger = <<>> \/ (ledger = <<ledger[1]>> /\ LedgerSound(ledger[1]))
  /\ assessed # <<>> => \A f \in assessed[1].findings : f.severity \in Severities
  /\ adders = [w \in Writers |-> adders[w]]
  /\ \A w \in Writers : WriterKnows(w)
  /\ TrialKnown
  /\ ReadyIsProved

\* At first there is no ledger, no review and no artifact.
LEMMA AssuranceStarts == AssuranceInit => AssuranceInv
BY DEF AssuranceInit, AssuranceInv, WriterKnows, TrialKnown, ReadyIsProved, NotAdding, Gates

\* What the local gate accepts is proved: its verified claims have conformance evidence
\* beside the diff review and their tests, its review has nothing open or accepted, and
\* G4 passed for what was installed.
LEMMA AcceptedIsProved ==
  ASSUME NEW l, NEW r, NEW look, LocalReady(l, r, look), LedgerSound(l),
         \A f \in r.findings : f.severity \in Severities, TrialKnown
  PROVE  ProvedReady([at |-> Candidate(look), passed |-> TRUE, ledger |-> l, review |-> r,
                      trial |-> trial])
<1> DEFINE here == Candidate(look)
<1>1. /\ G2(l, here) /\ G3(r, here, {}) /\ r.at = here /\ Recorded("G4", here)
  BY DEF LocalReady, Gates
<1> HIDE DEF here
<1>2. ASSUME NEW c \in CriteriaOf(Must)
      PROVE  \E k \in DOMAIN l.claims :
               LET proof == {e \in EvidenceAt(l, k) \ {DiffReview} :
                               l.evidence[e].status = "PASS" /\ l.evidence[e].at = here}
               IN  /\ c \in l.claims[k].criteria /\ l.claims[k].state = "verified"
                   /\ \E e \in proof : l.evidence[e].type \in Conformance
                   /\ c \in Baseline.tested => \E e \in proof : l.evidence[e].type = "TEST"
  <2>1. PICK k \in MustClaims(l) : c \in l.claims[k].criteria
    BY <1>1 DEF G2
  <2>2. k \in DOMAIN l.claims /\ l.claims[k].state = "verified" /\ Consistent(l, k)
    BY <1>1, <2>1 DEF G2, MustClaims
  <2>3. \A e \in EvidenceAt(l, k) : e \in DOMAIN l.evidence /\ l.evidence[e].at = here
    BY <1>1 DEF G2, EvidenceAt
  <2>4. /\ \A e \in EvidenceAt(l, k) : l.evidence[e].status = "PASS"
        /\ \E e \in EvidenceAt(l, k) \ {DiffReview} : l.evidence[e].type \in Conformance
    BY <2>2 DEF Consistent
  <2>5. c \in Baseline.tested =>
          \E e \in EvidenceAt(l, k) \ {DiffReview} : l.evidence[e].type = "TEST"
    BY <1>1, <2>1, <2>2 DEF G2, Tests, LedgerSound
  <2> QED BY <2>1, <2>2, <2>3, <2>4, <2>5
<1>3. \A f \in r.findings : f.severity # "low" => f.status = "resolved"
  BY <1>1 DEF G3, Severities
<1>4. trial = <<here>>
  BY <1>1 DEF Recorded, TrialKnown
<1> QED BY <1>1, <1>2, <1>3, <1>4 DEF ProvedReady, here

\* What was judged and what the gates recorded stays as good as it was while neither changes.
LEMMA JudgedStays ==
  ASSUME TrialKnown, ReadyIsProved, UNCHANGED <<results, ready, trial>>
  PROVE  TrialKnown' /\ ReadyIsProved'
BY DEF TrialKnown, ReadyIsProved, ProvedReady

\* A step that writes neither the ledger nor its lock file nor the review keeps the invariant.
LEMMA ElsewhereKeeps ==
  ASSUME AssuranceInv,
         UNCHANGED <<ledger, assessed, adders, lockOwner, results, ready, trial>>
  PROVE  AssuranceInv' /\ EvidenceStays
<1>1. \A w \in Writers : WriterKnows(w)'
  BY DEF AssuranceInv, WriterKnows
<1>2. TrialKnown' /\ ReadyIsProved'
  BY JudgedStays DEF AssuranceInv
<1> QED BY <1>1, <1>2 DEF AssuranceInv, EvidenceStays, LedgerSound

\* Authors change no ledger under a writer's lock and none of the results.
LEMMA AuthorsKeep ==
  ASSUME AssuranceBounds, AssuranceInv, EditFiles \/ Commit \/ WriteLedger \/ Review \/ Observe
  PROVE  AssuranceInv' /\ EvidenceStays
<1>1. CASE EditFiles \/ Commit \/ Observe
  BY <1>1, ElsewhereKeeps DEF EditFiles, Commit, Observe
<1>2. CASE Review
  <2>1. PICK r \in Reviews : assessed'[1].findings = r.findings
    BY <1>2 DEF Review
  <2>2. \A f \in assessed'[1].findings : f.severity \in Severities
    BY <2>1 DEF AssuranceBounds
  <2>3. UNCHANGED <<ledger, adders, lockOwner, results, ready, trial>>
    BY <1>2 DEF Review
  <2>4. \A w \in Writers : WriterKnows(w)'
    BY <2>3 DEF AssuranceInv, WriterKnows
  <2>5. TrialKnown' /\ ReadyIsProved'
    BY <2>3, JudgedStays DEF AssuranceInv
  <2> QED BY <2>2, <2>3, <2>4, <2>5 DEF AssuranceInv, EvidenceStays, LedgerSound
<1>3. CASE WriteLedger
  <2>1. PICK claims \in ClaimSets :
          ledger' = <<[at |-> Here, claims |-> claims,
                       evidence |-> [e \in {DiffReview} |->
                         [type |-> "SOURCE_REVIEW", status |-> "PASS", claims |-> DOMAIN claims,
                          whole |-> TRUE, at |-> Here]]]>>
    BY <1>3 DEF WriteLedger
  <2>2. ledger' = <<ledger'[1]>> /\ LedgerSound(ledger'[1]) /\ ledger'[1].at = Here
    BY <2>1 DEF LedgerSound
  <2>3. adders' = adders /\ \A w \in Writers : adders[w].stage = "idle"
    BY <1>3 DEF WriteLedger, Outside
  <2>4. Ledgered' # Ledgered
    BY <1>3, <2>2 DEF WriteLedger, Ledgered
  <2>5. UNCHANGED <<assessed, lockOwner, results, ready, trial>>
    BY <1>3 DEF WriteLedger
  <2>6. TrialKnown' /\ ReadyIsProved'
    BY <2>5, JudgedStays DEF AssuranceInv
  <2>7. \A w \in Writers : WriterKnows(w)'
    BY <2>3 DEF WriterKnows
  <2>8. AssuranceInv'
    BY <2>2, <2>3, <2>5, <2>6, <2>7 DEF AssuranceInv, LedgerSound
  <2> QED BY <2>4, <2>8 DEF EvidenceStays
<1> QED BY <1>1, <1>2, <1>3

\* Locking, replacing and dying: the lock file admits one writer, which replaces the
\* ledger it read by a larger one.
LEMMA WritersKeep ==
  ASSUME AssuranceBounds, AssuranceInv, NEW w \in Writers,
         ReplaceLedger(w) \/ WriterDies(w) \/ \E e \in DOMAIN Records : Lock(w, e)
  PROVE  AssuranceInv' /\ EvidenceStays
<1>1. ASSUME NEW e \in DOMAIN Records, Lock(w, e)
      PROVE  AssuranceInv' /\ EvidenceStays
  <2>1. \A v \in Writers : WriterKnows(v)'
    <3> TAKE v \in Writers
    <3>1. CASE v = w
      BY <1>1, <3>1 DEF Lock, AssuranceInv, WriterKnows
    <3>2. CASE v # w
      <4>1. adders'[v] = adders[v] /\ adders[v].stage # "locked"
        BY <1>1, <3>2 DEF Lock, LockFree, AssuranceInv, WriterKnows, AssuranceBounds
      <4> QED BY <4>1 DEF WriterKnows
    <3> QED BY <3>1, <3>2
  <2>2. UNCHANGED <<ledger, assessed, results, ready, trial>>
    BY <1>1 DEF Lock
  <2>3. adders' = [v \in Writers |-> adders'[v]]
    BY <1>1 DEF Lock, AssuranceInv
  <2>4. TrialKnown' /\ ReadyIsProved'
    BY <2>2, JudgedStays DEF AssuranceInv
  <2> QED BY <2>1, <2>2, <2>3, <2>4 DEF AssuranceInv, EvidenceStays, LedgerSound
<1>2. CASE WriterDies(w)
  <2>1. UNCHANGED <<ledger, assessed, results, ready, trial>>
    BY <1>2 DEF WriterDies
  <2>2. adders' = [v \in Writers |-> IF v = w THEN NotAdding ELSE adders[v]] /\ lockOwner = w
    BY <1>2 DEF WriterDies, AssuranceInv, WriterKnows
  <2>3. \A v \in Writers : WriterKnows(v)'
    BY <1>2, <2>1, <2>2 DEF WriterDies, NotAdding, AssuranceInv, WriterKnows
  <2>4. TrialKnown' /\ ReadyIsProved'
    BY <2>1, JudgedStays DEF AssuranceInv
  <2>5. adders' = [v \in Writers |-> adders'[v]]
    BY <2>2
  <2> QED BY <2>1, <2>3, <2>4, <2>5 DEF AssuranceInv, EvidenceStays, LedgerSound
<1>3. CASE ReplaceLedger(w)
  <2> DEFINE a == adders[w]
             added == [e \in DOMAIN a.ledger.evidence \cup {a.id} |->
                         IF e = a.id THEN Recording(e, a.ledger.at) ELSE a.ledger.evidence[e]]
             updated == [a.ledger EXCEPT !.evidence = added]
  <2>1. /\ a.stage = "locked" /\ ledger' = <<updated>> /\ LedgerLoads(updated)
        /\ adders' = [adders EXCEPT ![w] = NotAdding]
    BY <1>3 DEF ReplaceLedger
  <2>2. ledger # <<>> /\ a.ledger = ledger[1] /\ lockOwner = w
    BY <2>1 DEF AssuranceInv, WriterKnows
  <2>3. LedgerSound(updated)
    <3>1. a.ledger = [at |-> a.ledger.at, claims |-> a.ledger.claims, evidence |-> a.ledger.evidence]
      BY <2>2 DEF AssuranceInv, LedgerSound
    <3>2. updated = [at |-> a.ledger.at, claims |-> a.ledger.claims, evidence |-> added]
      BY <3>1
    <3>3. DiffReview \in DOMAIN updated.evidence /\ updated.evidence[DiffReview].type = "SOURCE_REVIEW"
      BY <2>1 DEF LedgerLoads
    <3> HIDE DEF added
    <3> QED BY <3>2, <3>3 DEF LedgerSound
  <2>4. \A v \in Writers : adders'[v].stage # "locked"
    BY <2>1, <2>2 DEF AssuranceInv, WriterKnows, NotAdding
  <2>5. updated.evidence = added /\ updated.at = ledger[1].at
    BY <2>2 DEF AssuranceInv, LedgerSound
  <2>6. DOMAIN ledger[1].evidence \subseteq DOMAIN updated.evidence
    BY <2>2, <2>5
  <2> HIDE DEF updated
  <2>7. UNCHANGED <<assessed, results, ready, trial>>
    BY <1>3 DEF ReplaceLedger
  <2>8. ledger' = <<ledger'[1]>> /\ ledger'[1] = updated
    BY <2>1
  <2>9. adders' = [v \in Writers |-> adders'[v]]
    BY <2>1 DEF AssuranceInv
  <2>10. AssuranceInv'
    <3>1. TrialKnown' /\ ReadyIsProved'
      BY <2>7, JudgedStays DEF AssuranceInv
    <3>2. \A v \in Writers : WriterKnows(v)'
      BY <2>4 DEF WriterKnows
    <3> QED BY <2>3, <2>7, <2>8, <2>9, <3>1, <3>2 DEF AssuranceInv, LedgerSound
  <2> QED BY <2>6, <2>8, <2>10 DEF EvidenceStays
<1> QED BY <1>1, <1>2, <1>3

\* Looking at the repository and handing over change none of it.
LEMMA LooksKeep ==
  ASSUME AssuranceInv, Look \/ Digest \/ HandOff \/ Resume \/ UNCHANGED assuranceVars
  PROVE  AssuranceInv' /\ EvidenceStays
BY ElsewhereKeeps DEF Look, Digest, HandOff, Resume, assuranceVars

\* Running the gates records what was installed; judging rests on what they recorded.
LEMMA GatesKeep ==
  ASSUME AssuranceInv, RunGates \/ Judge
  PROVE  AssuranceInv' /\ EvidenceStays
<1>1. UNCHANGED <<ledger, assessed, adders, lockOwner>> /\ Complete
  BY DEF RunGates, Judge
<1>2. EvidenceStays
  BY <1>1 DEF EvidenceStays
<1>3. CASE RunGates
  <2>1. ASSUME NEW at, results'["G4"] = <<[at |-> at, passed |-> TRUE]>>
        PROVE  trial' = <<at>>
    <3>1. results'["G4"] = <<[at |-> Candidate(seen[1]), passed |-> Passes("G4")]>>
      BY <1>3 DEF RunGates, Gates
    <3>2. at = Candidate(seen[1]) /\ Passes("G4")
      BY <2>1, <3>1
    <3>3. G4(ledger[1], assessed[1], ui[1], seen[1])
      BY <3>2 DEF Passes
    <3>4. copied = <<at>>
      BY <3>2, <3>3 DEF G4, Installed
    <3> QED BY <1>3, <3>4 DEF RunGates
  <2>2. UNCHANGED ready
    BY <1>3 DEF RunGates
  <2>3. TrialKnown'
    BY <2>1 DEF TrialKnown
  <2> QED BY <1>1, <1>2, <2>2, <2>3 DEF AssuranceInv, WriterKnows, ReadyIsProved, ProvedReady, LedgerSound
<1>4. CASE Judge
  <2> DEFINE l == ledger[1]
             r == assessed[1]
             look == seen[1]
             judged == [at |-> Candidate(look), passed |-> LocalReady(l, r, look),
                        ledger |-> l, review |-> r, trial |-> trial]
  <2>1. ready' = <<judged>> /\ UNCHANGED <<results, trial>>
    BY <1>4 DEF Judge
  <2>2. LedgerSound(l) /\ \A f \in r.findings : f.severity \in Severities
    BY <1>1 DEF AssuranceInv, Complete
  <2>3. judged.passed => ProvedReady(judged)
    <3> SUFFICES ASSUME LocalReady(l, r, look) PROVE ProvedReady(judged)
      OBVIOUS
    <3> QED BY <2>2, AcceptedIsProved DEF AssuranceInv, ProvedReady
  <2> HIDE DEF judged
  <2>4. {ready'[i] : i \in DOMAIN ready'} = {judged}
    BY <2>1
  <2>5. ReadyIsProved'
    BY <2>3, <2>4 DEF ReadyIsProved, ProvedReady
  <2>6. TrialKnown'
    BY <2>1 DEF AssuranceInv, TrialKnown
  <2> QED BY <1>1, <1>2, <2>5, <2>6 DEF AssuranceInv, WriterKnows, LedgerSound
<1> QED BY <1>3, <1>4

\* Every step of M3 keeps the invariant, and the evidence of the ledger it finds.
LEMMA AssuranceKept ==
  ASSUME AssuranceBounds, AssuranceInv, [AssuranceNext]_assuranceVars
  PROVE  AssuranceInv' /\ EvidenceStays
BY AuthorsKeep, WritersKeep, LooksKeep, GatesKeep DEF AssuranceNext

\* The invariant of M3.
THEOREM AssuranceInvariant == ASSUME AssuranceBounds PROVE AssuranceSpec => []AssuranceInv
<1>1. AssuranceInit => AssuranceInv
  BY AssuranceStarts
<1>2. AssuranceInv /\ [AssuranceNext]_assuranceVars => AssuranceInv'
  BY AssuranceKept
<1> QED BY <1>1, <1>2, PTL DEF AssuranceSpec

\* LOCAL_READY is never said of a candidate whose required criteria lack proof, whose review
\* left something open or accepted, or which is not what was installed, whatever changed
\* between the looks, the gates and the judgement (PublicationReadinessService.evaluate).
THEOREM ReadinessIsProved == ASSUME AssuranceBounds PROVE AssuranceSpec => []ReadyIsProved
<1>1. AssuranceInv => ReadyIsProved
  BY DEF AssuranceInv
<1> QED BY <1>1, AssuranceInvariant, PTL

\* Of writers that add evidence to one ledger, die or race, none loses what another added
\* (EvidenceLedgerStore.add).
THEOREM EvidenceIsKept == ASSUME AssuranceBounds PROVE AssuranceSpec => [][EvidenceStays]_assuranceVars
<1>1. AssuranceInv /\ [AssuranceNext]_assuranceVars => [EvidenceStays]_assuranceVars
  BY AssuranceKept
<1> QED BY <1>1, AssuranceInvariant, PTL DEF AssuranceSpec

\* Whatever else happens in either, the migrations and the ledger keep what their processes
\* wrote: no claim and no evidence is lost to another writer, a crash or a stale read.
THEOREM WritesAreKept == ASSUME AssuranceBounds PROVE Spec /\ AssuranceSpec => WritesKept
<1>1. [ClaimsStay]_vars /\ [EvidenceStays]_assuranceVars
        => [ClaimsStay /\ EvidenceStays]_<<vars, assuranceVars>>
  BY DEF ClaimsStay, EvidenceStays, vars, assuranceVars
<1>. QED BY <1>1, ClaimsAreKept, EvidenceIsKept, PTL DEF WritesKept

-----------------------------------------------------------------------------
\* Contexts: recursions, folds and orders.

\* One step of a recursion over the natural numbers.
StepFrom(h, F, b, k) == IF k = 0 THEN b ELSE F[h[k - 1]]

\* There is such a recursion for every first value and step.
LEMMA StepsExist ==
  ASSUME NEW X, NEW b \in X, NEW F \in [X -> X]
  PROVE  \E h \in [Nat -> X] : h = [k \in Nat |-> StepFrom(h, F, b, k)]
<1>. DEFINE Upto(h, n) == \A k \in 0..n : h[k] \in X /\ h[k] = StepFrom(h, F, b, k)
            H == {n \in Nat : \E h : Upto(h, n)}
<1>1. 0 \in H
  <2>1. Upto([k \in Nat |-> b], 0)
    BY DEF StepFrom
  <2>. QED BY <2>1
<1>2. ASSUME NEW n \in Nat, n \in H
      PROVE  n + 1 \in H
  <2>1. PICK h : Upto(h, n)
    BY <1>2
  <2>. DEFINE i == [k \in Nat |-> StepFrom(h, F, b, k)]
  <2>2. ASSUME NEW k \in 0..(n + 1)
        PROVE  i[k] \in X /\ (k # 0 => i[k - 1] = h[k - 1])
    <3>1. CASE k = 0
      BY <3>1 DEF StepFrom
    <3>2. CASE k # 0
      <4>1. k - 1 \in 0..n /\ k \in Nat
        BY <3>2
      <4>2. i[k] = F[h[k - 1]] /\ i[k - 1] = h[k - 1] /\ h[k - 1] \in X
        BY <2>1, <3>2, <4>1 DEF StepFrom
      <4>. QED BY <4>2
    <3>. QED BY <3>1, <3>2
  <2>3. Upto(i, n + 1)
    BY <2>2 DEF StepFrom
  <2>. HIDE DEF Upto
  <2>. QED BY <2>3
<1>3. \A n \in Nat : n \in H
  <2>. HIDE DEF H
  <2>. QED BY <1>1, <1>2, AllNumbers
<1>. DEFINE G == [n \in Nat |-> CHOOSE h : Upto(h, n)]
<1>4. \A n \in Nat : Upto(G[n], n)
  <2>. HIDE DEF Upto
  <2>. QED BY <1>3
<1>. DEFINE h == [n \in Nat |-> G[n][n]]
\* Longer solutions agree with the shorter ones.
<1>5. ASSUME NEW n \in Nat
      PROVE  G[n + 1][n] = G[n][n]
  <2>. DEFINE K == {k \in Nat : k <= n => G[n + 1][k] = G[n][k]}
  <2>0. Upto(G[n], n) /\ Upto(G[n + 1], n + 1)
    BY <1>4
  <2>. HIDE DEF G
  <2>1. 0 \in K
    BY <2>0 DEF StepFrom
  <2>2. ASSUME NEW k \in Nat, k \in K
        PROVE  k + 1 \in K
    <3>1. SUFFICES ASSUME k + 1 <= n
                   PROVE  G[n + 1][k + 1] = G[n][k + 1]
      OBVIOUS
    <3>2. k + 1 \in 0..n /\ k + 1 \in 0..(n + 1) /\ k + 1 # 0 /\ (k + 1) - 1 = k
      BY <3>1
    <3>3. G[n + 1][k] = G[n][k]
      BY <2>2, <3>1
    <3>4. /\ G[n + 1][k + 1] = StepFrom(G[n + 1], F, b, k + 1)
          /\ G[n][k + 1] = StepFrom(G[n], F, b, k + 1)
      BY <2>0, <3>2
    <3>. QED BY <3>2, <3>3, <3>4 DEF StepFrom
  <2>3. n \in K
    <3>. HIDE DEF K
    <3>. QED BY <2>1, <2>2, AllNumbers
  <2>. QED BY <2>3
<1>6. ASSUME NEW n \in Nat
      PROVE  h[n] \in X /\ h[n] = StepFrom(h, F, b, n)
  <2>1. Upto(G[n], n)
    BY <1>4
  <2>2. G[n][n] \in X /\ G[n][n] = StepFrom(G[n], F, b, n)
    BY <2>1
  <2>. HIDE DEF G
  <2>3. ASSUME n # 0
        PROVE  G[n][n - 1] = G[n - 1][n - 1]
    <3>1. n - 1 \in Nat /\ (n - 1) + 1 = n
      BY <2>3
    <3>2. G[(n - 1) + 1][n - 1] = G[n - 1][n - 1]
      BY <1>5, <3>1
    <3>. QED BY <3>1, <3>2
  <2>. QED BY <2>2, <2>3 DEF StepFrom
<1>. QED BY <1>6

-----------------------------------------------------------------------------
\* Contradictions.

\* The edges that touch a set of nodes, and the set with all their ends.
Touched(E, T) == {f \in E : {f[1], f[2]} \cap T # {}}
Spread(E, T) == T \cup UNION {{e[1], e[2]} : e \in Touched(E, T)}

\* A set of nodes that has both ends of an edge or neither.
Whole(E, T) == \A e \in E : e[1] \in T <=> e[2] \in T

\* One round of a closure adds the ends of the edges it touches.
LEMMA SpreadIs ==
  ASSUME NEW E, NEW T
  PROVE  Spread(E, T) = T \cup {e[1] : e \in Touched(E, T)} \cup {e[2] : e \in Touched(E, T)}
BY DEF Spread

\* The closure of a contradiction: it takes as many steps as there are edges
\* at most, since each step but the last touches another edge.
LEMMA ComponentIsWhole ==
  ASSUME NEW S, NEW E, IsFiniteSet(E)
  PROVE  S \subseteq Component(S, E) /\ Whole(E, Component(S, E))
<1>. DEFINE Q(h) == h = [k \in Nat |->
                           IF k = 0 THEN S
                           ELSE h[k - 1] \cup UNION {{e[1], e[2]} :
                                  e \in {f \in E : {f[1], f[2]} \cap h[k - 1] # {}}}]
            U == S \cup {e[1] : e \in E} \cup {e[2] : e \in E}
            F == [T \in SUBSET U |-> Spread(E, T)]
            N == Cardinality(E)
<1>1. Component(S, E) = (CHOOSE h : Q(h))[N]
  BY DEF Component
<1>2. \E h : Q(h)
  <2>1. F \in [SUBSET U -> SUBSET U] /\ S \in SUBSET U
    <3>1. \A T \in SUBSET U : Spread(E, T) \in SUBSET U
      BY SpreadIs DEF Touched
    <3>. QED BY <3>1
  <2>2. \A T \in SUBSET U : F[T] = T \cup UNION {{e[1], e[2]} :
                                  e \in {f \in E : {f[1], f[2]} \cap T # {}}}
    BY DEF Spread, Touched
  <2>. HIDE DEF F, U
  <2>. DEFINE X == SUBSET U
  <2>2a. F \in [X -> X] /\ S \in X
    BY <2>1
  <2>. HIDE DEF X
  <2>2b. \E h \in [Nat -> X] : h = [k \in Nat |-> StepFrom(h, F, S, k)]
    BY <2>2a, StepsExist
  <2>3. PICK h \in [Nat -> X] : h = [k \in Nat |-> StepFrom(h, F, S, k)]
    BY <2>2b
  <2>4. ASSUME NEW k \in Nat
        PROVE  StepFrom(h, F, S, k)
                 = IF k = 0 THEN S
                   ELSE h[k - 1] \cup UNION {{e[1], e[2]} :
                          e \in {f \in E : {f[1], f[2]} \cap h[k - 1] # {}}}
    <3>1. k # 0 => h[k - 1] \in SUBSET U
      BY DEF X
    <3>. QED BY <2>2, <3>1 DEF StepFrom
  <2>5. [k \in Nat |-> StepFrom(h, F, S, k)]
      = [k \in Nat |-> IF k = 0 THEN S
                       ELSE h[k - 1] \cup UNION {{e[1], e[2]} :
                              e \in {f \in E : {f[1], f[2]} \cap h[k - 1] # {}}}]
    BY <2>4
  <2>6. Q(h)
    BY <2>3, <2>5
  <2>. HIDE DEF Q
  <2>. QED BY <2>6
<1>. DEFINE h == CHOOSE h : Q(h)
<1>3. /\ h[0] = S
      /\ \A k \in Nat : h[k + 1] = Spread(E, h[k])
  <2>1. Q(h)
    <3>. HIDE DEF Q
    <3>. QED BY <1>2
  <2>. HIDE DEF h
  <2>2. h[0] = S
    BY <2>1
  <2>3. ASSUME NEW k \in Nat
        PROVE  h[k + 1] = Spread(E, h[k])
    <3>1. k + 1 \in Nat /\ k + 1 # 0 /\ (k + 1) - 1 = k
      OBVIOUS
    <3>. DEFINE j == k + 1
    <3>2. h[j] = IF j = 0 THEN S
                 ELSE h[j - 1] \cup UNION {{e[1], e[2]} :
                        e \in {f \in E : {f[1], f[2]} \cap h[j - 1] # {}}}
      <4>1. j \in Nat
        BY <3>1
      <4>. HIDE DEF j
      <4>. QED BY <2>1, <4>1, Zenon
    <3>. QED BY <3>2 DEF Spread, Touched
  <2>. QED BY <2>2, <2>3
<1>. HIDE DEF h, Q
<1>4. N \in Nat /\ \A T : /\ Cardinality(Touched(E, T)) \in Nat
                          /\ Cardinality(Touched(E, T)) <= N
  BY FS_CardinalityType, FS_Subset DEF Touched
<1>. HIDE DEF N
<1>5. \A k \in Nat : S \subseteq h[k]
  <2>. DEFINE H == {k \in Nat : S \subseteq h[k]}
  <2>1. 0 \in H /\ \A k \in Nat : k \in H => k + 1 \in H
    BY <1>3 DEF Spread
  <2>2. \A k \in Nat : k \in H
    <3>. HIDE DEF H
    <3>. QED BY <2>1, AllNumbers
  <2>. QED BY <2>2
\* While the closure grows it touches one more edge at each step.
<1>6. \A k \in Nat : h[k + 1] = h[k] \/ k + 1 <= Cardinality(Touched(E, h[k]))
  <2>. DEFINE H == {k \in Nat : h[k + 1] = h[k] \/ k + 1 <= Cardinality(Touched(E, h[k]))}
  <2>1. 0 \in H
    <3>1. CASE Touched(E, h[0]) = {}
      <4>1. Spread(E, h[0]) = h[0]
        BY <3>1 DEF Spread
      <4>2. h[0 + 1] = h[0]
        BY <1>3, <4>1
      <4>. QED BY <4>2
    <3>2. CASE Touched(E, h[0]) # {}
      <4>1. IsFiniteSet(Touched(E, h[0]))
        BY FS_Subset DEF Touched
      <4>2. Cardinality(Touched(E, h[0])) # 0
        BY <3>2, <4>1, NoElements
      <4>. QED BY <1>4, <4>2
    <3>. QED BY <3>1, <3>2
  <2>2. ASSUME NEW k \in Nat, k \in H
        PROVE  k + 1 \in H
    <3>. DEFINE a == Touched(E, h[k])
                b == Touched(E, h[k + 1])
    <3>1. h[k] \subseteq h[k + 1] /\ a \subseteq b
      BY <1>3 DEF Spread, Touched
    <3>2. h[(k + 1) + 1] = Spread(E, h[k + 1])
      BY <1>3
    <3>3. CASE a = b
      <4>1. Spread(E, h[k + 1]) = h[k + 1]
        <5>1. \A e \in b : e[1] \in h[k + 1] /\ e[2] \in h[k + 1]
          BY <1>3, <3>3, SpreadIs
        <5>. HIDE DEF b
        <5>2. Spread(E, h[k + 1]) = h[k + 1] \cup {e[1] : e \in b} \cup {e[2] : e \in b}
          BY SpreadIs DEF b
        <5>. QED BY <5>1, <5>2
      <4>. QED BY <3>2, <4>1
    <3>4. CASE a # b
      <4>1. h[k + 1] # h[k]
        BY <3>4
      <4>2. k + 1 <= Cardinality(a)
        BY <2>2, <4>1
      <4>3. IsFiniteSet(b)
        BY FS_Subset DEF Touched
      <4>4. Cardinality(a) \in Nat /\ Cardinality(b) \in Nat
        BY <1>4
      <4>. HIDE DEF a, b
      <4>5. Cardinality(a) <= Cardinality(b) /\ (Cardinality(b) = Cardinality(a) => b = a)
        BY <3>1, <4>3, FS_Subset
      <4>6. (k + 1) + 1 <= Cardinality(b)
        BY <3>4, <4>2, <4>4, <4>5
      <4>. QED BY <4>6 DEF b
    <3>. QED BY <3>3, <3>4
  <2>. HIDE DEF H
  <2>3. \A k \in Nat : k \in H
    BY <2>1, <2>2, AllNumbers
  <2>. QED BY <2>3 DEF H
<1>7. h[N + 1] = h[N]
  BY <1>4, <1>6
<1>8. Whole(E, h[N])
  <2>1. Spread(E, h[N]) = h[N]
    BY <1>3, <1>4, <1>7
  <2>2. ASSUME NEW e \in E, {e[1], e[2]} \cap h[N] # {}
        PROVE  e[1] \in h[N] /\ e[2] \in h[N]
    BY <2>1, <2>2, SpreadIs DEF Touched
  <2>. QED BY <2>2 DEF Whole
<1>. QED BY <1>1, <1>4, <1>5, <1>8 DEF h

-----------------------------------------------------------------------------
\* Orders.

\* A strict order on a set, that leaves no two elements unordered.
Strict(R, S) ==
  /\ \A a \in S : <<a, a>> \notin R
  /\ \A a, b \in S : a # b => <<a, b>> \in R \/ <<b, a>> \in R
  /\ \A a, b, c \in S : <<a, b>> \in R /\ <<b, c>> \in R => <<a, c>> \in R

Below(R, S, n) == {m \in S : <<m, n>> \in R}

\* Each element of a finite ordered set has a place of its own, and each place
\* its element.
LEMMA PlacesAre ==
  ASSUME NEW S, IsFiniteSet(S), NEW R, Strict(R, S)
  PROVE  /\ Cardinality(S) \in Nat
         /\ \A n \in S : \E i \in 1..Cardinality(S) : Cardinality(Below(R, S, n)) = i - 1
         /\ \A i \in 1..Cardinality(S) : \E n \in S : Cardinality(Below(R, S, n)) = i - 1
         /\ \A m, n \in S : Cardinality(Below(R, S, n)) = Cardinality(Below(R, S, m)) => m = n
<1>. DEFINE N == Cardinality(S)
            D(n) == Below(R, S, n)
<1>0. N \in Nat /\ \A n \in S : /\ IsFiniteSet(D(n)) /\ Cardinality(D(n)) \in Nat
                                 /\ D(n) \subseteq S /\ n \notin D(n)
  BY FS_Subset, FS_CardinalityType DEF Below, Strict
<1>1. ASSUME NEW n \in S
      PROVE  Cardinality(D(n)) < N
  <2>1. D(n) \in SUBSET S /\ D(n) # S
    BY <1>0
  <2>. HIDE DEF D
  <2>2. Cardinality(D(n)) <= N /\ Cardinality(D(n)) # N
    BY <2>1, FS_Subset
  <2>. QED BY <1>0, <2>2
<1>2. ASSUME NEW m \in S, NEW n \in S, <<m, n>> \in R
      PROVE  Cardinality(D(m)) < Cardinality(D(n))
  <2>1. D(m) \in SUBSET D(n) /\ m \in D(n) /\ m \notin D(m)
    BY <1>2 DEF Below, Strict
  <2>. HIDE DEF D
  <2>2. Cardinality(D(m)) <= Cardinality(D(n)) /\ Cardinality(D(m)) # Cardinality(D(n))
    BY <1>0, <2>1, FS_Subset
  <2>. QED BY <1>0, <2>2
<1>. HIDE DEF D
<1>3. \A m, n \in S : Cardinality(D(n)) = Cardinality(D(m)) => m = n
  <2>. SUFFICES ASSUME NEW m \in S, NEW n \in S, m # n
                PROVE  Cardinality(D(n)) # Cardinality(D(m))
    OBVIOUS
  <2>1. <<m, n>> \in R \/ <<n, m>> \in R
    BY DEF Strict
  <2>. QED BY <1>0, <1>2, <2>1
<1>. DEFINE T == 1..N
            f == [n \in S |-> Cardinality(D(n)) + 1]
<1>4. f \in Injection(S, T)
  <2>1. f \in [S -> T]
    BY <1>0, <1>1
  <2>2. \A m, n \in S : f[m] = f[n] => m = n
    BY <1>0, <1>3
  <2>. HIDE DEF f, T
  <2>. QED BY <2>1, <2>2 DEF Injection, IsInjective
<1>5. IsFiniteSet(T) /\ Cardinality(T) = N
  BY <1>0, FS_Interval
<1>6. f \in Surjection(S, T)
  <2>. HIDE DEF f, T
  <2>. QED BY <1>4, <1>5, FS_Injection
<1>7. \A i \in T : \E n \in S : f[n] = i
  <2>. HIDE DEF f, T
  <2>. QED BY <1>6 DEF Surjection
<1>8. \A n \in S : \E i \in T : f[n] = i
  BY <1>0, <1>1
<1>9. \A i \in T : \A n \in S : f[n] = i => Cardinality(D(n)) = i - 1
  BY <1>0
<1>10. \A i \in T : \E n \in S : Cardinality(D(n)) = i - 1
  BY <1>7, <1>9
<1>11. \A n \in S : \E i \in T : Cardinality(D(n)) = i - 1
  BY <1>8, <1>9
<1>. QED BY <1>0, <1>3, <1>10, <1>11 DEF D

PlacedBy(R, S) ==
  [i \in 1..Cardinality(S) |-> CHOOSE n \in S : Cardinality(Below(R, S, n)) = i - 1]

\* Every element has a place, and every place an element.
LEMMA PlacedIs ==
  ASSUME NEW S, IsFiniteSet(S), NEW R, Strict(R, S)
  PROVE  /\ Cardinality(S) \in Nat
         /\ PlacedBy(R, S) \in [1..Cardinality(S) -> S]
         /\ \A n \in S : \E i \in 1..Cardinality(S) : PlacedBy(R, S)[i] = n
<1>. DEFINE o == PlacedBy(R, S)
            N == Cardinality(S)
<1>1. ASSUME NEW i \in 1..N
      PROVE  o[i] \in S /\ Cardinality(Below(R, S, o[i])) = i - 1
  <2>1. \E n \in S : Cardinality(Below(R, S, n)) = i - 1
    BY PlacesAre
  <2>2. o[i] = CHOOSE n \in S : Cardinality(Below(R, S, n)) = i - 1
    BY DEF PlacedBy
  <2>. QED BY <2>1, <2>2
<1>2. o \in [1..N -> S]
  BY <1>1 DEF PlacedBy
<1>3. ASSUME NEW n \in S
      PROVE  \E i \in 1..N : o[i] = n
  <2>1. PICK i \in 1..N : Cardinality(Below(R, S, n)) = i - 1
    BY PlacesAre
  <2>. HIDE DEF o, N
  <2>2. o[i] = n
    BY <1>1, <2>1, PlacesAre
  <2>. QED BY <2>2
<1>. QED BY <1>2, <1>3, PlacesAre

\* Numbers have their places too.
LEMMA NumbersPlaced ==
  ASSUME NEW S \in SUBSET Nat, IsFiniteSet(S)
  PROVE  /\ Cardinality(S) \in Nat
         /\ Numbered(S) \in [1..Cardinality(S) -> S]
         /\ \A n \in S : \E i \in 1..Cardinality(S) : Numbered(S)[i] = n
<1>. DEFINE R == {p \in S \X S : p[1] < p[2]}
<1>1. Strict(R, S)
  BY DEF Strict
<1>2. \A n \in S : {m \in S : m < n} = Below(R, S, n)
  BY DEF Below
<1>. HIDE DEF R
<1>3. ASSUME NEW i \in 1..Cardinality(S)
      PROVE  Numbered(S)[i] = PlacedBy(R, S)[i]
  <2>1. \A n \in S : (Cardinality({m \in S : m < n}) = i - 1) <=> (Cardinality(Below(R, S, n)) = i - 1)
    BY <1>2
  <2>2. (CHOOSE n \in S : Cardinality({m \in S : m < n}) = i - 1)
                 = (CHOOSE n \in S : Cardinality(Below(R, S, n)) = i - 1)
    BY <2>1
  <2>. QED BY <2>2 DEF Numbered, PlacedBy
<1>4. Numbered(S) = PlacedBy(R, S)
  BY <1>3 DEF Numbered, PlacedBy
<1>. QED BY <1>1, <1>4, PlacedIs

\* Ranks compared from the left are ordered when the last place tells any two apart.
Before(r, a, b) == \E i \in 1..6 : r[a][i] < r[b][i] /\ \A j \in 1..(i - 1) : r[a][j] = r[b][j]

\* Ranks of six numbers, the last the name, order their nodes strictly.
LEMMA RanksOrdered ==
  ASSUME NEW S, NEW r, \A n \in S : r[n] \in [1..6 -> Int] /\ r[n][6] = n
  PROVE  Strict({p \in S \X S : Before(r, p[1], p[2])}, S)
<1>. DEFINE R == {p \in S \X S : Before(r, p[1], p[2])}
<1>0. \A n \in S : \A i \in 1..6 : r[n][i] \in Int
  OBVIOUS
<1>0a. \A a, b \in S : <<a, b>> \in R <=> Before(r, a, b)
  OBVIOUS
<1>. HIDE DEF R
<1>1. \A a \in S : <<a, a>> \notin R
  BY <1>0, <1>0a DEF Before
<1>2. ASSUME NEW a \in S, NEW b \in S, a # b
      PROVE  <<a, b>> \in R \/ <<b, a>> \in R
  <2>. DEFINE T == {i \in 1..6 : r[a][i] # r[b][i]}
  <2>1. T \in SUBSET Nat /\ T # {}
    <3>1. 6 \in T
      BY <1>2
    <3>. QED BY <3>1
  <2>. HIDE DEF T
  <2>2. PICK i \in T : \A j \in T : i <= j
    BY <2>1, LeastNumber
  <2>3. i \in 1..6 /\ r[a][i] # r[b][i]
    BY <2>2 DEF T
  <2>4. \A j \in 1..(i - 1) : r[a][j] = r[b][j]
    BY <2>2, <2>3 DEF T
  <2>5. r[a][i] < r[b][i] \/ r[b][i] < r[a][i]
    BY <1>0, <2>3
  <2>. QED BY <1>0a, <2>3, <2>4, <2>5 DEF Before
<1>3. ASSUME NEW a \in S, NEW b \in S, NEW c \in S, Before(r, a, b), Before(r, b, c)
      PROVE  Before(r, a, c)
  <2>1. PICK i \in 1..6 : r[a][i] < r[b][i] /\ \A j \in 1..(i - 1) : r[a][j] = r[b][j]
    BY <1>3 DEF Before
  <2>2. PICK k \in 1..6 : r[b][k] < r[c][k] /\ \A j \in 1..(k - 1) : r[b][j] = r[c][j]
    BY <1>3 DEF Before
  <2>3. CASE i < k
    <3>1. i \in 1..(k - 1) /\ \A j \in 1..(i - 1) : j \in 1..(k - 1)
      BY <2>3
    <3>2. r[a][i] < r[c][i] /\ \A j \in 1..(i - 1) : r[a][j] = r[c][j]
      BY <2>1, <2>2, <3>1
    <3>. QED BY <3>2 DEF Before
  <2>4. CASE k < i
    <3>1. k \in 1..(i - 1) /\ \A j \in 1..(k - 1) : j \in 1..(i - 1)
      BY <2>4
    <3>2. r[a][k] < r[c][k] /\ \A j \in 1..(k - 1) : r[a][j] = r[c][j]
      BY <2>1, <2>2, <3>1
    <3>. QED BY <3>2 DEF Before
  <2>5. CASE k = i
    <3>1. r[a][i] < r[c][i] /\ \A j \in 1..(i - 1) : r[a][j] = r[c][j]
      BY <1>0, <2>1, <2>2, <2>5
    <3>. QED BY <3>1 DEF Before
  <2>. QED BY <2>3, <2>4, <2>5
<1>. QED BY <1>0a, <1>1, <1>2, <1>3 DEF Strict, R

-----------------------------------------------------------------------------
\* Bytes and levels.

\* What is asked for: inputs that load.
Inputs == manifest \in Manifests /\ ManifestLoads(manifest) /\ query \in Queries

\* What a manifest and a query that load are.
LEMMA InputsAre ==
  ASSUME Inputs
  PROVE  /\ manifest.sources \in SUBSET Nat /\ IsFiniteSet(manifest.sources)
         /\ manifest.level \in [manifest.sources -> Nat]
         /\ manifest.size \in [manifest.sources -> Nat]
         /\ manifest.authority \in [manifest.sources -> Nat]
         /\ query.score \in [manifest.sources -> Int]
         /\ query.budget \in Nat /\ query.nodes \in Nat /\ query.depth \in Nat
         /\ query.clearance \in Nat
         /\ IsFiniteSet(manifest.refs) /\ IsFiniteSet(manifest.contradicts)
         /\ Canonical \in manifest.required /\ manifest.required \subseteq manifest.sources
         /\ \A e \in manifest.contradicts : e[1] \in manifest.sources /\ e[2] \in manifest.sources
         /\ EdgeCost \in Nat /\ Envelope \in Nat
<1>1. manifest \in Manifests /\ query \in Queries
  BY DEF Inputs
<1>2. /\ manifest.sources \in SUBSET Nat /\ IsFiniteSet(manifest.sources)
      /\ {manifest.level, manifest.size, manifest.authority} \subseteq [manifest.sources -> Nat]
      /\ IsFiniteSet(manifest.refs) /\ IsFiniteSet(manifest.contradicts)
      /\ Canonical \in manifest.required
      /\ query.score \in [manifest.sources -> Int]
      /\ {query.budget, query.nodes, query.depth, query.clearance} \subseteq Nat
      /\ EdgeCost \in Nat /\ Envelope \in Nat
  BY <1>1, ContextAssumption
<1>3. /\ manifest.required \subseteq manifest.sources
      /\ \A e \in manifest.contradicts : e[1] \in manifest.sources /\ e[2] \in manifest.sources
  BY DEF Inputs, ManifestLoads, EdgesLoad
<1>. QED BY <1>2, <1>3

\* A part has at most the sum of the whole.
LEMMA TotalOfPart ==
  ASSUME NEW A, IsFiniteSet(A), NEW B \in SUBSET A, NEW f, \A x \in A : f[x] \in Nat
  PROVE  Total(f, B) <= Total(f, A)
<1>. DEFINE k == [x \in A |-> IF x \in B THEN f[x] ELSE 0]
<1>1. /\ \A x \in A : k[x] \in Int /\ f[x] \in Int /\ k[x] <= f[x]
      /\ \A x \in A \ B : k[x] = 0
      /\ \A x \in B : k[x] = f[x]
  OBVIOUS
<1>2. IsFiniteSet(B)
  BY FS_Subset
<1>. HIDE DEF k
<1>3. Total(k, A) = Total(k, B)
  BY <1>1, TotalOver
<1>4. Total(k, B) = Total(f, B)
  BY <1>1, <1>2, TotalAgree
<1>5. Total(k, A) <= Total(f, A)
  BY <1>1, TotalAtMost
<1>. QED BY <1>3, <1>4, <1>5

\* The bytes of nodes are the sum over their texts.
LEMMA BytesAre ==
  ASSUME NEW S, IsFiniteSet(S)
  PROVE  Bytes(S) = Total(manifest.size, S)
<1>. DEFINE Q(g) == g = [s \in SUBSET S |->
                           IF s = {} THEN 0
                           ELSE LET x == CHOOSE x \in s : TRUE IN manifest.size[x] + g[s \ {x}]]
<1>1. ASSUME NEW g
      PROVE  FoldOf(g, manifest.size, S) <=> Q(g)
  BY DEF FoldOf, SumFrom, Taken, Rest
<1>2. Bytes(S) = (CHOOSE g : Q(g))[S]
  BY DEF Bytes, MapThenSumSet, MapThenFoldSet
<1>. HIDE DEF Q
<1>3. (CHOOSE g : Q(g)) = (CHOOSE g : FoldOf(g, manifest.size, S))
  BY <1>1
<1>. QED BY <1>2, <1>3 DEF Total

\* The canonical bytes of the nodes, each with its envelope.
Costs == [n \in manifest.sources |-> manifest.size[n] + Envelope]

\* The cost of nodes is a sum too, no less than their bytes.
LEMMA CostsAre ==
  ASSUME Inputs, NEW S \in SUBSET manifest.sources
  PROVE  /\ MapThenSumSet(NodeCost, S) = Total(Costs, S)
         /\ Total(Costs, S) \in Nat /\ Bytes(S) \in Nat
         /\ Bytes(S) <= MapThenSumSet(NodeCost, S)
<1>. DEFINE Q(g) == g = [s \in SUBSET S |->
                           IF s = {} THEN 0
                           ELSE LET x == CHOOSE x \in s : TRUE
                                IN  (manifest.size[x] + Envelope) + g[s \ {x}]]
<1>0. IsFiniteSet(S) /\ \A x \in S : /\ x \in manifest.sources /\ manifest.size[x] \in Nat
                                      /\ Costs[x] = manifest.size[x] + Envelope /\ Costs[x] \in Nat
                                      /\ manifest.size[x] <= Costs[x]
  BY InputsAre, FS_Subset DEF Costs
<1>1. ASSUME NEW g
      PROVE  FoldOf(g, Costs, S) <=> Q(g)
  <2>1. ASSUME NEW s \in SUBSET S
        PROVE  SumFrom(g, Costs, s)
                 = (IF s = {} THEN 0
                    ELSE LET x == CHOOSE x \in s : TRUE
                         IN  (manifest.size[x] + Envelope) + g[s \ {x}])
    <3>1. s # {} => Taken(s) \in S
      BY TakenFrom
    <3>2. s # {} => Costs[Taken(s)] = manifest.size[Taken(s)] + Envelope
      BY <1>0, <3>1
    <3>. QED BY <3>2 DEF SumFrom, Taken, Rest
  <2>2. [s \in SUBSET S |-> SumFrom(g, Costs, s)]
      = [s \in SUBSET S |-> IF s = {} THEN 0
                            ELSE LET x == CHOOSE x \in s : TRUE
                                 IN  (manifest.size[x] + Envelope) + g[s \ {x}]]
    BY <2>1
  <2>. QED BY <2>2 DEF FoldOf
<1>2. MapThenSumSet(NodeCost, S) = (CHOOSE g : Q(g))[S]
  BY DEF MapThenSumSet, MapThenFoldSet, NodeCost
<1>. HIDE DEF Q
<1>3. (CHOOSE g : Q(g)) = (CHOOSE g : FoldOf(g, Costs, S))
  BY <1>1
<1>4. MapThenSumSet(NodeCost, S) = Total(Costs, S)
  BY <1>2, <1>3 DEF Total
<1>5. Total(Costs, S) \in Nat /\ Total(manifest.size, S) \in Nat
  BY <1>0, TotalType
<1>6. Total(manifest.size, S) <= Total(Costs, S)
  BY <1>0, TotalAtMost
<1>. QED BY <1>0, <1>4, <1>5, <1>6, BytesAre

\* A set of nodes is at the level of its highest node.
LEMMA LevelsAre ==
  ASSUME Inputs, NEW S \in SUBSET manifest.sources, NEW n \in S
  PROVE  Levels(S) \in Nat /\ manifest.level[n] \in Nat /\ manifest.level[n] <= Levels(S)
<1>. DEFINE T == {manifest.level[x] : x \in S}
            f == [x \in S |-> manifest.level[x]]
<1>0. IsFiniteSet(S) /\ T \in SUBSET Nat /\ manifest.level[n] \in T
  BY InputsAre, FS_Subset
<1>1. f \in Surjection(S, T)
  BY DEF Surjection
<1>2. IsFiniteSet(T)
  <2>. HIDE DEF f, T
  <2>. QED BY <1>0, <1>1, FS_Surjection
<1>. HIDE DEF T
<1>3. T \in SUBSET Int /\ T # {}
  BY <1>0
<1>4. \E x \in T : \A y \in T : x >= y
  BY <1>2, <1>3, Extremes
<1>5. Max(T) \in T /\ \A y \in T : Max(T) >= y
  BY <1>4 DEF Max
<1>6. Levels(S) = Max(T)
  BY DEF Levels, T
<1>. QED BY <1>0, <1>5, <1>6

-----------------------------------------------------------------------------
\* What the index, the selector and the compactor take in.

\* The graph of an index: sources of the manifest and what relates them.
GraphIs(g) ==
  /\ g.nodes \in SUBSET manifest.sources /\ Canonical \in g.nodes
  /\ g.contradicts = Among(manifest.contradicts, g.nodes)
  /\ g.refs = Among(manifest.refs, g.nodes)

\* A Selection can be made of a graph when what is required fits.
Selectable(g) ==
  /\ Directly(g) \subseteq g.nodes
  /\ RequiredNodes(g) \subseteq EligibleNodes(g)
  /\ Cardinality(RequiredNodes(g)) <= query.nodes
  /\ Cost(g, RequiredNodes(g)) <= query.budget

\* A graph is finite.
LEMMA GraphIsFinite ==
  ASSUME Inputs, NEW g, GraphIs(g)
  PROVE  /\ IsFiniteSet(g.nodes) /\ IsFiniteSet(g.contradicts) /\ IsFiniteSet(g.refs)
         /\ EligibleNodes(g) \subseteq g.nodes
BY InputsAre, FS_Subset DEF GraphIs, Among, EligibleNodes

\* The index keeps only sources that could be read.
LEMMA FitIsReadable ==
  ASSUME Inputs, NEW readable \in SUBSET manifest.sources
  PROVE  Fit(readable) \in SUBSET readable
<1>. DEFINE o == Numbered(readable)
            m == Cardinality(readable)
            X == SUBSET readable
            Op(x, i) == IF Bytes(x \cup {o[i]}) > MaxTotal THEN x ELSE x \cup {o[i]}
            F == [i \in 1..m |-> [x \in X |-> Op(x, i)]]
            Q(g) == g = [s \in SUBSET (DOMAIN o) |->
                           IF s = {} THEN {} ELSE LET i == Max(s) IN Op(g[s \ {i}], i)]
<1>1. Fit(readable) = (CHOOSE g : Q(g))[DOMAIN o]
  BY DEF Fit, Numbered, FoldLeft, MapThenFoldSet
<1>2. m \in Nat /\ o \in [1..m -> readable] /\ DOMAIN o = 1..m
  <2>1. readable \in SUBSET Nat /\ IsFiniteSet(readable)
    BY InputsAre, FS_Subset
  <2>. QED BY <2>1, NumbersPlaced
<1>. HIDE DEF o, m
<1>3. \A x \in X : \A i \in 1..m : Op(x, i) \in X
  BY <1>2
<1>. HIDE DEF Op
<1>4. \E g : Q(g)
  <2>1. \A i \in 1..m : \A x \in X : F[i][x] = Op(x, i) /\ F[i][x] \in X
    BY <1>3
  <2>2. {} \in X
    OBVIOUS
  <2>. HIDE DEF F, X
  <2>2a. m \in Nat /\ {} \in X /\ \A i \in 1..m : \A x \in X : F[i][x] \in X
    BY <1>2, <2>1, <2>2
  <2>2b. PICK g \in [SUBSET (1..m) -> X] : FoldsTo(g, F, {}, m)
    BY <2>2a, FoldsExist
  <2>3. g \in [SUBSET (1..m) -> X] /\ g = [s \in SUBSET (1..m) |-> FoldStep(g, F, {}, s)]
    BY <2>2b DEF FoldsTo
  <2>4. ASSUME NEW s \in SUBSET (1..m)
        PROVE  FoldStep(g, F, {}, s) = (IF s = {} THEN {} ELSE LET i == Max(s) IN Op(g[s \ {i}], i))
    <3>1. CASE s # {}
      <4>1. LastOf(s) \in 1..m /\ Max(s) = LastOf(s)
        BY <1>2, <3>1, LastIn
      <4>2. g[s \ {LastOf(s)}] \in X
        OBVIOUS
      <4>. QED BY <2>1, <3>1, <4>1, <4>2 DEF FoldStep
    <3>. QED BY <3>1 DEF FoldStep
  <2>5. [s \in SUBSET (1..m) |-> FoldStep(g, F, {}, s)]
      = [s \in SUBSET (1..m) |-> IF s = {} THEN {} ELSE LET i == Max(s) IN Op(g[s \ {i}], i)]
    BY <2>4
  <2>6. Q(g)
    BY <1>2, <2>3, <2>5
  <2>. HIDE DEF Q
  <2>. QED BY <2>6
<1>. DEFINE g == CHOOSE g : Q(g)
            P == [s \in SUBSET (1..m) |-> X]
<1>5. Q(g)
  <2>. HIDE DEF Q
  <2>. QED BY <1>4
<1>. HIDE DEF g
<1>6. g[{}] \in P[{}]
  BY <1>2, <1>5
<1>7. ASSUME NEW s \in SUBSET (1..m), s # {}, g[s \ {LastOf(s)}] \in P[s \ {LastOf(s)}]
      PROVE  g[s] \in P[s]
  <2>1. LastOf(s) \in 1..m /\ Max(s) = LastOf(s)
    BY <1>2, <1>7, LastIn
  <2>2. g[s] = Op(g[s \ {LastOf(s)}], LastOf(s))
    BY <1>2, <1>5, <1>7, <2>1
  <2>3. g[s \ {LastOf(s)}] \in X
    BY <1>7
  <2>. QED BY <1>3, <2>1, <2>2, <2>3
<1>8. g[1..m] \in P[1..m]
  <2>. HIDE DEF P, Q
  <2>. QED BY <1>2, <1>6, <1>7, FoldHolds
<1>. QED BY <1>1, <1>2, <1>8 DEF g

\* Two sets that are whole make a whole one, and a part of the nodes keeps the
\* edges that have both ends in it.
LEMMA WholesJoin ==
  ASSUME NEW E, NEW A, NEW B, Whole(E, A), Whole(E, B)
  PROVE  Whole(E, A \cup B) /\ Whole(E, A \ B)
BY DEF Whole

\* What the selector takes keeps to the query: nodes that may be selected, with
\* whole contradictions and everything required, inside the limits.
Takes(g) == {t \in SUBSET EligibleNodes(g) :
               /\ RequiredNodes(g) \subseteq t /\ Whole(g.contradicts, t)
               /\ Cardinality(t) <= query.nodes /\ Cost(g, t) <= query.budget}

\* A candidate is taken with its contradictions, inside the bounds, or not at all.
LEMMA CandidatesKeep ==
  ASSUME Inputs, NEW g, GraphIs(g), NEW t \in Takes(g), NEW n
  PROVE  TakeCandidate(g, t, n) \in Takes(g)
<1>. DEFINE more == t \cup Component({n}, g.contradicts)
<1>1. TakeCandidate(g, t, n) = IF /\ more \subseteq EligibleNodes(g)
                                  /\ Cardinality(more) <= query.nodes
                                  /\ Cardinality(Induced(g, more)) <= query.edges
                                  /\ Cost(g, more) <= query.budget
                               THEN more ELSE t
  BY DEF TakeCandidate
<1>2. Whole(g.contradicts, Component({n}, g.contradicts))
  BY GraphIsFinite, ComponentIsWhole
<1>3. t \in SUBSET EligibleNodes(g) /\ RequiredNodes(g) \subseteq t /\ Whole(g.contradicts, t)
  BY DEF Takes
<1>4. RequiredNodes(g) \subseteq more /\ Whole(g.contradicts, more)
  BY <1>2, <1>3, WholesJoin
<1>. HIDE DEF more
<1>5. CASE /\ more \subseteq EligibleNodes(g)
           /\ Cardinality(more) <= query.nodes
           /\ Cardinality(Induced(g, more)) <= query.edges
           /\ Cost(g, more) <= query.budget
  BY <1>1, <1>4, <1>5 DEF Takes
<1>6. CASE ~(/\ more \subseteq EligibleNodes(g)
             /\ Cardinality(more) <= query.nodes
             /\ Cardinality(Induced(g, more)) <= query.edges
             /\ Cost(g, more) <= query.budget)
  BY <1>1, <1>6
<1>. QED BY <1>5, <1>6

\* So the selector ends with contradictions whole and inside the bounds.
LEMMA SelectionKeeps ==
  ASSUME Inputs, NEW g, GraphIs(g), Selectable(g)
  PROVE  LET s == SelectionOf(g)
         IN  /\ s.nodes \in Takes(g)
             /\ s.unresolved = Among(g.contradicts, s.nodes) /\ s.level = Levels(s.nodes)
             /\ s.used = Cost(g, s.nodes) /\ s.edges = Induced(g, s.nodes)
             /\ DOMAIN s.excluded = g.nodes \ s.nodes
<1>. DEFINE O == {n \in EligibleNodes(g) \ RequiredNodes(g) : Phase(g, n) < 4}
            o == Ranked(g, O)
            m == Cardinality(O)
            X == Takes(g)
            b == RequiredNodes(g)
            Op(x, i) == TakeCandidate(g, x, o[i])
            F == [i \in 1..m |-> [x \in X |-> Op(x, i)]]
            Q(h) == h = [s \in SUBSET (DOMAIN o) |->
                           IF s = {} THEN b ELSE LET i == Max(s) IN Op(h[s \ {i}], i)]
            c == (CHOOSE h : Q(h))[DOMAIN o]
<1>1. LET s == SelectionOf(g)
      IN  /\ s.nodes = c
          /\ s.unresolved = Among(g.contradicts, c) /\ s.level = Levels(c)
          /\ s.used = Cost(g, c) /\ s.edges = Induced(g, c)
          /\ DOMAIN s.excluded = g.nodes \ c
  BY DEF SelectionOf, FoldLeft, MapThenFoldSet
<1>2. m \in Nat /\ DOMAIN o = 1..m
  <2>1. IsFiniteSet(O)
    BY GraphIsFinite, FS_Subset
  <2>. QED BY <2>1, FS_CardinalityType DEF Ranked
<1>. HIDE DEF o, m, O
<1>3. \A x \in X : \A i \in 1..m : Op(x, i) \in X
  BY CandidatesKeep
<1>3a. b \in X
  <2>1. Whole(g.contradicts, b)
    BY GraphIsFinite, ComponentIsWhole DEF RequiredNodes
  <2>. QED BY <2>1 DEF Selectable, Takes
<1>. HIDE DEF Op, X, b
<1>4. \E h : Q(h)
  <2>1. \A i \in 1..m : \A x \in X : F[i][x] = Op(x, i) /\ F[i][x] \in X
    BY <1>3
  <2>. HIDE DEF F
  <2>2. m \in Nat /\ b \in X /\ \A i \in 1..m : \A x \in X : F[i][x] \in X
    BY <1>2, <1>3a, <2>1
  <2>3. PICK h \in [SUBSET (1..m) -> X] : FoldsTo(h, F, b, m)
    BY <2>2, FoldsExist
  <2>3a. h \in [SUBSET (1..m) -> X] /\ h = [s \in SUBSET (1..m) |-> FoldStep(h, F, b, s)]
    BY <2>3 DEF FoldsTo
  <2>4. ASSUME NEW s \in SUBSET (1..m)
        PROVE  FoldStep(h, F, b, s) = (IF s = {} THEN b ELSE LET i == Max(s) IN Op(h[s \ {i}], i))
    <3>1. CASE s # {}
      <4>1. LastOf(s) \in 1..m /\ Max(s) = LastOf(s)
        BY <1>2, <3>1, LastIn
      <4>2. h[s \ {LastOf(s)}] \in X
        BY <2>3a
      <4>. QED BY <2>1, <3>1, <4>1, <4>2 DEF FoldStep
    <3>. QED BY <3>1 DEF FoldStep
  <2>5. [s \in SUBSET (1..m) |-> FoldStep(h, F, b, s)]
      = [s \in SUBSET (1..m) |-> IF s = {} THEN b ELSE LET i == Max(s) IN Op(h[s \ {i}], i)]
    BY <2>4
  <2>6. Q(h)
    BY <1>2, <2>3a, <2>5
  <2>. HIDE DEF Q
  <2>. QED BY <2>6
<1>. DEFINE h == CHOOSE h : Q(h)
            P == [s \in SUBSET (1..m) |-> X]
<1>5. Q(h)
  <2>. HIDE DEF Q
  <2>. QED BY <1>4
<1>. HIDE DEF h
<1>6. h[{}] \in P[{}]
  BY <1>2, <1>3a, <1>5
<1>7. ASSUME NEW s \in SUBSET (1..m), s # {}, h[s \ {LastOf(s)}] \in P[s \ {LastOf(s)}]
      PROVE  h[s] \in P[s]
  <2>1. LastOf(s) \in 1..m /\ Max(s) = LastOf(s)
    BY <1>2, <1>7, LastIn
  <2>2. h[s] = Op(h[s \ {LastOf(s)}], LastOf(s))
    BY <1>2, <1>5, <1>7, <2>1
  <2>3. h[s \ {LastOf(s)}] \in X
    BY <1>7
  <2>. QED BY <1>3, <2>1, <2>2, <2>3
<1>8. h[1..m] \in P[1..m]
  <2>. HIDE DEF P, Q
  <2>. QED BY <1>2, <1>6, <1>7, FoldHolds
<1>9. c \in X
  BY <1>2, <1>8 DEF h
<1>. HIDE DEF c
<1>. QED BY <1>1, <1>9 DEF X

\* The nodes in the order of their ranks.
\* A rank is six numbers, the last the name.
LEMMA RankIsNumbers ==
  ASSUME Inputs, NEW g, NEW n \in manifest.sources
  PROVE  Rank(g, n) \in [1..6 -> Int] /\ Rank(g, n)[6] = n
<1>1. n \in Nat /\ manifest.authority[n] \in Nat /\ manifest.level[n] \in Nat /\ query.score[n] \in Int
  BY InputsAre
<1>2. Phase(g, n) \in Int
  BY DEF Phase
<1>3. Distance(g, Starts(g), n) \in Int
  <2>. DEFINE T == {k \in 0..query.depth : n \in Within(g, Starts(g))[k]}
  <2>1. CASE n \in Within(g, Starts(g))[query.depth]
    <3>1. query.depth \in T /\ T \in SUBSET Nat
      BY <2>1, InputsAre
    <3>2. Distance(g, Starts(g), n) = Min(T)
      BY <2>1 DEF Distance
    <3>. HIDE DEF T
    <3>3. \E k \in T : \A j \in T : k <= j
      BY <3>1, LeastNumber
    <3>4. Min(T) \in T
      BY <3>3 DEF Min
    <3>. QED BY <3>1, <3>2, <3>4
  <2>2. CASE n \notin Within(g, Starts(g))[query.depth]
    BY <2>2 DEF Distance
  <2>. QED BY <2>1, <2>2
<1>. DEFINE p == Phase(g, n)
            d == Distance(g, Starts(g), n)
<1>4. Rank(g, n) = <<p, manifest.authority[n], d, 100 - query.score[n], manifest.level[n], n>>
  BY DEF Rank
<1>. HIDE DEF p, d
<1>. QED BY <1>1, <1>2, <1>3, <1>4 DEF p, d

\* Every node has its place in rank order.
LEMMA RankedPlaced ==
  ASSUME Inputs, NEW g, NEW S \in SUBSET manifest.sources
  PROVE  /\ Cardinality(S) \in Nat
         /\ Ranked(g, S) \in [1..Cardinality(S) -> S]
         /\ \A n \in S : \E i \in 1..Cardinality(S) : Ranked(g, S)[i] = n
<1>. DEFINE r == [n \in S |-> Rank(g, n)]
            R == {p \in S \X S : Before(r, p[1], p[2])}
<1>0. IsFiniteSet(S)
  BY InputsAre, FS_Subset
<1>1. Strict(R, S)
  <2>1. \A n \in S : r[n] \in [1..6 -> Int] /\ r[n][6] = n
    BY RankIsNumbers
  <2>. HIDE DEF r
  <2>. QED BY <2>1, RanksOrdered
<1>2. \A x, n \in S : RankedBefore(g, x, n) <=> <<x, n>> \in R
  BY DEF RankedBefore, Before
<1>. HIDE DEF R
<1>3. \A n \in S : {x \in S : RankedBefore(g, x, n)} = Below(R, S, n)
  BY <1>2 DEF Below
<1>4. ASSUME NEW i \in 1..Cardinality(S)
      PROVE  Ranked(g, S)[i] = PlacedBy(R, S)[i]
  <2>1. \A n \in S : (Cardinality({x \in S : RankedBefore(g, x, n)}) = i - 1)
                       <=> (Cardinality(Below(R, S, n)) = i - 1)
    BY <1>3
  <2>2. (CHOOSE n \in S : Cardinality({x \in S : RankedBefore(g, x, n)}) = i - 1)
                 = (CHOOSE n \in S : Cardinality(Below(R, S, n)) = i - 1)
    BY <2>1
  <2>. QED BY <2>2 DEF Ranked, PlacedBy
<1>5. Ranked(g, S) = PlacedBy(R, S)
  BY <1>4 DEF Ranked, PlacedBy
<1>. QED BY <1>0, <1>1, <1>5, PlacedIs

\* The texts of a snapshot fit together, so the compactor keeps them all.
LEMMA ExtractsAreAll ==
  ASSUME Inputs, NEW s, s.nodes \in SUBSET manifest.sources, Mandatory(s) \subseteq s.nodes,
         Bytes(s.nodes) <= query.budget
  PROVE  Extracts(s) = s.nodes
<1>. DEFINE M == Mandatory(s)
            L == s.nodes \ M
            U == s.nodes
            o == Ranked(graph[1], M) \o Ranked(graph[1], L)
            m == Len(o)
            X == SUBSET U
            Op(x, i) == IF Bytes(x \cup {o[i]}) > query.budget THEN x ELSE x \cup {o[i]}
            F == [i \in 1..m |-> [x \in X |-> Op(x, i)]]
            Q(g) == g = [z \in SUBSET (DOMAIN o) |->
                           IF z = {} THEN {} ELSE LET i == Max(z) IN Op(g[z \ {i}], i)]
<1>1. Extracts(s) = (CHOOSE g : Q(g))[DOMAIN o]
  BY DEF Extracts, Ranked, FoldLeft, MapThenFoldSet
<1>2. /\ o \in Seq(U) /\ m \in Nat /\ DOMAIN o = 1..m /\ \A i \in 1..m : o[i] \in U
      /\ \A n \in U : \E i \in 1..m : o[i] = n
  <2>. DEFINE a == Ranked(graph[1], M)
              c == Ranked(graph[1], L)
              A == Cardinality(M)
              C == Cardinality(L)
  <2>1. M \in SUBSET manifest.sources /\ L \in SUBSET manifest.sources /\ U = M \cup L
    OBVIOUS
  <2>. HIDE DEF M, L
  <2>2. PICK k : k = graph[1]
    OBVIOUS
  <2>3. \A S \in SUBSET manifest.sources :
              /\ Cardinality(S) \in Nat
              /\ Ranked(k, S) \in [1..Cardinality(S) -> S]
              /\ \A n \in S : \E i \in 1..Cardinality(S) : Ranked(k, S)[i] = n
    BY RankedPlaced
  <2>4. a = Ranked(k, M) /\ c = Ranked(k, L) /\ o = a \o c
    BY <2>2
  <2>. HIDE DEF a, c, o
  <2>5. /\ A \in Nat /\ C \in Nat /\ a \in [1..A -> M] /\ c \in [1..C -> L]
        /\ \A n \in M : \E i \in 1..A : a[i] = n
        /\ \A n \in L : \E i \in 1..C : c[i] = n
    BY <2>1, <2>3, <2>4
  <2>. HIDE DEF A, C, U
  <2>6. a \in Seq(U) /\ c \in Seq(U) /\ Len(a) = A /\ Len(c) = C
    BY <2>1, <2>5
  <2>7. /\ o \in Seq(U) /\ m = A + C /\ DOMAIN o = 1..m
        /\ \A i \in 1..m : o[i] = IF i <= A THEN a[i] ELSE c[i - A]
    <3>1. o \in Seq(U) /\ Len(o) = A + C
      BY <2>4, <2>6
    <3>2. \A i \in 1..(A + C) : o[i] = IF i <= A THEN a[i] ELSE c[i - A]
      <4>. SUFFICES ASSUME NEW i \in 1..(A + C)
                    PROVE  (a \o c)[i] = IF i <= A THEN a[i] ELSE c[i - A]
        BY <2>4
      <4>1. i \in 1..(Len(a) + Len(c))
        BY <2>6
      <4>2. (a \o c)[i] = IF i <= Len(a) THEN a[i] ELSE c[i - Len(a)]
        BY <2>6, <4>1
      <4>. QED BY <2>6, <4>2
    <3>. QED BY <3>1, <3>2
  <2>. HIDE DEF m
  <2>8. \A i \in 1..m : o[i] \in U
    BY <2>7
  <2>9. \A n \in M : \E i \in 1..m : o[i] = n
    <3>. TAKE n \in M
    <3>1. PICK i \in 1..A : a[i] = n
      BY <2>5
    <3>2. i \in 1..m /\ o[i] = n
      BY <2>5, <2>7, <3>1
    <3>. QED BY <3>2
  <2>10. \A n \in L : \E i \in 1..m : o[i] = n
    <3>. TAKE n \in L
    <3>1. PICK i \in 1..C : c[i] = n
      BY <2>5
    <3>2. A + i \in 1..m /\ ~(A + i <= A) /\ (A + i) - A = i
      BY <2>5, <2>7
    <3>3. o[A + i] = n
      BY <2>7, <3>1, <3>2
    <3>. QED BY <3>2, <3>3
  <2>. QED BY <2>1, <2>5, <2>7, <2>8, <2>9, <2>10
<1>. HIDE DEF o, m
<1>3. \A x \in X : \A i \in 1..m : Op(x, i) = x \cup {o[i]} /\ Op(x, i) \in X
  <2>. TAKE x \in X
  <2>. TAKE i \in 1..m
  <2>1. x \cup {o[i]} \in SUBSET U
    BY <1>2
  <2>. DEFINE y == x \cup {o[i]}
  <2>2. IsFiniteSet(U) /\ IsFiniteSet(y) /\ y \in SUBSET manifest.sources
        /\ \A n \in U : manifest.size[n] \in Nat
    BY <2>1, InputsAre, FS_Subset
  <2>. HIDE DEF y
  <2>3. Bytes(y) <= Bytes(U)
    <3>1. y \in SUBSET U
      BY <2>1 DEF y
    <3>2. Total(manifest.size, y) <= Total(manifest.size, U)
      BY <2>2, <3>1, TotalOfPart
    <3>. QED BY <2>2, <3>2, BytesAre
  <2>4. Bytes(y) \in Nat /\ Bytes(U) \in Nat
    BY <2>2, CostsAre
  <2>5. ~(Bytes(y) > query.budget)
    BY <2>3, <2>4, InputsAre
  <2>. QED BY <2>1, <2>5 DEF y
<1>. HIDE DEF Op
<1>4. \E g : Q(g)
  <2>1. \A i \in 1..m : \A x \in X : F[i][x] = Op(x, i) /\ F[i][x] \in X
    BY <1>3
  <2>2. {} \in X
    OBVIOUS
  <2>. HIDE DEF F, X
  <2>2a. m \in Nat /\ {} \in X /\ \A i \in 1..m : \A x \in X : F[i][x] \in X
    BY <1>2, <2>1, <2>2
  <2>3. PICK g \in [SUBSET (1..m) -> X] : FoldsTo(g, F, {}, m)
    BY <2>2a, FoldsExist
  <2>3a. g \in [SUBSET (1..m) -> X] /\ g = [z \in SUBSET (1..m) |-> FoldStep(g, F, {}, z)]
    BY <2>3 DEF FoldsTo
  <2>4. ASSUME NEW z \in SUBSET (1..m)
        PROVE  FoldStep(g, F, {}, z) = (IF z = {} THEN {} ELSE LET i == Max(z) IN Op(g[z \ {i}], i))
    <3>1. CASE z # {}
      <4>1. LastOf(z) \in 1..m /\ Max(z) = LastOf(z)
        BY <1>2, <3>1, LastIn
      <4>2. g[z \ {LastOf(z)}] \in X
        BY <2>3a
      <4>. QED BY <2>1, <3>1, <4>1, <4>2 DEF FoldStep
    <3>. QED BY <3>1 DEF FoldStep
  <2>5. [z \in SUBSET (1..m) |-> FoldStep(g, F, {}, z)]
      = [z \in SUBSET (1..m) |-> IF z = {} THEN {} ELSE LET i == Max(z) IN Op(g[z \ {i}], i)]
    BY <2>4
  <2>6. Q(g)
    BY <1>2, <2>3a, <2>5
  <2>. HIDE DEF Q
  <2>. QED BY <2>6
<1>. DEFINE g == CHOOSE g : Q(g)
            P == [z \in SUBSET (1..m) |-> {{o[i] : i \in z}}]
<1>5. Q(g)
  <2>. HIDE DEF Q
  <2>. QED BY <1>4
<1>. HIDE DEF g
<1>6. g[{}] \in P[{}]
  BY <1>2, <1>5
<1>7. ASSUME NEW z \in SUBSET (1..m), z # {}, g[z \ {LastOf(z)}] \in P[z \ {LastOf(z)}]
      PROVE  g[z] \in P[z]
  <2>. DEFINE l == LastOf(z)
              y == z \ {l}
  <2>1. l \in z /\ l \in 1..m /\ Max(z) = l
    BY <1>2, <1>7, LastIn
  <2>2. g[z] = Op(g[y], l)
    BY <1>2, <1>5, <1>7, <2>1
  <2>3. g[y] = {o[i] : i \in y}
    BY <1>7
  <2>. HIDE DEF l
  <2>4. g[y] \in X
    BY <1>2, <2>3
  <2>5. g[z] = {o[i] : i \in y} \cup {o[l]}
    BY <1>3, <2>1, <2>2, <2>3, <2>4
  <2>6. {o[i] : i \in y} \cup {o[l]} = {o[i] : i \in z}
    BY <2>1
  <2>. QED BY <2>5, <2>6
<1>8. g[1..m] \in P[1..m]
  <2>. HIDE DEF P, Q
  <2>. QED BY <1>2, <1>6, <1>7, FoldHolds
<1>9. g[1..m] = {o[i] : i \in 1..m}
  BY <1>8
<1>10. {o[i] : i \in 1..m} = U
  BY <1>2
<1>. QED BY <1>1, <1>2, <1>9, <1>10 DEF g

-----------------------------------------------------------------------------
\* What every context holds.

\* An artifact made of a graph keeps what is required, both sides of each
\* contradiction or neither, and to the limits of the query.
Holds(g, x) ==
  /\ x.nodes \in SUBSET g.nodes /\ Directly(g) \subseteq x.nodes
  /\ Whole(g.contradicts, x.nodes) /\ x.unresolved = Among(g.contradicts, x.nodes)
  /\ x.used <= query.budget /\ Cardinality(x.nodes) <= query.nodes
  /\ \A n \in x.nodes : manifest.level[n] <= x.level /\ manifest.level[n] <= query.clearance

\* Selectable, with the costs as sums of the manifest's sizes.
Affordable(g) ==
  /\ Directly(g) \subseteq g.nodes
  /\ RequiredNodes(g) \subseteq EligibleNodes(g)
  /\ Cardinality(RequiredNodes(g)) <= query.nodes
  /\ Total(Costs, RequiredNodes(g)) + EdgeCost * Cardinality(Induced(g, RequiredNodes(g)))
       <= query.budget

\* The inductive invariant: what each artifact on file says of the graph and the inputs.
ContextInv ==
  /\ Inputs
  /\ graph # <<>> => GraphIs(graph[1])
  /\ selection # <<>> => graph # <<>> /\ Affordable(graph[1])
  /\ snapshot # <<>> =>
       /\ selection # <<>> /\ Holds(graph[1], snapshot[1]) /\ snapshot[1].level \in Nat
       /\ Total(manifest.size, snapshot[1].nodes) <= query.budget
  /\ compaction # <<>> => snapshot # <<>> /\ Holds(graph[1], compaction[1])
  /\ report # <<>> => report[1].recall = 100 /\ report[1].violations = 0

\* A graph that can be selected from is one that can be afforded.
LEMMA AffordableIs ==
  ASSUME Inputs, NEW g, GraphIs(g)
  PROVE  Affordable(g) <=> Selectable(g)
<1>1. ASSUME RequiredNodes(g) \subseteq EligibleNodes(g)
      PROVE  Cost(g, RequiredNodes(g))
               = Total(Costs, RequiredNodes(g)) + EdgeCost * Cardinality(Induced(g, RequiredNodes(g)))
  <2>1. RequiredNodes(g) \in SUBSET manifest.sources
    BY <1>1, GraphIsFinite DEF GraphIs
  <2>2. MapThenSumSet(NodeCost, RequiredNodes(g)) = Total(Costs, RequiredNodes(g))
    BY <2>1, CostsAre
  <2>. QED BY <2>2 DEF Cost
<1>. QED BY <1>1 DEF Affordable, Selectable

\* An eligible node is within the clearance.
LEMMA EligibleLevels ==
  ASSUME Inputs, NEW g, GraphIs(g), NEW n \in EligibleNodes(g)
  PROVE  manifest.level[n] <= query.clearance
<1>1. n \in manifest.sources /\ Problem(n) = ""
  BY DEF EligibleNodes, GraphIs
<1>2. ~(manifest.level[n] > query.clearance)
  BY <1>1 DEF Problem
<1>3. manifest.level[n] \in Nat /\ query.clearance \in Nat
  BY <1>1, InputsAre
<1>. QED BY <1>2, <1>3

\* The Selection of a graph holds what it should.
LEMMA SelectorHolds ==
  ASSUME Inputs, NEW g, GraphIs(g), Affordable(g)
  PROVE  LET s == SelectionOf(g)
         IN  /\ Holds(g, s) /\ s.nodes \subseteq EligibleNodes(g)
             /\ DOMAIN s.excluded = g.nodes \ s.nodes
<1>. DEFINE s == SelectionOf(g)
<1>1. /\ s.nodes \in Takes(g)
      /\ s.unresolved = Among(g.contradicts, s.nodes) /\ s.level = Levels(s.nodes)
      /\ s.used = Cost(g, s.nodes) /\ DOMAIN s.excluded = g.nodes \ s.nodes
  BY AffordableIs, SelectionKeeps
<1>. HIDE DEF s
<1>2. /\ s.nodes \in SUBSET EligibleNodes(g) /\ RequiredNodes(g) \subseteq s.nodes
      /\ Whole(g.contradicts, s.nodes) /\ Cardinality(s.nodes) <= query.nodes
      /\ s.used <= query.budget
  BY <1>1 DEF Takes
<1>3. s.nodes \in SUBSET g.nodes /\ s.nodes \in SUBSET manifest.sources
  BY <1>2, GraphIsFinite DEF GraphIs
<1>4. Directly(g) \subseteq RequiredNodes(g)
  BY GraphIsFinite, ComponentIsWhole DEF RequiredNodes
<1>5. \A n \in s.nodes : manifest.level[n] <= s.level
  BY <1>1, <1>3, LevelsAre
<1>6. \A n \in s.nodes : manifest.level[n] <= query.clearance
  BY <1>2, EligibleLevels
<1>7. Holds(g, s)
  BY <1>1, <1>2, <1>3, <1>4, <1>5, <1>6 DEF Holds
<1>. QED BY <1>1, <1>2, <1>7 DEF s

\* Nothing is published at first.
LEMMA ContextBegins == ContextInit => ContextInv
BY DEF ContextInit, ContextInv, Inputs

\* What is read of inputs and graph does not change with them.
LEMMA ContextStays ==
  ASSUME UNCHANGED <<manifest, query>>, NEW CONSTANT g, NEW CONSTANT x
  PROVE  /\ Inputs' <=> Inputs
         /\ GraphIs(g)' <=> GraphIs(g)
         /\ Holds(g, x)' <=> Holds(g, x)
         /\ Affordable(g)' <=> Affordable(g)
<1>1. Inputs' <=> Inputs
  BY DEF Inputs, ManifestLoads, EdgesLoad, Ascending
<1>2. GraphIs(g)' <=> GraphIs(g)
  BY DEF GraphIs
<1>3. Directly(g)' = Directly(g)
  BY DEF Directly
<1>4. Holds(g, x)' <=> Holds(g, x)
  BY <1>3 DEF Holds
<1>5. EligibleNodes(g)' = EligibleNodes(g) /\ RequiredNodes(g)' = RequiredNodes(g) /\ Costs' = Costs
  BY <1>3 DEF EligibleNodes, Problem, RequiredNodes, Costs
<1>6. Affordable(g)' <=> Affordable(g)
  BY <1>3, <1>5 DEF Affordable
<1>. QED BY <1>1, <1>2, <1>4, <1>6

\* The snapshot of a Selection: what cannot be read leaves with all that
\* contradicts it, and nothing required may leave.
LEMMA SnapshotHolds ==
  ASSUME Inputs, NEW g, GraphIs(g), Affordable(g), NEW s, s = SelectionOf(g),
         NEW failed, NEW lost, lost = Lost(s, failed), lost \cap Directly(g) = {},
         NEW x, x.nodes = s.nodes \ lost, x.unresolved = Among(s.unresolved, x.nodes),
         x.level = Levels(x.nodes), SnapshotLoads(x), x.edges = Among(s.edges, x.nodes)
  PROVE  Holds(g, x) /\ x.level \in Nat /\ Total(manifest.size, x.nodes) <= query.budget
<1>1. Holds(g, s) /\ s.nodes \subseteq EligibleNodes(g)
  BY SelectorHolds
<1>2. x.nodes \in SUBSET s.nodes /\ x.nodes \in SUBSET g.nodes /\ x.nodes \in SUBSET manifest.sources
  BY <1>1 DEF Holds, GraphIs
<1>3. Directly(g) \subseteq x.nodes /\ Canonical \in x.nodes
  BY <1>1, InputsAre DEF Holds, Directly, GraphIs
<1>4. IsFiniteSet(s.unresolved) /\ s.unresolved = Among(g.contradicts, s.nodes)
  BY <1>1, GraphIsFinite, FS_Subset DEF Holds, Among
<1>5. Whole(s.unresolved, lost)
  BY <1>4, ComponentIsWhole DEF Lost
<1>6. Whole(g.contradicts, x.nodes)
  <2>. SUFFICES ASSUME NEW e \in g.contradicts
                PROVE  e[1] \in x.nodes <=> e[2] \in x.nodes
    BY DEF Whole
  <2>1. e[1] \in s.nodes <=> e[2] \in s.nodes
    BY <1>1 DEF Holds, Whole
  <2>2. e[1] \in s.nodes => e \in s.unresolved
    BY <1>4, <2>1 DEF Among
  <2>. QED BY <1>5, <2>1, <2>2 DEF Whole
<1>7. x.unresolved = Among(g.contradicts, x.nodes)
  BY <1>2, <1>4 DEF Among
<1>8. Cardinality(x.nodes) <= query.nodes
  <2>1. IsFiniteSet(s.nodes)
    BY <1>1, GraphIsFinite, FS_Subset DEF Holds
  <2>2. Cardinality(x.nodes) <= Cardinality(s.nodes) /\ Cardinality(s.nodes) <= query.nodes
    BY <1>1, <1>2, <2>1, FS_Subset DEF Holds
  <2>3. Cardinality(x.nodes) \in Nat /\ Cardinality(s.nodes) \in Nat
    BY <1>2, <2>1, FS_Subset, FS_CardinalityType
  <2>. QED BY <2>2, <2>3, InputsAre
<1>9. x.level \in Nat /\ \A n \in x.nodes : manifest.level[n] <= x.level
  BY <1>2, <1>3, LevelsAre
<1>10. \A n \in x.nodes : manifest.level[n] <= query.clearance
  BY <1>1, <1>2, EligibleLevels
<1>11. x.used <= query.budget /\ Total(manifest.size, x.nodes) <= query.budget
  <2>1. /\ x.used <= query.budget
        /\ x.used = MapThenSumSet(NodeCost, x.nodes) + EdgeCost * Cardinality(x.edges)
    BY DEF SnapshotLoads
  <2>2. /\ Total(Costs, x.nodes) \in Nat /\ Bytes(x.nodes) \in Nat
        /\ Bytes(x.nodes) <= MapThenSumSet(NodeCost, x.nodes)
        /\ MapThenSumSet(NodeCost, x.nodes) = Total(Costs, x.nodes)
    BY <1>2, CostsAre
  <2>3. Bytes(x.nodes) = Total(manifest.size, x.nodes)
    BY <1>2, InputsAre, FS_Subset, BytesAre
  <2>4. EdgeCost * Cardinality(x.edges) \in Nat
    <3>1. IsFiniteSet(x.edges)
      <4>1. s.edges = Among(g.refs, s.nodes) \cup Among(g.contradicts, s.nodes)
        BY AffordableIs, SelectionKeeps DEF Induced
      <4>2. IsFiniteSet(g.refs \cup g.contradicts)
        BY GraphIsFinite, FS_Union
      <4>3. x.edges \in SUBSET (g.refs \cup g.contradicts)
        BY <4>1 DEF Among
      <4>. QED BY <4>2, <4>3, FS_Subset
    <3>2. Cardinality(x.edges) \in Nat /\ EdgeCost \in Nat
      BY <3>1, InputsAre, FS_CardinalityType
    <3>. QED BY <3>2
  <2>. QED BY <2>1, <2>2, <2>3, <2>4, InputsAre
<1>. QED BY <1>2, <1>3, <1>6, <1>7, <1>8, <1>9, <1>10, <1>11 DEF Holds

\* ContextIndexer: the graph has the required sources.
LEMMA IndexKeeps == ContextInv /\ Index => ContextInv'
<1>. SUFFICES ASSUME ContextInv, Index
              PROVE  ContextInv'
  OBVIOUS
<1>1. graph = <<>> /\ UNCHANGED <<manifest, query, head, selection, snapshot, compaction, report>>
  BY DEF Index
<1>2. selection = <<>> /\ snapshot = <<>> /\ compaction = <<>> /\ Inputs
  BY <1>1 DEF ContextInv
<1>3. PICK readable \in SUBSET manifest.sources :
        /\ graph' = <<[nodes |-> Fit(readable), excluded |-> manifest.sources \ Fit(readable),
                       contradicts |-> Among(manifest.contradicts, Fit(readable)),
                       refs |-> Among(manifest.refs, Fit(readable)),
                       level |-> Levels(Fit(readable))]>>
        /\ GraphLoads(graph'[1])
  BY DEF Index
<1>4. GraphIs(graph'[1])
  <2>1. Fit(readable) \in SUBSET manifest.sources
    BY <1>2, FitIsReadable
  <2>2. Canonical \in graph'[1].nodes
    BY <1>3 DEF GraphLoads
  <2>3. /\ graph'[1].nodes = Fit(readable)
        /\ graph'[1].contradicts = Among(manifest.contradicts, Fit(readable))
        /\ graph'[1].refs = Among(manifest.refs, Fit(readable))
    BY <1>3
  <2>. QED BY <2>1, <2>2, <2>3 DEF GraphIs
<1>5. PICK g : g = graph'[1]
  OBVIOUS
<1>6. GraphIs(g)' /\ Inputs'
  BY <1>1, <1>2, <1>4, <1>5, ContextStays
<1>7. GraphIs(graph[1])'
  BY <1>5, <1>6 DEF GraphIs
<1>. QED BY <1>1, <1>2, <1>6, <1>7 DEF ContextInv

\* A step that leaves inputs and graph alone keeps what was said of them and of
\* the artifacts it leaves alone.
LEMMA ContextRemains ==
  ASSUME ContextInv, UNCHANGED <<manifest, query, graph>>
  PROVE  /\ Inputs' /\ (graph' # <<>> => GraphIs(graph[1])')
         /\ Affordable(graph[1])' <=> Affordable(graph[1])
         /\ \A x : Holds(graph[1], x)' <=> Holds(graph[1], x)
<1>1. PICK g : g = graph[1] /\ g = graph'[1]
  OBVIOUS
<1>2. /\ Inputs' /\ (GraphIs(g)' <=> GraphIs(g)) /\ (Affordable(g)' <=> Affordable(g))
      /\ \A x : Holds(g, x)' <=> Holds(g, x)
  BY ContextStays DEF ContextInv
<1>. QED BY <1>1, <1>2 DEF ContextInv

\* ContextSelector.select: what is required was affordable.
LEMMA SelectKeeps == ContextInv /\ Select => ContextInv'
<1>. SUFFICES ASSUME ContextInv, Select
              PROVE  ContextInv'
  OBVIOUS
<1>1. /\ graph # <<>> /\ selection = <<>> /\ selection' # <<>> /\ ~SelectionStops(graph[1])
      /\ UNCHANGED <<manifest, query, head, graph, snapshot, compaction, report>>
  BY DEF Select
<1>2. snapshot = <<>> /\ compaction = <<>> /\ Inputs /\ GraphIs(graph[1])
  BY <1>1 DEF ContextInv
<1>3. PICK g : g = graph[1]
  OBVIOUS
<1>4. Affordable(g)
  <2>1. /\ Directly(g) \subseteq g.nodes /\ RequiredNodes(g) \subseteq EligibleNodes(g)
        /\ ~(Cardinality(RequiredNodes(g)) > query.nodes)
        /\ ~(Cost(g, RequiredNodes(g)) > query.budget)
    BY <1>1, <1>3 DEF SelectionStops
  <2>. DEFINE r == RequiredNodes(g)
              i == Induced(g, r)
  <2>2. r \in SUBSET manifest.sources /\ IsFiniteSet(r) /\ IsFiniteSet(i)
    <3>1. r \in SUBSET manifest.sources
      BY <1>2, <1>3, <2>1, GraphIsFinite DEF GraphIs
    <3>2. IsFiniteSet(g.refs \cup g.contradicts)
      BY <1>2, <1>3, GraphIsFinite, FS_Union
    <3>3. i \in SUBSET (g.refs \cup g.contradicts)
      BY DEF Induced, Among
    <3>. HIDE DEF i
    <3>. QED BY <1>2, <3>1, <3>2, <3>3, InputsAre, FS_Subset
  <2>3. Cardinality(r) \in Nat /\ Cardinality(i) \in Nat
    BY <2>2, FS_CardinalityType
  <2>4. Cost(g, r) = Total(Costs, r) + EdgeCost * Cardinality(i) /\ Total(Costs, r) \in Nat
    BY <1>2, <2>2, CostsAre DEF Cost
  <2>5. ~(Cardinality(r) > query.nodes) /\ ~(Cost(g, r) > query.budget)
    BY <2>1
  <2>. HIDE DEF r, i
  <2>6. Cardinality(r) <= query.nodes /\ Total(Costs, r) + EdgeCost * Cardinality(i) <= query.budget
    <3>1. PICK k : k = EdgeCost * Cardinality(i)
      OBVIOUS
    <3>2. PICK c : c = Cost(g, r)
      OBVIOUS
    <3>3. k \in Nat
      BY <1>2, <2>3, <3>1, InputsAre
    <3>4. query.nodes \in Nat /\ query.budget \in Nat
      BY <1>2, InputsAre
    <3>5. Cardinality(r) <= query.nodes
      BY <2>3, <2>5, <3>4
    <3>6. c = Total(Costs, r) + k /\ ~(c > query.budget)
      BY <2>4, <2>5, <3>1, <3>2
    <3>7. Total(Costs, r) + k <= query.budget
      BY <2>4, <3>3, <3>4, <3>6
    <3>. QED BY <3>1, <3>5, <3>7
  <2>. QED BY <2>1, <2>6 DEF Affordable, r, i
<1>5. Inputs' /\ GraphIs(graph[1])' /\ Affordable(graph[1])'
  BY <1>1, <1>3, <1>4, ContextRemains
<1>. QED BY <1>1, <1>2, <1>5 DEF ContextInv

\* An edited selection is not the selector's, and what is required stays affordable.
LEMMA EditSelectionKeeps == ContextInv /\ EditSelection => ContextInv'
<1>. SUFFICES ASSUME ContextInv, EditSelection
              PROVE  ContextInv'
  OBVIOUS
<1>1. /\ selection # <<>> /\ selection' # <<>> /\ snapshot = <<>>
      /\ UNCHANGED <<manifest, query, head, graph, snapshot, compaction, report>>
  BY DEF EditSelection
<1>2. compaction = <<>> /\ graph # <<>> /\ Affordable(graph[1])
  BY <1>1 DEF ContextInv
<1>3. Inputs' /\ GraphIs(graph[1])' /\ Affordable(graph[1])'
  BY <1>1, <1>2, ContextRemains
<1>. QED BY <1>1, <1>2, <1>3 DEF ContextInv

\* ContextSnapshotService: what was lost leaves with its contradictions.
LEMMA SnapshotKeeps == ContextInv /\ Snapshot => ContextInv'
<1>. SUFFICES ASSUME ContextInv, Snapshot
              PROVE  ContextInv'
  OBVIOUS
<1>1. /\ selection # <<>> /\ snapshot = <<>> /\ ExactSelection(selection[1])
      /\ UNCHANGED <<manifest, query, head, graph, selection, compaction, report>>
  BY DEF Snapshot
<1>2. Inputs /\ graph # <<>> /\ GraphIs(graph[1]) /\ Affordable(graph[1]) /\ compaction = <<>>
  BY <1>1 DEF ContextInv
<1>3. PICK g : g = graph[1]
  OBVIOUS
<1>4. PICK s : s = selection[1]
  OBVIOUS
<1>5. s = SelectionOf(g)
  BY <1>1, <1>3, <1>4 DEF ExactSelection
<1>6. PICK readable \in SUBSET s.nodes :
        LET lost == Lost(s, s.nodes \ readable)
            kept == s.nodes \ lost
        IN  /\ lost \cap Directly(g) = {}
            /\ snapshot' = <<[nodes |-> kept, edges |-> Among(s.edges, kept),
                              unresolved |-> Among(s.unresolved, kept),
                              excluded |-> g.nodes \ kept,
                              level |-> Levels(kept), used |-> Cost(g, kept)]>>
            /\ SnapshotLoads(snapshot'[1])
  BY <1>3, <1>4 DEF Snapshot
<1>7. PICK failed : failed = s.nodes \ readable
  OBVIOUS
<1>8. PICK lost : lost = Lost(s, failed)
  OBVIOUS
<1>9. PICK x : x = snapshot'[1]
  OBVIOUS
<1>10. /\ lost \cap Directly(g) = {} /\ SnapshotLoads(x)
       /\ x.nodes = s.nodes \ lost /\ x.edges = Among(s.edges, x.nodes)
       /\ x.unresolved = Among(s.unresolved, x.nodes) /\ x.level = Levels(x.nodes)
       /\ snapshot' # <<>>
  BY <1>6, <1>7, <1>8, <1>9
<1>11. Holds(g, x) /\ x.level \in Nat /\ Total(manifest.size, x.nodes) <= query.budget
  <2>1. Inputs /\ GraphIs(g) /\ Affordable(g)
    BY <1>2, <1>3
  <2>2. /\ lost \cap Directly(g) = {} /\ SnapshotLoads(x)
        /\ x.nodes = s.nodes \ lost /\ x.edges = Among(s.edges, x.nodes)
        /\ x.unresolved = Among(s.unresolved, x.nodes) /\ x.level = Levels(x.nodes)
    BY <1>10
  <2>. QED BY <1>5, <1>8, <2>1, <2>2, SnapshotHolds, Zenon
<1>12. Inputs' /\ GraphIs(graph[1])' /\ Affordable(graph[1])' /\ Holds(graph[1], x)'
  BY <1>1, <1>2, <1>3, <1>11, ContextRemains
<1>13. Holds(graph[1], snapshot[1])'
  BY <1>9, <1>12
<1>. QED BY <1>1, <1>2, <1>9, <1>10, <1>11, <1>12, <1>13 DEF ContextInv

\* ContextCompactor: the texts of a snapshot fit in its budget, so all are kept.
LEMMA CompactKeeps == ContextInv /\ Compact => ContextInv'
<1>. SUFFICES ASSUME ContextInv, Compact
              PROVE  ContextInv'
  OBVIOUS
<1>1. /\ snapshot # <<>> /\ compaction = <<>>
      /\ UNCHANGED <<manifest, query, head, graph, selection, snapshot, report>>
  BY DEF Compact
<1>2. /\ Inputs /\ graph # <<>> /\ GraphIs(graph[1]) /\ selection # <<>>
      /\ Affordable(graph[1])
      /\ Holds(graph[1], snapshot[1]) /\ Total(manifest.size, snapshot[1].nodes) <= query.budget
  BY <1>1 DEF ContextInv
<1>3. PICK g : g = graph[1]
  OBVIOUS
<1>4. PICK s : s = snapshot[1]
  OBVIOUS
<1>5. PICK p \in Proposals :
        /\ compaction' = <<[nodes |-> Extracts(s), omitted |-> s.nodes \ Extracts(s),
                            unresolved |-> s.unresolved, level |-> LevelWith(s, p),
                            used |-> Bytes(Extracts(s))]>>
        /\ CompactionLoads(compaction'[1])
  BY <1>4 DEF Compact
<1>6. PICK x : x = compaction'[1]
  OBVIOUS
<1>7. Holds(g, s) /\ s.nodes \in SUBSET g.nodes /\ s.nodes \in SUBSET manifest.sources
  BY <1>2, <1>3, <1>4 DEF Holds, GraphIs
<1>8. Extracts(s) = s.nodes
  <2>1. Bytes(s.nodes) <= query.budget
    <3>1. IsFiniteSet(s.nodes)
      BY <1>2, <1>7, InputsAre, FS_Subset
    <3>2. Bytes(s.nodes) = Total(manifest.size, s.nodes)
      BY <3>1, BytesAre
    <3>. QED BY <1>2, <1>4, <3>2
  <2>2. Mandatory(s) \subseteq s.nodes
    BY <1>7 DEF Mandatory, Holds, Among
  <2>. QED BY <1>2, <1>7, <2>1, <2>2, ExtractsAreAll
<1>9. /\ x.nodes = s.nodes /\ x.unresolved = s.unresolved /\ compaction' # <<>>
      /\ x.used <= query.budget /\ \A n \in x.nodes : manifest.level[n] <= x.level
  BY <1>5, <1>6, <1>8 DEF CompactionLoads
<1>10. Holds(g, x)
  BY <1>7, <1>9 DEF Holds
<1>11. /\ Inputs' /\ GraphIs(graph[1])' /\ Affordable(graph[1])' /\ Holds(graph[1], x)'
       /\ Holds(graph[1], snapshot[1])'
  <2>1. Holds(graph[1], s)' /\ Holds(graph[1], x)'
    BY <1>1, <1>3, <1>7, <1>10, ContextRemains
  <2>2. Holds(graph[1], snapshot[1])'
    BY <1>1, <1>4, <2>1
  <2>. QED BY <1>1, <1>2, <2>1, <2>2, ContextRemains
<1>12. Holds(graph[1], compaction[1])'
  BY <1>6, <1>11
<1>. QED BY <1>1, <1>2, <1>9, <1>11, <1>12 DEF ContextInv

\* What was said of the artifacts remains while they and the inputs do.
LEMMA ArtifactsRemain ==
  ASSUME ContextInv, UNCHANGED <<manifest, query, graph, selection, snapshot, compaction>>,
         report' # <<>> => report'[1].recall = 100 /\ report'[1].violations = 0
  PROVE  ContextInv'
<1>1. PICK s : s = snapshot[1]
  OBVIOUS
<1>2. PICK c : c = compaction[1]
  OBVIOUS
<1>3. /\ Holds(graph[1], s)' <=> Holds(graph[1], s)
      /\ Holds(graph[1], c)' <=> Holds(graph[1], c)
  BY ContextRemains
<1>4. /\ Holds(graph[1], snapshot[1])' <=> Holds(graph[1], snapshot[1])
      /\ Holds(graph[1], compaction[1])' <=> Holds(graph[1], compaction[1])
  BY <1>1, <1>2, <1>3
<1>5. /\ Inputs' /\ (graph' # <<>> => GraphIs(graph[1])')
      /\ Affordable(graph[1])' <=> Affordable(graph[1])
  BY ContextRemains
<1>. QED BY <1>4, <1>5 DEF ContextInv

\* measure_context_quality: recall is complete and nothing exceeds its level.
LEMMA MeasureKeeps == ContextInv /\ Measure => ContextInv'
<1>. SUFFICES ASSUME ContextInv, Measure
              PROVE  ContextInv'
  OBVIOUS
<1>1. /\ snapshot # <<>>
      /\ UNCHANGED <<manifest, query, head, graph, selection, snapshot, compaction>>
  BY DEF Measure
<1>2. /\ Inputs /\ GraphIs(graph[1]) /\ Holds(graph[1], snapshot[1]) /\ snapshot[1].level \in Nat
  BY <1>1 DEF ContextInv
<1>3. PICK r : r = Directly(graph[1])
  OBVIOUS
<1>4. PICK s : s = snapshot[1]
  OBVIOUS
<1>5. /\ report'[1].recall = (100 * Cardinality(r \cap s.nodes)) \div Cardinality(r)
      /\ report'[1].violations = Cardinality({n \in s.nodes : manifest.level[n] > s.level})
  BY <1>3, <1>4 DEF Measure
<1>6. r \cap s.nodes = r /\ IsFiniteSet(r) /\ r # {} /\ s.nodes \in SUBSET manifest.sources
  <2>1. r \subseteq s.nodes /\ s.nodes \in SUBSET graph[1].nodes
    BY <1>2, <1>3, <1>4 DEF Holds
  <2>2. s.nodes \in SUBSET manifest.sources /\ IsFiniteSet(manifest.sources)
    BY <1>2, <2>1, InputsAre DEF GraphIs
  <2>3. Canonical \in r
    BY <1>2, <1>3, InputsAre DEF Directly, GraphIs
  <2>. QED BY <2>1, <2>2, <2>3, FS_Subset
<1>7. Cardinality(r) \in Nat /\ Cardinality(r) # 0
  BY <1>6, NoElements
<1>8. \A k \in Nat : k # 0 => (100 * k) \div k = 100
  OBVIOUS
<1>9. report'[1].recall = 100
  <2>1. PICK k : k = Cardinality(r)
    OBVIOUS
  <2>2. report'[1].recall = (100 * k) \div k
    BY <1>5, <1>6, <2>1
  <2>. QED BY <1>7, <1>8, <2>1, <2>2
<1>10. {n \in s.nodes : manifest.level[n] > s.level} = {}
  <2>1. \A n \in s.nodes : manifest.level[n] <= s.level /\ manifest.level[n] \in Nat /\ s.level \in Nat
    BY <1>2, <1>4, <1>6, InputsAre DEF Holds
  <2>. QED BY <2>1
<1>11. report'[1].violations = 0
  BY <1>5, <1>10, FS_EmptySet
<1>. QED BY <1>1, <1>9, <1>11, ArtifactsRemain

\* Every step, moves of the repository included.
LEMMA ContextKept == ContextInv /\ [ContextNext]_contextVars => ContextInv'
<1>1. ContextInv /\ (MoveHead \/ UNCHANGED contextVars) => ContextInv'
  <2>. SUFFICES ASSUME ContextInv, MoveHead \/ UNCHANGED contextVars
                PROVE  ContextInv'
    OBVIOUS
  <2>1. UNCHANGED <<manifest, query, graph, selection, snapshot, compaction, report>>
    BY DEF MoveHead, contextVars
  <2>2. report' # <<>> => report'[1].recall = 100 /\ report'[1].violations = 0
    BY <2>1 DEF ContextInv
  <2>. QED BY <2>1, <2>2, ArtifactsRemain
<1>. QED BY <1>1, IndexKeeps, SelectKeeps, EditSelectionKeeps, SnapshotKeeps, CompactKeeps,
            MeasureKeeps DEF ContextNext

\* The invariant says what a context promises.
LEMMA ContextsHold == ContextInv => ContextsWhole
<1>. SUFFICES ASSUME ContextInv
              PROVE  ContextsWhole
  OBVIOUS
<1>1. PICK g : g = graph[1]
  OBVIOUS
<1>2. ASSUME selection # <<>>, ExactSelection(selection[1])
      PROVE  Holds(g, selection[1]) /\ g.nodes = selection[1].nodes \cup DOMAIN selection[1].excluded
  <2>1. Inputs /\ GraphIs(g) /\ Affordable(g) /\ selection[1] = SelectionOf(g)
    BY <1>1, <1>2 DEF ContextInv, ExactSelection
  <2>2. PICK s : s = SelectionOf(g)
    OBVIOUS
  <2>3. Holds(g, s) /\ DOMAIN s.excluded = g.nodes \ s.nodes
    BY <2>1, <2>2, SelectorHolds
  <2>4. g.nodes = s.nodes \cup DOMAIN s.excluded
    BY <2>3 DEF Holds
  <2>. QED BY <2>1, <2>2, <2>3, <2>4
<1>3. \A i \in Standing : Holds(g, Published[i][1])
  <2>. SUFFICES ASSUME NEW i \in Standing
                PROVE  Holds(g, Published[i][1])
    OBVIOUS
  <2>1. /\ i \in {"selection", "snapshot", "compaction"} /\ Published[i] # <<>>
        /\ i = "selection" => ExactSelection(selection[1])
    BY DEF Standing, Published
  <2>2. CASE i = "selection"
    BY <1>2, <2>1, <2>2 DEF Published
  <2>3. CASE i = "snapshot"
    BY <1>1, <2>1, <2>3 DEF Published, ContextInv
  <2>4. CASE i = "compaction"
    BY <1>1, <2>1, <2>4 DEF Published, ContextInv
  <2>. QED BY <2>1, <2>2, <2>3, <2>4
<1>4. ContradictionsWhole
  BY <1>1, <1>3 DEF ContradictionsWhole, Holds, Whole
<1>5. "selection" \in Standing =>
        graph[1].nodes = selection[1].nodes \cup DOMAIN selection[1].excluded
  BY <1>1, <1>2 DEF Standing, Published
<1>6. RequiredKept
  BY <1>1, <1>3, <1>5 DEF RequiredKept, Holds, ContextInv
<1>. QED BY <1>4, <1>6 DEF ContextsWhole

\* For any manifests and queries that load and whatever is lost, edited or
\* moved between the steps: a context holds both sides of a contradiction or
\* neither, everything required, and what it says of itself.
THEOREM ContextsAreWhole == ContextSpec => []ContextsWhole
<1>1. ContextSpec => []ContextInv
  BY ContextBegins, ContextKept, PTL DEF ContextSpec
<1>. QED BY <1>1, ContextsHold, PTL

-----------------------------------------------------------------------------
\* What is read of a Plan does not change with it: a Plan is fixed.

\* What a reader takes from a projection is fixed with the Plan.
LEMMA ReadingsStay ==
  ASSUME plan' = plan, NEW CONSTANT h, NEW CONSTANT tr
  PROVE  /\ Tasks' = Tasks
         /\ Items(h)' = Items(h)
         /\ Completed(h)' = Completed(h)
         /\ AllComplete(h)' = AllComplete(h)
         /\ Ambiguous(h)' = Ambiguous(h)
         /\ Adoptable(h)' = Adoptable(h)
         /\ GatesOf(h, tr)' = GatesOf(h, tr)
         /\ BlockersOf(h, tr)' = BlockersOf(h, tr)
         /\ StatusOf(h, tr)' = StatusOf(h, tr)
<1>1. Tasks' = Tasks
  BY DEF Tasks
<1>2. Completed(h)' = Completed(h) /\ AllComplete(h)' = AllComplete(h)
  BY <1>1 DEF Completed, AllComplete
<1>3. Items(h)' = Items(h)
  BY <1>1, <1>2 DEF Items
<1>4. Ambiguous(h)' = Ambiguous(h)
  BY <1>1 DEF Ambiguous
<1>5. ASSUME NEW CONSTANT type
      PROVE  /\ Of(h, type)' = Of(h, type) /\ Good(h, type)' = Good(h, type)
             /\ One(h, type)' = One(h, type)
  BY <1>3 DEF Of, Good, One
<1>6. Adoptable(h)' = Adoptable(h)
  <2>1. \A s \in Slots : (Cardinality(Of(h, s)) <= 1)' <=> Cardinality(Of(h, s)) <= 1
    BY <1>5
  <2>2. Slots' = Slots
    BY DEF Slots
  <2>. QED BY <1>2, <1>3, <2>1, <2>2 DEF Adoptable, SolverTypes
<1>7. \A g : GateOf(g, h, tr)' = GateOf(g, h, tr)
  BY <1>2, <1>5 DEF GateOf, G2Passes, G3Passes, G4Passes
<1>8. GatesOf(h, tr)' = GatesOf(h, tr)
  BY <1>7 DEF GatesOf
<1>9. BlockersOf(h, tr)' = BlockersOf(h, tr)
  BY <1>1, <1>2, <1>4, <1>7 DEF BlockersOf
<1>10. StatusOf(h, tr)' = StatusOf(h, tr)
  BY <1>1, <1>2, <1>4, <1>9 DEF StatusOf
<1>. QED BY <1>1, <1>2, <1>3, <1>4, <1>6, <1>8, <1>9, <1>10

\* So is the State it derives.
LEMMA StatesStay ==
  ASSUME plan' = plan, NEW CONSTANT n, NEW CONSTANT h, NEW CONSTANT tr,
         NEW CONSTANT causes, NEW CONSTANT cause
  PROVE  /\ Derived(n, h, tr, causes)' = Derived(n, h, tr, causes)
         /\ Closing(n, h, tr, cause)' = Closing(n, h, tr, cause)
<1>1. /\ Tasks' = Tasks /\ Items(h)' = Items(h) /\ Completed(h)' = Completed(h)
      /\ Ambiguous(h)' = Ambiguous(h) /\ GatesOf(h, tr)' = GatesOf(h, tr)
      /\ BlockersOf(h, tr)' = BlockersOf(h, tr) /\ StatusOf(h, tr)' = StatusOf(h, tr)
  BY ReadingsStay
<1>2. Scheduling(h)' = Scheduling(h) /\ Approval(h)' = Approval(h)
  BY <1>1 DEF Scheduling, Approval
<1>3. Adopted(h)' = Adopted(h)
  BY <1>1 DEF Adopted, Of
<1>4. ASSUME NEW CONSTANT c, NEW CONSTANT a
      PROVE  MeasuresOf(h, c, a)' = MeasuresOf(h, c, a)
  <2>1. Recovery(c, a)' = Recovery(c, a)
    OBVIOUS
  <2>. QED BY <1>2, <1>3, <2>1 DEF MeasuresOf
<1>5. ASSUME NEW CONSTANT c
      PROVE  Derived(n, h, tr, c)' = Derived(n, h, tr, c)
  <2>1. \A a : MeasuresOf(h, c, a)' = MeasuresOf(h, c, a)
    BY <1>4
  <2>. QED BY <1>1, <2>1 DEF Derived
<1>6. Closing(n, h, tr, cause)' = Closing(n, h, tr, cause)
  <2>. DEFINE started == <<"GATE_EVALUATED">>
              a == cause = "external-effect-ambiguous"
              m == MeasuresOf(h, started, a)
              d == Derived(n, h, tr, started)
  <2>1. d' = d /\ m' = m
    BY <1>4, <1>5
  <2>2. Closing(n, h, tr, cause) = [d EXCEPT !.status = "BLOCKED", !.blockers = {cause},
                                             !.ambiguous = a, !.measures = m]
    BY DEF Closing
  <2>3. Closing(n, h, tr, cause)' = [d EXCEPT !.status = "BLOCKED", !.blockers = {cause},
                                             !.ambiguous = a, !.measures = m]'
    BY DEF Closing
  <2>. HIDE DEF d, m, a
  <2>. QED BY Zenon, <2>1, <2>2, <2>3
<1>. QED BY <1>5, <1>6

-----------------------------------------------------------------------------
\* What the reader reproduced it reproduces again, after the chain grew, the
\* scheduler went on or the files changed.

\* An entry holds in any chain with the same entries up to it.
LEMMA EntriesKept ==
  ASSUME plan' = plan, NEW CONSTANT c, NEW CONSTANT d, NEW CONSTANT k \in Nat \ {0},
         \A i \in 1..k : d[i] = c[i],
         c[k].event.actor = "finalizer" =>
           history'[c[k].state.native] = history[c[k].state.native],
         EntryHolds(c, k)
  PROVE  EntryHolds(d, k)'
<1>1. Tasks' = Tasks
  BY DEF Tasks
<1>2. d[k] = c[k] /\ (k # 1 => d[k - 1] = c[k - 1])
  OBVIOUS
<1>3. PICK e : e = c[k].event
  OBVIOUS
<1>4. PICK s : s = c[k].state
  OBVIOUS
<1>5. PICK p : p = c[k - 1].state
  OBVIOUS
<1>6. d[k].event = e /\ d[k].state = s /\ (k # 1 => d[k - 1].state = p)
  BY <1>2, <1>3, <1>4, <1>5
<1>7. /\ ProtectedOf(e)' = ProtectedOf(e) /\ ApprovalsOf(e, s)' = ApprovalsOf(e, s)
      /\ Plain(e)' = Plain(e) /\ PriorOf(k)' = PriorOf(k) /\ ClosedCause(e)' = ClosedCause(e)
  BY <1>1 DEF ProtectedOf, ApprovalsOf, Plain, PriorOf, ClosedCause
<1>8. Adopts(d[k].event, d[k].state, k)'
  BY <1>6, <1>3, <1>4 DEF EntryHolds, Adopts
<1>9. Follows(d, k)'
  BY <1>2 DEF EntryHolds, Follows
<1>10. CauseHolds(c, k) => CauseHolds(d, k)'
  <2>. DEFINE codes == UNION {s.tasks[t][2] : t \in Tasks}
  <2>1. codes' = codes
    BY <1>1
  <2>. QED BY <1>1, <1>2, <1>3, <1>4, <1>6, <1>7 DEF CauseHolds
<1>11. FieldsHold(d, k)'
  BY <1>2, <1>3, <1>4, <1>6, <1>7, <1>10 DEF EntryHolds, FieldsHold
<1>12. Plain(d[k].event)' => RegularHolds(d, k)'
  <2>1. Plain(e)' => RegularHolds(c, k)
    BY <1>3, <1>7 DEF EntryHolds
  <2>. QED BY <1>1, <1>2, <1>3, <1>4, <1>6, <1>7, <2>1 DEF RegularHolds
<1>13. e.cause = "RECOVERY_OBSERVED" => RecoveryHolds(d, k)'
  BY <1>2, <1>3, <1>4, <1>6, <1>7 DEF EntryHolds, RecoveryHolds
<1>14. ASSUME e.cause = "PLAN_SUPERSEDED" \/ e.cause = "OUTCOME_PRODUCED"
       PROVE  k # 1
  BY <1>3, <1>14 DEF EntryHolds, FieldsHold, CauseHolds, SupersessionHolds, OutcomeHolds
<1>15. e.cause = "PLAN_SUPERSEDED" => SupersessionHolds(d, k)'
  BY <1>2, <1>3, <1>6, <1>7, <1>14 DEF EntryHolds, SupersessionHolds
<1>16. e.cause = "OUTCOME_PRODUCED" => OutcomeHolds(d, k)'
  BY <1>2, <1>3, <1>6, <1>7, <1>14 DEF EntryHolds, OutcomeHolds
<1>17. e.actor = "finalizer" => ObservationHolds(d, k)'
  <2>. HAVE e.actor = "finalizer"
  <2>1. PICK h : h = history[s.native]
    OBVIOUS
  <2>2. history'[s.native] = h /\ Items(h)' = Items(h)
    BY <1>3, <1>4, <2>1, ReadingsStay
  <2>3. Items(history[s.native])' = Items(history[s.native])
    BY <2>1, <2>2
  <2>. QED BY <1>2, <1>3, <1>4, <1>6, <1>7, <2>3 DEF EntryHolds, ObservationHolds
<1>. QED BY <1>6, <1>8, <1>9, <1>11, <1>12, <1>13, <1>15, <1>16, <1>17 DEF EntryHolds

\* So is its State exact, while the projection it names stays.
LEMMA ExactKept ==
  ASSUME plan' = plan, NEW CONSTANT c, NEW CONSTANT d, NEW CONSTANT k \in Nat \ {0},
         \A i \in 1..k : d[i] = c[i],
         history'[c[k].state.native] = history[c[k].state.native],
         Len(history) \in Nat, Len(history') \in Nat, Len(history) <= Len(history'),
         c[k].state.native \in Nat,
         EntryHolds(c, k), ExactAt(c, k, 0)
  PROVE  ExactAt(d, k, 0)'
<1>1. PICK e : e = c[k].event
  OBVIOUS
<1>2. PICK s : s = c[k].state
  OBVIOUS
<1>3. d[k].event = e /\ d[k].state = s /\ (k # 1 => d[k - 1] = c[k - 1])
  BY <1>1, <1>2
<1>4. PICK h : h = history[s.native]
  OBVIOUS
<1>5. history'[s.native] = h
  BY <1>2, <1>4
<1>6. PICK causes : causes = [i \in 1..k |-> c[i].event.cause]
  OBVIOUS
<1>7. causes = [i \in 1..k |-> d[i].event.cause]
  BY <1>6
<1>8. Resolved(e, s)'
  <2>1. Resolved(e, s)
    BY <1>1, <1>2 DEF ExactAt
  <2>. QED BY <1>2, <1>4, <1>5, <2>1 DEF Resolved, Current
<1>9. Adoptable(h)'
  BY <1>1, <1>2, <1>4, ReadingsStay DEF ExactAt
<1>10. /\ Derived(s.native, h, 0, causes)' = Derived(s.native, h, 0, causes)
       /\ Closing(s.native, h, 0, ClosedCause(e))' = Closing(s.native, h, 0, ClosedCause(e))
  <2>1. PICK n : n = s.native
    OBVIOUS
  <2>2. PICK cause : cause = ClosedCause(e)
    OBVIOUS
  <2>3. ClosedCause(e)' = cause
    BY <2>2 DEF ClosedCause
  <2>4. /\ Derived(n, h, 0, causes)' = Derived(n, h, 0, causes)
        /\ Closing(n, h, 0, cause)' = Closing(n, h, 0, cause)
    BY StatesStay
  <2>. QED BY <2>1, <2>2, <2>3, <2>4
<1>11. e.cause = "PLAN_SUPERSEDED" \/ e.cause = "OUTCOME_PRODUCED" => k # 1
  BY <1>1 DEF EntryHolds, FieldsHold, CauseHolds, SupersessionHolds, OutcomeHolds
<1>12. IF e.cause = "PLAN_SUPERSEDED" THEN s = Superseded(d[k - 1].state)
       ELSE IF e.cause = "OUTCOME_PRODUCED" THEN s = Closed(d[k - 1].state)
       ELSE IF e.actor = "finalizer" THEN s = Closing(s.native, h, 0, ClosedCause(e))
       ELSE s = Derived(s.native, h, 0, causes)
  BY <1>1, <1>2, <1>3, <1>4, <1>6, <1>11 DEF ExactAt
<1>13. (IF e.cause = "PLAN_SUPERSEDED" THEN s = Superseded(d[k - 1].state)
        ELSE IF e.cause = "OUTCOME_PRODUCED" THEN s = Closed(d[k - 1].state)
        ELSE IF e.actor = "finalizer" THEN s = Closing(s.native, h, 0, ClosedCause(e))
        ELSE s = Derived(s.native, h, 0, causes))'
  BY <1>10, <1>12
<1>. QED BY <1>3, <1>5, <1>7, <1>8, <1>9, <1>13 DEF ExactAt

-----------------------------------------------------------------------------
\* The inductive invariant.

Natives == {"READY", "waiting", "RUNNING", "unknown", "COMPLETED", "REJECTED"}
Projections == [state : [Tasks -> Natives], consumed : SUBSET Tasks]
HistoryTyped == history \in Seq(Projections) /\ Len(history) # 0
ChainTyped == \E S : chain \in Seq(S)

\* The scheduler never forgets that an effect is unknown.
Unforgotten ==
  \A i, j \in 1..Current : i <= j /\ Ambiguous(history[i]) => Ambiguous(history[j])
\* Every entry is one the reader reproduces, over the scheduler's history in its order.
Reproduced == \A k \in 1..Len(chain) : EntryHolds(chain, k) /\ ExactAt(chain, k, 0)
InOrder ==
  /\ \A k \in 1..Len(chain) : chain[k].state.native \in 1..Current
  /\ \A j, k \in 1..Len(chain) : j <= k => chain[j].state.native <= chain[k].state.native
\* Terminal entries are made with the Outcome, and only then.
Derives(x) == x.event.actor # "finalizer"
                /\ x.event.cause \notin {"PLAN_SUPERSEDED", "OUTCOME_PRODUCED"}
Open == outcome = <<>> => \A k \in 1..Len(chain) : Derives(chain[k])

Course == HistoryTyped /\ ChainTyped /\ Unforgotten /\ Reproduced /\ InOrder /\ Open

-----------------------------------------------------------------------------
\* Growing a chain by one entry.

\* A sequence and what is appended to it.
LEMMA Grown ==
  ASSUME NEW S, NEW c \in Seq(S), NEW x
  PROVE  /\ Append(c, x) \in Seq(S \cup {x})
         /\ Len(c) \in Nat /\ Len(Append(c, x)) = Len(c) + 1
         /\ \A i \in 1..Len(c) : Append(c, x)[i] = c[i]
         /\ Append(c, x)[Len(c) + 1] = x
<1>1. c \in Seq(S \cup {x}) /\ x \in S \cup {x}
  OBVIOUS
<1>. QED BY <1>1

CausesTo(c, k) == [i \in 1..k |-> c[i].event.cause]

\* The causes of a longer chain.
LEMMA CausesGrow ==
  ASSUME ChainTyped, NEW e, NEW s
  PROVE  /\ Append(Causes, e.cause) = CausesTo(Append(chain, Entry(e, s)), Len(chain) + 1)
         /\ Len(Append(Causes, e.cause)) = Len(chain) + 1
<1>1. PICK S : chain \in Seq(S)
  BY DEF ChainTyped
<1>. DEFINE d == Append(chain, Entry(e, s))
            T == {chain[i].event.cause : i \in 1..Len(chain)} \cup {e.cause}
<1>2. /\ Len(chain) \in Nat /\ d[Len(chain) + 1] = Entry(e, s)
      /\ \A i \in 1..Len(chain) : d[i] = chain[i]
  BY <1>1, Grown
<1>3. Causes \in Seq(T) /\ Len(Causes) = Len(chain) /\ e.cause \in T
  BY <1>2 DEF Causes
<1>4. Entry(e, s).event = e
  BY DEF Entry
<1>5. Append(Causes, e.cause) = [i \in 1..(Len(chain) + 1) |->
          IF i = Len(chain) + 1 THEN e.cause ELSE Causes[i]]
  <2>. HIDE DEF T
  <2>1. /\ Append(Causes, e.cause) \in Seq(T) /\ Len(Append(Causes, e.cause)) = Len(chain) + 1
        /\ \A i \in 1..Len(chain) : Append(Causes, e.cause)[i] = Causes[i]
        /\ Append(Causes, e.cause)[Len(chain) + 1] = e.cause
    BY <1>2, <1>3
  <2>2. DOMAIN Append(Causes, e.cause) = 1..(Len(chain) + 1)
    BY <2>1
  <2>3. Append(Causes, e.cause)
          = [i \in 1..(Len(chain) + 1) |-> Append(Causes, e.cause)[i]]
    BY <2>1, <2>2
  <2>. QED BY <1>2, <2>1, <2>3
<1>. HIDE DEF d
<1>6. \A i \in 1..(Len(chain) + 1) :
        d[i].event.cause = IF i = Len(chain) + 1 THEN e.cause ELSE Causes[i]
  BY <1>2, <1>4 DEF Causes
<1>7. Append(Causes, e.cause) = CausesTo(d, Len(chain) + 1)
  BY <1>5, <1>6 DEF CausesTo
<1>8. Len(Append(Causes, e.cause)) = Len(chain) + 1
  BY <1>2, <1>3
<1>. QED BY <1>7, <1>8 DEF d

-----------------------------------------------------------------------------
\* What the writers record is what the reader reproduces.

\* The last entry of a chain, as its successor refers to it.
LEMMA Preceding ==
  ASSUME ChainTyped, Reproduced, chain # <<>>
  PROVE  /\ Len(chain) \in Nat \ {0} /\ Newest = chain[Len(chain)].state
         /\ Newest.count = Len(chain) /\ EntryHolds(chain, Len(chain))
         /\ ExactAt(chain, Len(chain), 0)
<1>1. PICK S : chain \in Seq(S)
  BY DEF ChainTyped
<1>2. Len(chain) \in Nat \ {0}
  BY <1>1, EmptySeq
<1>3. EntryHolds(chain, Len(chain)) /\ ExactAt(chain, Len(chain), 0)
  BY <1>2 DEF Reproduced
<1>. QED BY <1>2, <1>3 DEF Newest, EntryHolds, Adopts

\* What is registered under a kind.
LEMMA IdsAre ==
  ASSUME NEW kind, NEW ids, NEW x
  PROVE  x \in Ids(kind, ids) <=> \E y \in ids : y[1] = kind /\ y[2] = x
BY DEF Ids

\* run and resume
LEMMA RegularReproduced ==
  ASSUME ChainTyped, Reproduced, tree = 0, Current \in Nat,
         NEW to, NEW h, NEW sent \in SUBSET Tasks,
         chain = <<>> \/ to = Current \/ Newest.native = Current,
         NEW e, e = RegularEvent(Current, to, h, sent),
         NEW s, s = Derived(to, h, 0, Append(Causes, e.cause)),
         NEW d, d = Append(chain, Entry(e, s))
  PROVE  EntryHolds(d, Len(chain) + 1)
<1>. DEFINE n == Len(chain)
            k == n + 1
            first == chain = <<>>
            protected == {t \in sent : plan.kind[t] = "protected"}
            approvals == protected \cap h.consumed
<1>1. PICK S : chain \in Seq(S)
  BY DEF ChainTyped
<1>2. /\ n \in Nat /\ Len(d) = k /\ d[k] = Entry(e, s)
      /\ \A i \in 1..n : d[i] = chain[i]
  BY <1>1, Grown
<1>3. d[k].event = e /\ d[k].state = s
  BY <1>2 DEF Entry
<1>4. /\ first <=> k = 1
      /\ ~ first => /\ d[k - 1].state = Newest /\ Newest.count = n /\ k > 1
  BY <1>1, <1>2, Preceding, EmptySeq
<1>5. /\ s.native = to /\ s.status = StatusOf(h, 0) /\ s.ambiguous = Ambiguous(h)
      /\ s.approvals = h.consumed
      /\ s.tasks = [t \in Tasks |-> <<StateOf(h, t), Codes(h, t)>>]
      /\ s.count = Len(Append(Causes, e.cause))
  BY DEF Derived
<1>6. /\ e.actor = "runtime"
      /\ e.before = (IF first THEN "PLANNED" ELSE Newest.status)
      /\ e.after = StatusOf(h, 0)
      /\ e.headBefore = (IF ~ first /\ Current # Newest.native THEN Newest.native ELSE Current)
      /\ e.headAfter = to
      /\ e.in = {<<"plan", 1>>, <<"native", Current>>} \cup Prior
      /\ e.out = {<<"native", to>>} \cup {<<"message", t>> : t \in sent}
                    \cup {<<"effect", t>> : t \in protected}
                    \cup {<<"approval", t>> : t \in approvals}
      /\ e.source = n
  BY DEF RegularEvent
<1>20. /\ e.cause = IF Ambiguous(h) THEN "AMBIGUITY_RECORDED"
                    ELSE IF \E t \in Tasks : "approval-required" \in Codes(h, t)
                         THEN "APPROVAL_BLOCKED"
                    ELSE IF protected # {} /\ approvals # {} THEN "APPROVAL_REVALIDATED"
                    ELSE IF first THEN "RUNTIME_STARTED" ELSE "SCHEDULER_ADVANCED"
       /\ e.cause \notin {"RECOVERY_OBSERVED", "PLAN_SUPERSEDED", "OUTCOME_PRODUCED"}
  BY DEF RegularEvent, EventCause
<1>21. /\ e.effect = IF Ambiguous(h) THEN "AMBIGUOUS" ELSE IF protected # {} THEN "REVALIDATED"
                     ELSE IF e.cause = "APPROVAL_BLOCKED" THEN "BLOCKED" ELSE "NOT_APPLICABLE"
       /\ e.reasons = {e.cause, "no-host-dispatch"}
                        \cup (IF protected # {} THEN {"protected-effect-revalidated"} ELSE {})
                        \cup (IF approvals # {} THEN {"approval-revalidated"} ELSE {})
                        \cup (IF Ambiguous(h) THEN {"external-effect-ambiguous"} ELSE {})
  BY DEF RegularEvent, Effect, Reasons
<1>7. s.count = k
  BY <1>5, CausesGrow
<1>. HIDE DEF k, n, first, protected, approvals
<1>8. Adopts(e, s, k)
  BY <1>5, <1>6, <1>7 DEF Adopts
<1>9. Follows(d, k)
  BY <1>3, <1>4, <1>6 DEF Follows, n, k, first
<1>10. Prior = PriorOf(k)
  BY <1>2, <1>4 DEF Prior, PriorOf, n, k, first
<1>11. /\ Ids("effect", e.out) = protected /\ Ids("approval", e.out) = approvals
       /\ Ids("native", e.in) = {Current}
  <2>1. \A x : x \in Ids("effect", e.out) <=> x \in protected
    <3>1. \A y \in e.out : y[1] = "effect" => y[2] \in protected
      BY <1>6
    <3>2. \A t \in protected : \E y \in e.out : y[1] = "effect" /\ y[2] = t
      <4>1. \A t \in protected : <<"effect", t>> \in e.out
        BY <1>6
      <4>. QED BY <4>1
    <3>. QED BY <3>1, <3>2, IdsAre
  <2>2. \A x : x \in Ids("approval", e.out) <=> x \in approvals
    <3>1. \A y \in e.out : y[1] = "approval" => y[2] \in approvals
      BY <1>6
    <3>2. \A t \in approvals : \E y \in e.out : y[1] = "approval" /\ y[2] = t
      <4>1. \A t \in approvals : <<"approval", t>> \in e.out
        BY <1>6
      <4>. QED BY <4>1
    <3>. QED BY <3>1, <3>2, IdsAre
  <2>3. \A x : x \in Ids("native", e.in) <=> x = Current
    <3>1. \A y \in e.in : y[1] = "native" => y[2] = Current
      BY <1>6, <1>10 DEF PriorOf
    <3>2. <<"native", Current>> \in e.in
      BY <1>6
    <3>. QED BY <3>1, <3>2, IdsAre
  <2>. QED BY <2>1, <2>2, <2>3
<1>12. ProtectedOf(e) = protected /\ ApprovalsOf(e, s) = approvals
  BY <1>5, <1>11 DEF ProtectedOf, ApprovalsOf, protected, approvals
<1>13. "approval-required" \in UNION {s.tasks[t][2] : t \in Tasks}
         <=> \E t \in Tasks : "approval-required" \in Codes(h, t)
  BY <1>5
<1>14. CauseHolds(d, k)
  <2>. DEFINE codes == UNION {s.tasks[t][2] : t \in Tasks}
  <2>1. "approval-required" \in codes <=> \E t \in Tasks : "approval-required" \in Codes(h, t)
    BY <1>13
  <2>2. (protected # {} /\ approvals # {}) <=> (ProtectedOf(e) # {} /\ ApprovalsOf(e, s) # {})
    BY <1>12
  <2>. HIDE DEF codes
  <2>3. e.cause = IF s.ambiguous THEN "AMBIGUITY_RECORDED"
                  ELSE IF "approval-required" \in codes THEN "APPROVAL_BLOCKED"
                  ELSE IF ProtectedOf(e) # {} /\ ApprovalsOf(e, s) # {} THEN "APPROVAL_REVALIDATED"
                  ELSE IF k = 1 THEN "RUNTIME_STARTED" ELSE "SCHEDULER_ADVANCED"
    BY <1>4, <1>5, <1>20, <2>1, <2>2
  <2>. QED BY <1>3, <1>20, <2>3 DEF CauseHolds, codes
<1>15. FieldsHold(d, k)
  <2>1. e.effect = Effect(s.ambiguous, ProtectedOf(e), e.cause)
    BY <1>5, <1>12, <1>21 DEF Effect
  <2>2. <<"native", s.native>> \in e.out
    BY <1>5, <1>6
  <2>. QED BY <1>3, <1>14, <2>1, <2>2 DEF FieldsHold
<1>16. RegularHolds(d, k)
  <2>1. Cardinality(Ids("native", e.in)) = 1
    BY <1>11, FS_Singleton
  <2>2. e.in = {<<"plan", 1>>} \cup PriorOf(k) \cup {<<"native", i>> : i \in Ids("native", e.in)}
    BY <1>6, <1>10, <1>11
  <2>3. e.out = {<<"native", s.native>>}
                  \cup {x \in e.out : x[1] \in {"message", "effect", "approval"}}
    BY <1>5, <1>6
  <2>4. e.reasons = Reasons(e.cause, ProtectedOf(e), ApprovalsOf(e, s), s.ambiguous)
    BY <1>5, <1>12, <1>21 DEF Reasons
  <2>5. k > 1 => Ids("native", e.in) \subseteq {d[k - 1].state.native, s.native}
    BY <1>4, <1>5, <1>11 DEF k, n, first
  <2>6. Ids("effect", e.out) \subseteq ProtectedOf(e) /\ Ids("approval", e.out) \subseteq s.approvals
    BY <1>5, <1>11, <1>12 DEF approvals
  <2>. QED BY <1>3, <1>6, <2>1, <2>2, <2>3, <2>4, <2>5, <2>6 DEF RegularHolds
<1>. QED BY <1>3, <1>6, <1>8, <1>9, <1>15, <1>16, <1>20 DEF EntryHolds, k, n

\* recover
LEMMA RecoveryReproduced ==
  ASSUME ChainTyped, Reproduced, chain # <<>>, tree = 0,
         Newest.ambiguous => Ambiguous(history[Current]),
         NEW e, e = RecoveryEvent,
         NEW s, s = Derived(Current, history[Current], 0, Append(Causes, "RECOVERY_OBSERVED")),
         NEW d, d = Append(chain, Entry(e, s))
  PROVE  EntryHolds(d, Len(chain) + 1)
<1>. DEFINE n == Len(chain)
            k == n + 1
            h == history[Current]
<1>1. PICK S : chain \in Seq(S)
  BY DEF ChainTyped
<1>2. /\ n \in Nat \ {0} /\ d[k] = Entry(e, s) /\ d[k - 1].state = Newest /\ Newest.count = n
  BY <1>1, Grown, Preceding
<1>3. d[k].event = e /\ d[k].state = s
  BY <1>2 DEF Entry
<1>4. /\ e.cause = "RECOVERY_OBSERVED" /\ e.actor = "recovery"
      /\ e.before = Newest.status /\ e.after = StatusOf(h, 0)
      /\ e.headBefore = Newest.native /\ e.headAfter = Current
      /\ e.effect = (IF Ambiguous(h) THEN "AMBIGUOUS" ELSE "NOT_APPLICABLE")
      /\ e.in = {<<"plan", 1>>, <<"native", Current>>} \cup Prior
      /\ e.out = {<<"native", Current>>}
      /\ e.reasons = {"recovery-observed", "source-preserved"}
                       \cup (IF Ambiguous(h) THEN {"external-effect-ambiguous"} ELSE {})
      /\ e.source = n
  BY DEF RecoveryEvent
<1>5. /\ s.native = Current /\ s.status = StatusOf(h, 0) /\ s.ambiguous = Ambiguous(h)
      /\ s.count = k
  BY <1>4, CausesGrow DEF Derived
<1>11. k - 1 = n /\ k # 1 /\ k > 1
  BY <1>2
<1>. HIDE DEF k, n, h
<1>6. Adopts(e, s, k) /\ Follows(d, k)
  <2>1. Adopts(e, s, k)
    BY <1>4, <1>5 DEF Adopts
  <2>2. /\ e.source = k - 1 /\ d[k - 1].state.count = k - 1
        /\ e.before = d[k - 1].state.status /\ e.headBefore = d[k - 1].state.native
    BY <1>2, <1>4, <1>11
  <2>. QED BY <1>3, <1>11, <2>1, <2>2 DEF Follows
<1>7. Prior = PriorOf(k)
  BY <1>2 DEF Prior, PriorOf, n, k
<1>8. CauseHolds(d, k)
  BY <1>3, <1>4, <1>11 DEF CauseHolds
<1>9. FieldsHold(d, k)
  <2>1. ProtectedOf(e) = {}
    BY <1>4, IdsAre DEF ProtectedOf
  <2>2. e.effect = Effect(s.ambiguous, ProtectedOf(e), e.cause)
    BY <1>4, <1>5, <2>1 DEF Effect
  <2>3. <<"native", s.native>> \in e.out
    BY <1>4, <1>5
  <2>. QED BY <1>3, <1>8, <2>2, <2>3 DEF FieldsHold
<1>10. RecoveryHolds(d, k)
  <2>1. e.reasons = {"recovery-observed", "source-preserved"}
                      \cup (IF s.ambiguous THEN {"external-effect-ambiguous"} ELSE {})
    BY <1>4, <1>5
  <2>2. /\ e.in = {<<"plan", 1>>, <<"native", s.native>>} \cup PriorOf(k)
        /\ e.out = {<<"native", s.native>>}
    BY <1>4, <1>5, <1>7
  <2>. QED BY <1>3, <1>4, <2>1, <2>2 DEF RecoveryHolds
<1>. QED BY <1>3, <1>4, <1>6, <1>9, <1>10 DEF EntryHolds, Plain, k, n

\* A State has these fields.
Stateful(s) ==
  s = [native |-> s.native, status |-> s.status, tasks |-> s.tasks, observed |-> s.observed,
       gates |-> s.gates, blockers |-> s.blockers, ambiguous |-> s.ambiguous,
       approvals |-> s.approvals, measures |-> s.measures, successor |-> s.successor,
       count |-> s.count]

\* What superseding or closing a State keeps of it.
LEMMA TerminalStates ==
  ASSUME NEW s, Stateful(s)
  PROVE  /\ Superseded(s).native = s.native /\ Superseded(s).status = "SUPERSEDED"
         /\ Superseded(s).ambiguous = s.ambiguous /\ Superseded(s).count = s.count + 1
         /\ Closed(s).native = s.native /\ Closed(s).status = s.status
         /\ Closed(s).ambiguous = s.ambiguous /\ Closed(s).count = s.count + 1
BY DEF Stateful, Superseded, Closed

\* Derived and closing States have the fields of a State.
LEMMA DerivedStateful ==
  ASSUME NEW n, NEW h, NEW tr, NEW causes
  PROVE  Stateful(Derived(n, h, tr, causes))
BY DEF Stateful, Derived

\* A State that closes is at the projection it was made for.
LEMMA ClosingStateful ==
  ASSUME NEW n, NEW h, NEW tr, NEW cause
  PROVE  Stateful(Closing(n, h, tr, cause)) /\ Closing(n, h, tr, cause).native = n
<1>1. PICK a : a = (cause = "external-effect-ambiguous")
  OBVIOUS
<1>2. PICK m : m = MeasuresOf(h, <<"GATE_EVALUATED">>, a)
  OBVIOUS
<1>3. PICK d : d = Derived(n, h, tr, <<"GATE_EVALUATED">>)
  OBVIOUS
<1>4. Closing(n, h, tr, cause) = [[[[d EXCEPT !.status = "BLOCKED"] EXCEPT !.blockers = {cause}]
                                   EXCEPT !.ambiguous = a] EXCEPT !.measures = m]
  BY Zenon, <1>1, <1>2, <1>3 DEF Closing
<1>5. Stateful(d) /\ d.native = n
  BY <1>3, DerivedStateful DEF Derived
<1>6. PICK x : x = [[[[d EXCEPT !.status = "BLOCKED"] EXCEPT !.blockers = {cause}]
                                   EXCEPT !.ambiguous = a] EXCEPT !.measures = m]
  OBVIOUS
<1>7. Stateful(x) /\ x.native = n
  BY <1>5, <1>6 DEF Stateful
<1>. QED BY <1>4, <1>6, <1>7

\* What every entry on a chain has, and the next one refers to.
LEMMA TerminalFields ==
  ASSUME NEW x, NEW actor, NEW e, e = TerminalEvent(x, actor)
  PROVE  /\ e.actor = actor /\ e.before = x.state.status
         /\ e.headBefore = x.state.native /\ e.headAfter = x.state.native
         /\ e.effect = (IF x.state.ambiguous THEN "AMBIGUOUS" ELSE "NOT_APPLICABLE")
         /\ e.source = x.state.count
         /\ actor = "supersession" =>
              /\ e.cause = "PLAN_SUPERSEDED" /\ e.after = "SUPERSEDED"
              /\ e.in = {<<"plan", 1>>, <<"native", x.state.native>>,
                         <<"state", x.state.count>>, <<"event", x.state.count>>,
                         <<"intent", 1>>}
              /\ e.out = {<<"native", x.state.native>>}
              /\ e.reasons = {"plan-superseded", "predecessor-authority-preserved"}
                               \cup (IF x.state.ambiguous THEN {"external-effect-ambiguous"}
                                     ELSE {})
         /\ actor = "outcome" =>
              /\ e.cause = "OUTCOME_PRODUCED" /\ e.after = x.state.status
              /\ e.in = {<<"plan", 1>>, <<"native", x.state.native>>,
                         <<"state", x.state.count>>, <<"event", x.state.count>>}
              /\ e.out = {} /\ e.reasons = {"outcome-produced"}
<1>1. CASE actor = "supersession"
  BY <1>1 DEF TerminalEvent
<1>2. CASE actor = "outcome"
  BY <1>2 DEF TerminalEvent
<1>3. CASE actor \notin {"supersession", "outcome"}
  BY <1>3 DEF TerminalEvent
<1>. QED BY <1>1, <1>2, <1>3

\* The cause of a supersession.
LEMMA SupersedingCause ==
  ASSUME NEW d, NEW k, k > 1, d[k].event.headBefore = d[k].event.headAfter,
         d[k].event.cause = "PLAN_SUPERSEDED", d[k].state.status = "SUPERSEDED",
         "plan-superseded" \in d[k].event.reasons
  PROVE  CauseHolds(d, k)
BY DEF CauseHolds

\* The cause of an Outcome.
LEMMA ProducingCause ==
  ASSUME NEW d, NEW k, k > 1, d[k].event.headBefore = d[k].event.headAfter,
         d[k].event.cause = "OUTCOME_PRODUCED", d[k].state.status = d[k - 1].state.status,
         d[k].event.out = {}, d[k].event.reasons = {"outcome-produced"}
  PROVE  CauseHolds(d, k)
BY DEF CauseHolds

\* WorkflowOutcomeService.publish and supersede
LEMMA TerminalReproduced ==
  ASSUME NEW S, NEW c \in Seq(S), NEW n, n = Len(c), n # 0,
         EntryHolds(c, n), ExactAt(c, n, 0), Stateful(c[n].state),
         NEW actor \in {"supersession", "outcome"},
         NEW e, e = TerminalEvent(c[n], actor),
         NEW s, s = IF actor = "supersession" THEN Superseded(c[n].state) ELSE Closed(c[n].state),
         NEW d, d = Append(c, Entry(e, s))
  PROVE  EntryHolds(d, n + 1) /\ ExactAt(d, n + 1, 0)
<1>1. PICK p : p = c[n].state
  OBVIOUS
<1>2. PICK k : k = n + 1
  OBVIOUS
<1>3. /\ n \in Nat \ {0} /\ k \in Nat /\ k - 1 = n /\ k # 1 /\ k > 1
      /\ d[k] = Entry(e, s) /\ d[n] = c[n]
  BY <1>2, Grown
<1>4. d[k].event = e /\ d[k].state = s /\ d[k - 1].state = p
  BY <1>1, <1>3 DEF Entry
<1>5. p.count = n
  BY <1>1 DEF EntryHolds, Adopts
<1>6. /\ e.actor = actor /\ e.before = p.status
      /\ e.headBefore = p.native /\ e.headAfter = p.native
      /\ e.effect = (IF p.ambiguous THEN "AMBIGUOUS" ELSE "NOT_APPLICABLE")
      /\ e.source = n
  BY <1>1, <1>5, TerminalFields
<1>7. /\ s.native = p.native /\ s.ambiguous = p.ambiguous /\ s.count = k
      /\ s.status = IF actor = "supersession" THEN "SUPERSEDED" ELSE p.status
  BY <1>1, <1>2, <1>5, TerminalStates
<1>8. CASE actor = "supersession"
  <2>1. /\ e.cause = "PLAN_SUPERSEDED" /\ e.after = "SUPERSEDED"
        /\ e.in = {<<"plan", 1>>, <<"native", p.native>>, <<"state", n>>, <<"event", n>>,
                   <<"intent", 1>>}
        /\ e.out = {<<"native", p.native>>}
        /\ e.reasons = {"plan-superseded", "predecessor-authority-preserved"}
                         \cup (IF p.ambiguous THEN {"external-effect-ambiguous"} ELSE {})
    BY <1>1, <1>5, <1>8, TerminalFields
  <2>2. Adopts(e, s, k)
    BY <1>6, <1>7, <1>8, <2>1 DEF Adopts
  <2>3. Follows(d, k)
    BY <1>3, <1>4, <1>5, <1>6 DEF Follows
  <2>4. CauseHolds(d, k)
    <3>1. "plan-superseded" \in e.reasons /\ s.status = "SUPERSEDED" /\ e.headBefore = e.headAfter
      BY <1>6, <1>7, <1>8, <2>1
    <3>2. /\ d[k].event.cause = "PLAN_SUPERSEDED" /\ "plan-superseded" \in d[k].event.reasons
          /\ d[k].state.status = "SUPERSEDED" /\ d[k].event.headBefore = d[k].event.headAfter
      BY <1>4, <2>1, <3>1
    <3>. QED BY <1>3, <3>2, SupersedingCause
  <2>5. ProtectedOf(e) = {}
    BY <2>1, IdsAre DEF ProtectedOf
  <2>6. e.effect = Effect(s.ambiguous, ProtectedOf(e), e.cause)
    BY <1>6, <1>7, <2>1, <2>5 DEF Effect
  <2>7. FieldsHold(d, k)
    <3>1. <<"native", s.native>> \in e.out
      BY <1>7, <2>1
    <3>. QED BY <1>4, <2>4, <2>6, <3>1 DEF FieldsHold
  <2>8. SupersessionHolds(d, k)
    BY <1>3, <1>4, <1>6, <1>8, <2>1 DEF SupersessionHolds, PriorOf
  <2>9. EntryHolds(d, k)
    BY <1>4, <1>6, <1>8, <2>1, <2>2, <2>3, <2>7, <2>8 DEF EntryHolds, Plain
  <2>10. Resolved(e, s)
    <3>1. Ids("message", e.out) = {} /\ Ids("approval", e.out) = {} /\ Ids("native", e.out) = {p.native}
      <4>1. \A y \in e.out : y[1] = "native" /\ y[2] = p.native
        BY <2>1
      <4>2. \E y \in e.out : y[1] = "native" /\ y[2] = p.native
        BY <2>1
      <4>. QED BY <4>1, <4>2, IdsAre
    <3>2. p.native <= Current
      BY <1>1 DEF ExactAt, Resolved
    <3>. QED BY <1>6, <1>7, <2>1, <3>1, <3>2 DEF Resolved
  <2>11. Adoptable(history[s.native])
    BY <1>1, <1>7 DEF ExactAt
  <2>12. s = Superseded(d[k - 1].state)
    BY <1>1, <1>4, <1>8
  <2>13. d[k].event.cause = "PLAN_SUPERSEDED"
    BY <1>4, <2>1
  <2>14. ExactAt(d, k, 0)
    BY <1>4, <2>10, <2>11, <2>12, <2>13 DEF ExactAt
  <2>. QED BY <1>2, <2>9, <2>14
<1>9. CASE actor = "outcome"
  <2>1. /\ e.cause = "OUTCOME_PRODUCED" /\ e.after = p.status
        /\ e.in = {<<"plan", 1>>, <<"native", p.native>>, <<"state", n>>, <<"event", n>>}
        /\ e.out = {} /\ e.reasons = {"outcome-produced"}
    BY <1>1, <1>5, <1>9, TerminalFields
  <2>2. Adopts(e, s, k)
    BY <1>6, <1>7, <1>9, <2>1 DEF Adopts
  <2>3. Follows(d, k)
    BY <1>3, <1>4, <1>5, <1>6 DEF Follows
  <2>4. CauseHolds(d, k)
    <3>1. s.status = d[k - 1].state.status /\ e.headBefore = e.headAfter
      BY <1>4, <1>6, <1>7, <1>9
    <3>2. /\ d[k].event.cause = "OUTCOME_PRODUCED" /\ d[k].event.out = {}
          /\ d[k].event.reasons = {"outcome-produced"}
          /\ d[k].state.status = d[k - 1].state.status
          /\ d[k].event.headBefore = d[k].event.headAfter
      BY <1>4, <2>1, <3>1
    <3>. QED BY <1>3, <3>2, ProducingCause
  <2>5. ProtectedOf(e) = {}
    BY <2>1, IdsAre DEF ProtectedOf
  <2>6. e.effect = Effect(s.ambiguous, ProtectedOf(e), e.cause)
    BY <1>6, <1>7, <2>1, <2>5 DEF Effect
  <2>7. FieldsHold(d, k)
    BY <1>4, <2>1, <2>4, <2>6 DEF FieldsHold
  <2>8. OutcomeHolds(d, k)
    BY <1>3, <1>4, <1>6, <1>9, <2>1 DEF OutcomeHolds, PriorOf
  <2>9. EntryHolds(d, k)
    BY <1>4, <1>6, <1>9, <2>1, <2>2, <2>3, <2>7, <2>8 DEF EntryHolds, Plain
  <2>10. Resolved(e, s)
    <3>1. Ids("message", e.out) = {} /\ Ids("approval", e.out) = {} /\ Ids("native", e.out) = {}
      BY <2>1, IdsAre
    <3>2. p.native <= Current
      BY <1>1 DEF ExactAt, Resolved
    <3>. QED BY <1>6, <1>7, <2>1, <3>1, <3>2 DEF Resolved
  <2>11. Adoptable(history[s.native])
    BY <1>1, <1>7 DEF ExactAt
  <2>12. s = Closed(d[k - 1].state)
    BY <1>1, <1>4, <1>9
  <2>13. ExactAt(d, k, 0)
    BY <1>4, <2>1, <2>10, <2>11, <2>12 DEF ExactAt
  <2>. QED BY <1>2, <2>9, <2>13
<1>. QED BY <1>8, <1>9

-----------------------------------------------------------------------------
\* What the scheduler does meanwhile.

\* A step of the scheduler keeps an unknown effect unknown and dispatches no ready task.
LEMMA NativeStep ==
  ASSUME HistoryTyped, NEW step \in SchedulerSteps
  PROVE  /\ step.to \in Projections /\ step.sent \in SUBSET Tasks
         /\ Ambiguous(history[Current]) => Ambiguous(step.to)
         /\ \A t \in step.sent : step.to.state[t] # "READY"
<1>. DEFINE h == history[Current]
            Becomes(t, new) == [h.state EXCEPT ![t] = new]
<1>1. h \in Projections
  BY DEF HistoryTyped, Current
<1>2. PICK t \in Tasks :
        \/ h.state[t] = "READY" /\ step = Native(Becomes(t, "waiting"), h.consumed, {})
        \/ h.state[t] = "READY" /\ step = Native(Becomes(t, "RUNNING"), h.consumed, {t})
        \/ h.state[t] = "waiting"
             /\ step = Native(Becomes(t, "RUNNING"), h.consumed \cup {t}, {t})
        \/ h.state[t] = "RUNNING"
             /\ \E end \in {"COMPLETED", "REJECTED", "unknown"} :
                  step = Native(Becomes(t, end), h.consumed, {})
  BY DEF SchedulerSteps
<1>. HIDE DEF h
<1>3. \A new \in Natives : Becomes(t, new) \in [Tasks -> Natives]
  BY <1>1 DEF Projections
<1>4. ASSUME NEW new \in Natives, NEW taken \in SUBSET Tasks, NEW sent \in SUBSET {t},
             h.state[t] # "unknown", sent # {} => new # "READY",
             step = Native(Becomes(t, new), taken, sent)
      PROVE  /\ step.to \in Projections /\ step.sent \in SUBSET Tasks
             /\ Ambiguous(h) => Ambiguous(step.to)
             /\ \A u \in step.sent : step.to.state[u] # "READY"
  <2>1. /\ step.to = [state |-> Becomes(t, new), consumed |-> taken] /\ step.sent = sent
    BY <1>4 DEF Native
  <2>2. step.to \in Projections
    BY <1>3, <2>1 DEF Projections
  <2>3. \A u \in Tasks : h.state[u] = "unknown" => step.to.state[u] = "unknown"
    BY <1>1, <1>4, <2>1 DEF Projections
  <2>4. \A u \in step.sent : step.to.state[u] # "READY"
    BY <1>1, <1>4, <2>1 DEF Projections
  <2>. QED BY <1>4, <2>1, <2>2, <2>3, <2>4 DEF Ambiguous
<1>5. h.consumed \in SUBSET Tasks
  BY <1>1 DEF Projections
<1>. HIDE DEF Becomes
<1>6. /\ step.to \in Projections /\ step.sent \in SUBSET Tasks
      /\ Ambiguous(h) => Ambiguous(step.to)
      /\ \A u \in step.sent : step.to.state[u] # "READY"
  <2>0. /\ {"waiting", "RUNNING", "COMPLETED", "REJECTED", "unknown"} \subseteq Natives
        /\ {} \in SUBSET {t} /\ {t} \in SUBSET {t}
    BY DEF Natives
  <2>1. CASE h.state[t] = "READY" /\ step = Native(Becomes(t, "waiting"), h.consumed, {})
    <3>1. "waiting" \in Natives /\ h.state[t] # "unknown"
      BY <2>0, <2>1
    <3>. QED BY <1>4, <1>5, <2>0, <2>1, <3>1
  <2>2. CASE h.state[t] = "READY" /\ step = Native(Becomes(t, "RUNNING"), h.consumed, {t})
    BY <1>4, <1>5, <2>2 DEF Natives
  <2>3. CASE /\ h.state[t] = "waiting"
             /\ step = Native(Becomes(t, "RUNNING"), h.consumed \cup {t}, {t})
    <3>1. h.consumed \cup {t} \in SUBSET Tasks
      BY <1>5
    <3>. QED BY <1>4, <2>3, <3>1 DEF Natives
  <2>4. CASE /\ h.state[t] = "RUNNING"
             /\ \E end \in {"COMPLETED", "REJECTED", "unknown"} :
                  step = Native(Becomes(t, end), h.consumed, {})
    <3>1. PICK end \in {"COMPLETED", "REJECTED", "unknown"} :
            step = Native(Becomes(t, end), h.consumed, {})
      BY <2>4
    <3>2. end \in Natives /\ h.state[t] # "unknown"
      BY <2>0, <2>4
    <3>. QED BY <1>4, <1>5, <2>0, <3>1, <3>2
  <2>. QED BY <1>2, <2>1, <2>2, <2>3, <2>4
<1>. QED BY <1>6 DEF h

\* Doing nothing is at the present projection.
LEMMA NoStepStays ==
  ASSUME HistoryTyped
  PROVE  NoStep.to = history[Current] /\ NoStep.sent = {} /\ NoStep.to \in Projections
<1>1. history[Current] \in Projections
  BY DEF HistoryTyped, Current
<1>. QED BY <1>1 DEF NoStep, Native, Projections

\* A history that grew by one projection.
LEMMA HistoryGrown ==
  ASSUME HistoryTyped, Unforgotten, plan' = plan,
         NEW CONSTANT h, h \in Projections, Ambiguous(history[Current]) => Ambiguous(h),
         history' = Append(history, h)
  PROVE  /\ HistoryTyped' /\ Unforgotten' /\ Current \in Nat \ {0} /\ Current' = Current + 1
         /\ \A i \in 1..Current : history'[i] = history[i]
         /\ history'[Current + 1] = h
<1>1. /\ Current \in Nat \ {0} /\ Current' = Current + 1 /\ history' \in Seq(Projections)
      /\ \A i \in 1..Current : history'[i] = history[i]
      /\ history'[Current + 1] = h
  BY DEF HistoryTyped, Current
<1>2. Projections' = Projections /\ Tasks' = Tasks
  BY DEF Projections, Tasks
<1>3. HistoryTyped'
  BY <1>1, <1>2 DEF HistoryTyped, Current
<1>4. \A i, j \in 1..(Current + 1) :
        i <= j /\ Ambiguous(history'[i]) => Ambiguous(history'[j])
  <2>. SUFFICES ASSUME NEW i \in 1..(Current + 1), NEW j \in 1..(Current + 1), i <= j,
                       Ambiguous(history'[i])
                PROVE  Ambiguous(history'[j])
    OBVIOUS
  <2>0. /\ i \in Nat /\ j \in Nat /\ (i = Current + 1 \/ i \in 1..Current)
        /\ (j = Current + 1 \/ j \in 1..Current) /\ (i = Current + 1 => j = Current + 1)
        /\ Current \in 1..Current
    BY <1>1
  <2>1. CASE i = Current + 1
    BY <2>0, <2>1
  <2>2. CASE i \in 1..Current
    <3>1. Ambiguous(history[i])
      BY <1>1, <2>2
    <3>2. \A u \in 1..Current : i <= u => Ambiguous(history[u])
      BY <2>2, <3>1 DEF Unforgotten
    <3>3. CASE j = Current + 1
      <4>1. i <= Current
        BY <1>1, <2>2
      <4>2. Ambiguous(history[Current])
        BY <2>0, <3>2, <4>1
      <4>3. history'[j] = h
        BY <1>1, <3>3
      <4>. QED BY <4>2, <4>3
    <3>4. CASE j \in 1..Current
      <4>1. history'[j] = history[j]
        BY <1>1, <3>4
      <4>2. Ambiguous(history[j])
        BY <3>2, <3>4
      <4>. QED BY <4>1, <4>2
    <3>. QED BY <2>0, <3>3, <3>4
  <2>. QED BY <2>0, <2>1, <2>2
<1>5. Unforgotten'
  <2>1. \A p : Ambiguous(p)' <=> Ambiguous(p)
    BY <1>2 DEF Ambiguous
  <2>. QED BY <1>1, <1>4, <2>1 DEF Unforgotten
<1>. QED BY <1>1, <1>3, <1>5

\* A history that stays as it is.
LEMMA HistorySame ==
  ASSUME HistoryTyped, Unforgotten, plan' = plan, history' = history
  PROVE  /\ HistoryTyped' /\ Unforgotten' /\ Current \in Nat \ {0} /\ Current' = Current
         /\ \A i \in 1..Current : history'[i] = history[i]
<1>1. Projections' = Projections /\ Tasks' = Tasks /\ Current' = Current
  BY DEF Projections, Tasks, Current
<1>2. Current \in Nat \ {0}
  BY DEF HistoryTyped, Current
<1>3. HistoryTyped' /\ Unforgotten'
  BY <1>1 DEF HistoryTyped, Unforgotten, Ambiguous
<1>. QED BY <1>1, <1>2, <1>3

-----------------------------------------------------------------------------
\* The entries on the chain stay reproduced, and new ones are.

HistoryKept ==
  /\ Len(history) \in Nat /\ Len(history') \in Nat /\ Len(history) <= Len(history')
  /\ \A i \in 1..Current : history'[i] = history[i]

\* Whatever follows them, the entries stay reproduced.
LEMMA ChainKept ==
  ASSUME ChainTyped, Reproduced, InOrder, plan' = plan, HistoryKept,
         NEW CONSTANT d, \A i \in 1..Len(chain) : d[i] = chain[i]
  PROVE  \A k \in 1..Len(chain) : EntryHolds(d, k)' /\ ExactAt(d, k, 0)'
<1>1. PICK c : c = chain
  OBVIOUS
<1>. SUFFICES ASSUME NEW CONSTANT k \in 1..Len(chain)
              PROVE  EntryHolds(d, k)' /\ ExactAt(d, k, 0)'
  OBVIOUS
<1>2. Len(chain) \in Nat
  BY DEF ChainTyped
<1>3. k \in Nat \ {0} /\ \A i \in 1..k : d[i] = c[i]
  BY <1>1, <1>2
<1>4. EntryHolds(c, k) /\ ExactAt(c, k, 0) /\ c[k].state.native \in 1..Current
  BY <1>1 DEF Reproduced, InOrder
<1>5. history'[c[k].state.native] = history[c[k].state.native] /\ c[k].state.native \in Nat
  BY <1>4 DEF HistoryKept, Current
<1>6. EntryHolds(d, k)'
  BY <1>3, <1>4, <1>5, EntriesKept
<1>7. ExactAt(d, k, 0)'
  BY <1>3, <1>4, <1>5, ExactKept DEF HistoryKept
<1>. QED BY <1>6, <1>7

\* The State of an entry run, resume or recover adds.
LEMMA DerivedExact ==
  ASSUME plan' = plan, NEW CONSTANT k, NEW CONSTANT d, NEW CONSTANT e, NEW CONSTANT to,
         NEW CONSTANT h, d[k].event = e, d[k].state = Derived(to, h, 0, CausesTo(d, k)),
         to \in 1..Current', history'[to] = h, Adoptable(h), e.headAfter = to,
         <<"native", to>> \in e.out,
         \A y \in e.out : /\ y[1] = "native" => y[2] = to
                          /\ y[1] = "message" => h.state[y[2]] # "READY"
                          /\ y[1] = "approval" => y[2] \in h.consumed,
         e.actor # "finalizer", e.cause \notin {"PLAN_SUPERSEDED", "OUTCOME_PRODUCED"}
  PROVE  ExactAt(d, k, 0)'
<1>1. PICK s : s = d[k].state
  OBVIOUS
<1>2. s.native = to
  BY <1>1 DEF Derived
<1>3. Resolved(e, s)'
  <2>1. \A x : /\ x \in Ids("native", e.out) => x = to
               /\ x \in Ids("message", e.out) => h.state[x] # "READY"
               /\ x \in Ids("approval", e.out) => x \in h.consumed
    BY IdsAre
  <2>2. to <= Current'
    OBVIOUS
  <2>. QED BY <1>2, <2>1, <2>2 DEF Resolved
<1>4. Adoptable(h)'
  BY ReadingsStay
<1>5. PICK causes : causes = CausesTo(d, k)
  OBVIOUS
<1>6. s = Derived(to, h, 0, causes)'
  BY <1>1, <1>5, StatesStay
<1>7. causes = [i \in 1..k |-> d[i].event.cause]
  BY <1>5 DEF CausesTo
<1>. QED BY <1>1, <1>2, <1>3, <1>4, <1>6, <1>7 DEF ExactAt

\* A chain that stays as it is, and one that grows by an entry.
LEMMA ChainSame ==
  ASSUME Course, plan' = plan, HistoryKept, HistoryTyped', Unforgotten',
         chain' = chain, outcome' = outcome
  PROVE  Course'
<1>1. PICK d : d = chain
  OBVIOUS
<1>2. \A k \in 1..Len(chain) : EntryHolds(d, k)' /\ ExactAt(d, k, 0)'
  BY <1>1, ChainKept DEF Course
<1>3. Reproduced'
  BY <1>1, <1>2 DEF Reproduced
<1>4. ChainTyped' /\ Open'
  BY DEF Course, ChainTyped, Open, Derives
<1>5. InOrder'
  BY DEF Course, InOrder, HistoryKept, Current
<1>. QED BY <1>3, <1>4, <1>5 DEF Course

\* A call that adds one reproduced and exact entry keeps the invariant.
LEMMA ChainGrows ==
  ASSUME Course, plan' = plan, HistoryKept, HistoryTyped', Unforgotten',
         NEW CONSTANT n, n = Len(chain),
         NEW CONSTANT x, NEW CONSTANT d, d = Append(chain, x), chain' = d,
         EntryHolds(d, n + 1), ExactAt(d, n + 1, 0)',
         x.event.actor # "finalizer", x.state.native \in 1..Current',
         \A k \in 1..Len(chain) : chain[k].state.native <= x.state.native,
         outcome' = <<>> => outcome = <<>> /\ Derives(x)
  PROVE  Course'
<1>1. PICK S : chain \in Seq(S)
  BY DEF Course, ChainTyped
<1>2. /\ d \in Seq(S \cup {x}) /\ n \in Nat /\ Len(d) = n + 1
      /\ \A i \in 1..n : d[i] = chain[i]
      /\ d[n + 1] = x
  BY <1>1, Grown
<1>3. ChainTyped'
  BY <1>2 DEF ChainTyped
<1>4. \A k \in 1..n : EntryHolds(d, k)' /\ ExactAt(d, k, 0)'
  BY <1>2, ChainKept DEF Course
<1>5. EntryHolds(d, n + 1)'
  <2>1. EntryHolds(d, n + 1) /\ n + 1 \in Nat \ {0} /\ d[n + 1].event.actor # "finalizer"
    BY <1>2
  <2>. QED BY <2>1, EntriesKept
<1>6. 1..(n + 1) = (1..n) \cup {n + 1}
  BY <1>2
<1>7. Reproduced'
  BY <1>2, <1>4, <1>5, <1>6 DEF Reproduced
<1>8. InOrder'
  <2>1. \A k \in 1..(n + 1) : d[k].state.native \in 1..Current'
    BY <1>2, <1>6 DEF Course, InOrder, HistoryKept, Current
  <2>2. \A j, k \in 1..(n + 1) : j <= k => d[j].state.native <= d[k].state.native
    <3>. SUFFICES ASSUME NEW j \in 1..(n + 1), NEW k \in 1..(n + 1), j <= k
                  PROVE  d[j].state.native <= d[k].state.native
      OBVIOUS
    <3>1. CASE k \in 1..n
      <4>1. j \in 1..n
        BY <1>2, <3>1
      <4>. QED BY <1>2, <3>1, <4>1 DEF Course, InOrder
    <3>2. CASE k = n + 1 /\ j \in 1..n
      BY <1>2, <3>2
    <3>3. CASE k = n + 1 /\ j = n + 1
      <4>1. x.state.native \in Nat
        BY DEF HistoryKept, Current
      <4>. QED BY <1>2, <3>3, <4>1
    <3>. QED BY <1>6, <3>1, <3>2, <3>3
  <2>. QED BY <1>2, <2>1, <2>2 DEF InOrder
<1>9. Open'
  <2>. SUFFICES ASSUME outcome' = <<>>, NEW k \in 1..(n + 1)
                PROVE  Derives(d[k])'
    BY <1>2 DEF Open
  <2>1. \A i \in 1..n : Derives(chain[i])
    BY DEF Course, Open
  <2>2. Derives(d[k])
    BY <1>2, <1>6, <2>1
  <2>. QED BY <2>2 DEF Derives
<1>. QED BY <1>3, <1>7, <1>8, <1>9 DEF Course

-----------------------------------------------------------------------------
\* Every call keeps the invariant.

\* A Plan begins with an empty chain and the scheduler's first projection.
LEMMA CourseInit == RuntimeInit => Course
<1>. SUFFICES ASSUME RuntimeInit
              PROVE  Course
  OBVIOUS
<1>. DEFINE h == [state |-> [t \in Tasks |-> "READY"], consumed |-> {}]
<1>1. history = <<h>> /\ chain = <<>>
  BY DEF RuntimeInit, Tasks
<1>2. h \in Projections
  BY DEF Projections, Natives
<1>. HIDE DEF h
<1>3. HistoryTyped /\ Unforgotten
  BY <1>1, <1>2 DEF HistoryTyped, Unforgotten, Current
<1>4. ChainTyped /\ Len(chain) = 0
  BY <1>1 DEF ChainTyped
<1>. QED BY <1>3, <1>4 DEF Course, Reproduced, InOrder, Open

\* run and resume
LEMMA TransitionKept ==
  ASSUME Course, Transition
  PROVE  Course'
<1>1. PICK step \in {NoStep} \cup (IF Advanced THEN {} ELSE SchedulerSteps) :
        LET to == IF step = NoStep THEN Current ELSE Current + 1
            e  == RegularEvent(Current, to, step.to, step.sent)
            s  == Derived(to, step.to, 0, Append(Causes, e.cause))
        IN /\ history' = IF step = NoStep THEN history ELSE Append(history, step.to)
           /\ chain' = IF Adoptable(step.to) THEN Append(chain, Entry(e, s))
                       ELSE chain
  BY DEF Transition
<1>2. tree = 0 /\ plan' = plan /\ outcome' = outcome /\ outcome = <<>>
  BY DEF Transition
<1>3. HistoryTyped /\ Unforgotten /\ ChainTyped
  BY DEF Course
<1>4. PICK to : to = IF step = NoStep THEN Current ELSE Current + 1
  OBVIOUS
<1>5. /\ HistoryTyped' /\ Unforgotten' /\ HistoryKept /\ Current \in Nat \ {0}
      /\ to \in 1..Current' /\ Current <= to /\ history'[to] = step.to
      /\ step.sent \in SUBSET Tasks /\ \A t \in step.sent : step.to.state[t] # "READY"
  <2>1. CASE step = NoStep
    <3>1. history' = history
      BY <1>1, <2>1
    <3>2. /\ HistoryTyped' /\ Unforgotten' /\ Current \in Nat \ {0} /\ Current' = Current
          /\ \A i \in 1..Current : history'[i] = history[i]
      BY <1>2, <1>3, <3>1, HistorySame
    <3>3. step.to = history[Current] /\ step.sent = {}
      BY <1>3, <2>1, NoStepStays
    <3>. QED BY <1>4, <2>1, <3>2, <3>3 DEF HistoryKept, Current
  <2>2. CASE step # NoStep
    <3>1. history' = Append(history, step.to) /\ step \in SchedulerSteps
      BY <1>1, <2>2
    <3>2. /\ step.to \in Projections /\ step.sent \in SUBSET Tasks
          /\ Ambiguous(history[Current]) => Ambiguous(step.to)
          /\ \A t \in step.sent : step.to.state[t] # "READY"
      BY <1>3, <3>1, NativeStep
    <3>3. PICK h : h = step.to
      OBVIOUS
    <3>4. /\ HistoryTyped' /\ Unforgotten' /\ Current \in Nat \ {0} /\ Current' = Current + 1
          /\ \A i \in 1..Current : history'[i] = history[i]
          /\ history'[Current + 1] = h
      BY <1>2, <1>3, <3>1, <3>2, <3>3, HistoryGrown
    <3>. QED BY <1>4, <2>2, <3>2, <3>3, <3>4 DEF HistoryKept, Current
  <2>. QED BY <2>1, <2>2
<1>6. CASE ~ Adoptable(step.to)
  <2>1. chain' = chain
    BY <1>1, <1>6
  <2>. QED BY <1>2, <1>5, <2>1, ChainSame
<1>7. CASE Adoptable(step.to)
  <2>1. PICK h : h = step.to
    OBVIOUS
  <2>2. PICK sent : sent = step.sent
    OBVIOUS
  <2>3. PICK e : e = RegularEvent(Current, to, h, sent)
    OBVIOUS
  <2>4. PICK s : s = Derived(to, h, 0, Append(Causes, e.cause))
    OBVIOUS
  <2>5. PICK d : d = Append(chain, Entry(e, s))
    OBVIOUS
  <2>6. PICK n : n = Len(chain)
    OBVIOUS
  <2>7. chain' = d
    BY <1>1, <1>4, <1>7, <2>1, <2>2, <2>3, <2>4, <2>5
  <2>8. PICK S : chain \in Seq(S)
    BY <1>3 DEF ChainTyped
  <2>9. n \in Nat /\ d[n + 1] = Entry(e, s)
    BY <2>5, <2>6, <2>8, Grown
  <2>10. d[n + 1].event = e /\ d[n + 1].state = s
    BY <2>9 DEF Entry
  <2>11. EntryHolds(d, n + 1)
    <3>1. chain = <<>> \/ to = Current \/ Newest.native = Current
      BY <1>1, <1>4 DEF Advanced
    <3>2. Reproduced /\ Current \in Nat /\ sent \in SUBSET Tasks
      BY <1>5, <2>2 DEF Course
    <3>. QED BY <1>2, <1>3, <2>3, <2>4, <2>5, <2>6, <3>1, <3>2, RegularReproduced
  <2>12. /\ e.headAfter = to /\ e.actor = "runtime"
         /\ e.cause \notin {"RECOVERY_OBSERVED", "PLAN_SUPERSEDED", "OUTCOME_PRODUCED"}
         /\ e.out = {<<"native", to>>} \cup {<<"message", t>> : t \in sent}
              \cup {<<"effect", t>> : t \in {u \in sent : plan.kind[u] = "protected"}}
              \cup {<<"approval", t>> :
                     t \in {u \in sent : plan.kind[u] = "protected"} \cap h.consumed}
    BY <2>3 DEF RegularEvent, EventCause
  <2>13. ExactAt(d, n + 1, 0)'
    <3>1. d[n + 1].state = Derived(to, h, 0, CausesTo(d, n + 1))
      BY <1>3, <2>4, <2>5, <2>6, <2>10, CausesGrow
    <3>2. \A y \in e.out : /\ y[1] = "native" => y[2] = to
                           /\ y[1] = "message" => h.state[y[2]] # "READY"
                           /\ y[1] = "approval" => y[2] \in h.consumed
      BY <1>5, <2>1, <2>2, <2>12
    <3>3. <<"native", to>> \in e.out
      BY <2>12
    <3>4. to \in 1..Current' /\ history'[to] = h /\ Adoptable(h)
      BY <1>5, <1>7, <2>1
    <3>5. /\ e.headAfter = to /\ e.actor # "finalizer"
          /\ e.cause \notin {"PLAN_SUPERSEDED", "OUTCOME_PRODUCED"}
      BY <2>12
    <3>6. PICK k : k = n + 1
      OBVIOUS
    <3>7. d[k].event = e /\ d[k].state = Derived(to, h, 0, CausesTo(d, k))
      BY <2>10, <3>1, <3>6
    <3>8. ExactAt(d, k, 0)'
      BY <1>2, <3>2, <3>3, <3>4, <3>5, <3>7, DerivedExact
    <3>. QED BY <3>6, <3>8
  <2>14. s.native = to
    BY <2>4 DEF Derived
  <2>15. PICK x : x = Entry(e, s)
    OBVIOUS
  <2>16. x.event = e /\ x.state = s
    BY <2>15 DEF Entry
  <2>17. /\ x.state.native \in 1..Current' /\ x.event.actor # "finalizer" /\ Derives(x)
         /\ \A k \in 1..Len(chain) : chain[k].state.native <= x.state.native
    <3>1. \A k \in 1..Len(chain) : chain[k].state.native \in 1..Current
      BY DEF Course, InOrder
    <3>2. Current' \in Nat
      BY <1>5 DEF HistoryKept, Current
    <3>. QED BY <1>5, <2>12, <2>14, <2>16, <3>1, <3>2 DEF Derives
  <2>. QED BY <1>2, <1>5, <2>5, <2>6, <2>7, <2>11, <2>13, <2>15, <2>17, ChainGrows
<1>. QED BY <1>6, <1>7

\* Before the Outcome every State is derived, and an ambiguity reaches the present.
LEMMA OpenStates ==
  ASSUME Course, outcome = <<>>, NEW k \in 1..Len(chain)
  PROVE  LET s == chain[k].state IN
         /\ s = Derived(s.native, history[s.native], 0, CausesTo(chain, k))
         /\ s.native \in 1..Current /\ s.ambiguous = Ambiguous(history[s.native])
         /\ Stateful(s)
         /\ Ambiguous(history[s.native]) => Ambiguous(history[Current])
<1>1. PICK s : s = chain[k].state
  OBVIOUS
<1>2. ExactAt(chain, k, 0) /\ s.native \in 1..Current /\ Derives(chain[k])
  BY <1>1 DEF Course, Reproduced, InOrder, Open
<1>3. s = Derived(s.native, history[s.native], 0, CausesTo(chain, k))
  BY <1>1, <1>2 DEF ExactAt, Derives, CausesTo
<1>4. s.ambiguous = Ambiguous(history[s.native]) /\ Stateful(s)
  <2>1. PICK causes : causes = CausesTo(chain, k)
    OBVIOUS
  <2>2. PICK n : n = s.native
    OBVIOUS
  <2>3. s = Derived(n, history[n], 0, causes)
    BY <1>3, <2>1, <2>2
  <2>4. s.ambiguous = Ambiguous(history[n])
    BY <2>3 DEF Derived
  <2>. QED BY <2>2, <2>3, <2>4, DerivedStateful
<1>5. Ambiguous(history[s.native]) => Ambiguous(history[Current])
  <2>1. Current \in Nat /\ Current \in 1..Current /\ s.native <= Current
    BY <1>2 DEF Course, HistoryTyped, Current
  <2>. QED BY <1>2, <2>1 DEF Course, Unforgotten
<1>. QED BY <1>1, <1>2, <1>3, <1>4, <1>5

\* recover
LEMMA RecoverKept ==
  ASSUME Course, Recover
  PROVE  Course'
<1>1. /\ chain # <<>> /\ outcome = <<>> /\ outcome' = outcome /\ tree = 0
      /\ plan' = plan /\ history' = history /\ Adoptable(history[Current])
  BY DEF Recover
<1>2. HistoryTyped /\ Unforgotten /\ ChainTyped /\ Reproduced
  BY DEF Course
<1>3. /\ HistoryTyped' /\ Unforgotten' /\ Current \in Nat \ {0} /\ Current' = Current
      /\ HistoryKept
  BY <1>1, <1>2, HistorySame DEF HistoryKept, Current
<1>4. PICK h : h = history[Current]
  OBVIOUS
<1>5. PICK to : to = Current
  OBVIOUS
<1>6. PICK e : e = RecoveryEvent
  OBVIOUS
<1>7. PICK s : s = Derived(Current, history[Current], 0, Append(Causes, "RECOVERY_OBSERVED"))
  OBVIOUS
<1>8. PICK d : d = Append(chain, Entry(e, s))
  OBVIOUS
<1>9. PICK n : n = Len(chain)
  OBVIOUS
<1>10. chain' = d
  BY <1>6, <1>7, <1>8 DEF Recover
<1>11. PICK S : chain \in Seq(S)
  BY <1>2 DEF ChainTyped
<1>12. n \in Nat /\ d[n + 1] = Entry(e, s)
  BY <1>8, <1>9, <1>11, Grown
<1>13. d[n + 1].event = e /\ d[n + 1].state = s
  BY <1>12 DEF Entry
<1>14. Newest.ambiguous => Ambiguous(history[Current])
  <2>1. Len(chain) \in 1..Len(chain) /\ Newest = chain[Len(chain)].state
    BY <1>1, <1>2, Preceding
  <2>2. /\ chain[Len(chain)].state.ambiguous
             = Ambiguous(history[chain[Len(chain)].state.native])
        /\ Ambiguous(history[chain[Len(chain)].state.native]) => Ambiguous(history[Current])
    BY <1>1, <2>1, OpenStates
  <2>. QED BY <2>1, <2>2
<1>15. EntryHolds(d, n + 1)
  BY <1>1, <1>2, <1>6, <1>7, <1>8, <1>9, <1>14, RecoveryReproduced
<1>16. /\ e.headAfter = to /\ e.actor = "recovery" /\ e.cause = "RECOVERY_OBSERVED"
       /\ e.out = {<<"native", to>>}
  BY <1>5, <1>6 DEF RecoveryEvent
<1>17. ExactAt(d, n + 1, 0)'
  <2>1. d[n + 1].state = Derived(to, h, 0, CausesTo(d, n + 1))
    BY <1>2, <1>4, <1>5, <1>7, <1>8, <1>9, <1>13, <1>16, CausesGrow
  <2>2. \A y \in e.out : y[1] = "native" /\ y[2] = to
    BY <1>16
  <2>3. <<"native", to>> \in e.out
    BY <1>16
  <2>4. to \in 1..Current' /\ history'[to] = h /\ Adoptable(h)
    BY <1>1, <1>3, <1>4, <1>5
  <2>5. /\ e.headAfter = to /\ e.actor # "finalizer"
        /\ e.cause \notin {"PLAN_SUPERSEDED", "OUTCOME_PRODUCED"}
    BY <1>16
  <2>. QED BY <1>1, <1>13, <2>1, <2>2, <2>3, <2>4, <2>5, DerivedExact
<1>18. PICK x : x = Entry(e, s)
  OBVIOUS
<1>19. /\ x.state.native \in 1..Current' /\ x.event.actor # "finalizer" /\ Derives(x)
       /\ \A k \in 1..Len(chain) : chain[k].state.native <= x.state.native
  <2>1. x.event = e /\ x.state = s /\ s.native = Current
    BY <1>7, <1>18 DEF Entry, Derived
  <2>2. \A k \in 1..Len(chain) : chain[k].state.native \in 1..Current
    BY DEF Course, InOrder
  <2>. QED BY <1>3, <1>16, <2>1, <2>2 DEF Derives
<1>. QED BY <1>1, <1>3, <1>8, <1>9, <1>10, <1>15, <1>17, <1>18, <1>19, ChainGrows

\* A terminal entry on a chain of which nothing else changes.
LEMMA ConcludedKept ==
  ASSUME Course, outcome = <<>>, outcome' # <<>>, chain # <<>>,
         plan' = plan, history' = history,
         NEW CONSTANT actor \in {"supersession", "outcome"},
         NEW CONSTANT e, e = TerminalEvent(chain[Len(chain)], actor),
         NEW CONSTANT s,
         s = IF actor = "supersession" THEN Superseded(Newest) ELSE Closed(Newest),
         chain' = Append(chain, Entry(e, s))
  PROVE  Course'
<1>1. HistoryTyped /\ Unforgotten /\ ChainTyped /\ Reproduced
  BY DEF Course
<1>2. /\ HistoryTyped' /\ Unforgotten' /\ Current \in Nat \ {0} /\ Current' = Current
      /\ HistoryKept
  BY <1>1, HistorySame DEF HistoryKept, Current
<1>3. PICK n : n = Len(chain)
  OBVIOUS
<1>4. PICK d : d = Append(chain, Entry(e, s))
  OBVIOUS
<1>5. PICK S : chain \in Seq(S)
  BY <1>1 DEF ChainTyped
<1>6. /\ n \in Nat \ {0} /\ d[n + 1] = Entry(e, s) /\ Newest = chain[n].state
      /\ EntryHolds(chain, n) /\ ExactAt(chain, n, 0)
  BY <1>1, <1>3, <1>4, <1>5, Grown, Preceding
<1>7. n \in 1..Len(chain) /\ Stateful(chain[n].state) /\ chain[n].state.native \in 1..Current
  <2>1. n \in 1..Len(chain)
    BY <1>3, <1>6
  <2>. QED BY <2>1, OpenStates
<1>8. EntryHolds(d, n + 1) /\ ExactAt(d, n + 1, 0)
  BY <1>3, <1>4, <1>5, <1>6, <1>7, TerminalReproduced
<1>9. d[n + 1].event.actor = actor /\ d[n + 1].state.native = chain[n].state.native
  <2>1. d[n + 1].event = e /\ d[n + 1].state = s
    BY <1>6 DEF Entry
  <2>2. e.actor = actor /\ s.native = chain[n].state.native
    BY <1>3, <1>6, <1>7, TerminalFields, TerminalStates
  <2>. QED BY <2>1, <2>2
<1>10. ExactAt(d, n + 1, 0)'
  <2>1. n + 1 \in Nat \ {0} /\ \A i \in 1..(n + 1) : d[i] = d[i]
    BY <1>6
  <2>2. /\ history'[d[n + 1].state.native] = history[d[n + 1].state.native]
        /\ d[n + 1].state.native \in Nat
    BY <1>2, <1>7, <1>9
  <2>3. /\ Len(history) \in Nat /\ Len(history') \in Nat /\ Len(history) <= Len(history')
    BY <1>2 DEF HistoryKept
  <2>. QED BY <1>8, <2>1, <2>2, <2>3, ExactKept
<1>11. PICK x : x = Entry(e, s)
  OBVIOUS
<1>12. /\ x.state.native \in 1..Current' /\ x.event.actor # "finalizer"
       /\ \A k \in 1..Len(chain) : chain[k].state.native <= x.state.native
  <2>1. d[n + 1] = x
    BY <1>6, <1>11
  <2>2. \A k \in 1..n : chain[k].state.native <= chain[n].state.native
    BY <1>3, <1>6 DEF Course, InOrder
  <2>. QED BY <1>2, <1>3, <1>7, <1>9, <2>1, <2>2
<1>. QED BY <1>2, <1>3, <1>4, <1>8, <1>10, <1>11, <1>12, ChainGrows

\* publish
LEMMA PublishOutcomeKept ==
  ASSUME Course, PublishOutcome
  PROVE  Course'
<1>. DEFINE x == chain[Len(chain)]
            e == TerminalEvent(x, "outcome")
            s == Closed(x.state)
<1>1. /\ chain # <<>> /\ outcome = <<>> /\ outcome' # <<>>
      /\ plan' = plan /\ history' = history
  BY DEF PublishOutcome
<1>2. chain' = Append(chain, Entry(e, s)) /\ s = Closed(Newest)
  BY DEF PublishOutcome, Concluded, Newest
<1>. HIDE DEF e, s
<1>3. PICK f : f = e
  OBVIOUS
<1>4. PICK r : r = s
  OBVIOUS
<1>5. f = TerminalEvent(chain[Len(chain)], "outcome") /\ r = Closed(Newest)
  BY <1>2, <1>3, <1>4 DEF e
<1>6. chain' = Append(chain, Entry(f, r))
  BY <1>2, <1>3, <1>4
<1>. QED BY <1>1, <1>5, <1>6, ConcludedKept

\* supersede
LEMMA SupersedeKept ==
  ASSUME Course, Supersede
  PROVE  Course'
<1>1. /\ chain # <<>> /\ outcome = <<>> /\ outcome' # <<>>
      /\ plan' = plan /\ history' = history
  BY DEF Supersede
<1>2. PICK f : f = TerminalEvent(chain[Len(chain)], "supersession")
  OBVIOUS
<1>3. PICK r : r = Superseded(Newest)
  OBVIOUS
<1>4. chain' = Append(chain, Entry(f, r))
  BY <1>2, <1>3 DEF Supersede
<1>. QED BY <1>1, <1>2, <1>3, <1>4, ConcludedKept

\* finalize_observation, with the two entries it may add
LEMMA FinalizeObservationKept ==
  ASSUME Course, NEW cause, FinalizeObservation(cause)
  PROVE  Course'
<1>1. PICK x : x = Entry(ObservationEvent(cause), Closing(Current, history[Current], 0, cause))
  OBVIOUS
<1>2. PICK c : c = <<x>>
  OBVIOUS
<1>3. /\ outcome' # <<>> /\ plan' = plan /\ history' = history
      /\ Conclusive(c) /\ chain' = Concluded(c)
  BY <1>1, <1>2 DEF FinalizeObservation
<1>4. PICK e : e = TerminalEvent(x, "outcome")
  OBVIOUS
<1>5. PICK s : s = Closed(x.state)
  OBVIOUS
<1>6. PICK d : d = Append(c, Entry(e, s))
  OBVIOUS
<1>7. chain' = d /\ Len(c) = 1 /\ c[1] = x /\ c \in Seq({x})
  BY <1>2, <1>3, <1>4, <1>5, <1>6 DEF Concluded
<1>8. EntryHolds(c, 1) /\ ExactAt(c, 1, 0)
  BY <1>3, <1>7 DEF Conclusive, ChainHolds, Exact
<1>9. x.state = Closing(Current, history[Current], 0, cause)
  BY <1>1 DEF Entry
<1>10. Stateful(x.state) /\ x.state.native = Current
  <2>1. PICK h : h = history[Current]
    OBVIOUS
  <2>2. PICK n : n = Current
    OBVIOUS
  <2>3. x.state = Closing(n, h, 0, cause)
    BY <1>9, <2>1, <2>2
  <2>. QED BY <2>2, <2>3, ClosingStateful
<1>11. EntryHolds(d, 2) /\ ExactAt(d, 2, 0)
  <2>1. PICK n : n = Len(c)
    OBVIOUS
  <2>2. n = 1 /\ n + 1 = 2 /\ c[n] = x /\ n # 0
    BY <1>7, <2>1
  <2>3. EntryHolds(c, n) /\ ExactAt(c, n, 0) /\ Stateful(c[n].state)
    BY <1>8, <1>10, <2>2
  <2>4. "outcome" \in {"supersession", "outcome"} /\ "outcome" # "supersession"
    OBVIOUS
  <2>5. e = TerminalEvent(c[n], "outcome")
        /\ s = IF "outcome" = "supersession" THEN Superseded(c[n].state) ELSE Closed(c[n].state)
    BY <1>4, <1>5, <2>2, <2>4
  <2>6. EntryHolds(d, n + 1) /\ ExactAt(d, n + 1, 0)
    BY <1>6, <1>7, <2>1, <2>2, <2>3, <2>4, <2>5, TerminalReproduced
  <2>. QED BY <2>2, <2>6
<1>12. /\ Len(d) = 2 /\ d[1] = x /\ d[2] = Entry(e, s)
       /\ d \in Seq({x} \cup {Entry(e, s)})
  <2>1. PICK S : S = {x}
    OBVIOUS
  <2>2. PICK y : y = Entry(e, s)
    OBVIOUS
  <2>3. c \in Seq(S) /\ Len(c) = 1 /\ c[1] = x
    BY <1>7, <2>1
  <2>4. /\ Append(c, y) \in Seq(S \cup {y}) /\ Len(Append(c, y)) = 2
        /\ \A i \in 1..1 : Append(c, y)[i] = c[i]
        /\ Append(c, y)[1 + 1] = y
    <3>1. /\ Append(c, y) \in Seq(S \cup {y}) /\ Len(Append(c, y)) = Len(c) + 1
          /\ \A i \in 1..Len(c) : Append(c, y)[i] = c[i]
          /\ Append(c, y)[Len(c) + 1] = y
      <4>1. c \in Seq(S \cup {y}) /\ y \in S \cup {y}
        BY <2>3
      <4>. QED BY <4>1
    <3>. QED BY <2>3, <3>1
  <2>. QED BY <1>6, <2>1, <2>2, <2>3, <2>4
<1>13. d[2].state.native = Current /\ d[1].state.native = Current
  <2>1. s.native = Current
    BY <1>5, <1>10, TerminalStates
  <2>. QED BY <1>10, <1>12, <2>1 DEF Entry
<1>14. HistoryTyped /\ Unforgotten
  BY DEF Course
<1>15. /\ HistoryTyped' /\ Unforgotten' /\ Current \in Nat \ {0} /\ Current' = Current
       /\ HistoryKept
  BY <1>3, <1>14, HistorySame DEF HistoryKept, Current
<1>16. /\ Len(history) \in Nat /\ Len(history') \in Nat /\ Len(history) <= Len(history')
       /\ history'[Current] = history[Current] /\ Current \in Nat
  BY <1>3, <1>15 DEF HistoryKept
<1>17. EntryHolds(d, 1)' /\ ExactAt(d, 1, 0)'
  <2>1. /\ 1 \in Nat \ {0} /\ \A i \in 1..1 : d[i] = c[i]
        /\ c[1].state.native = Current
    BY <1>7, <1>12, <1>13
  <2>. QED BY <1>3, <1>8, <1>16, <2>1, EntriesKept, ExactKept
<1>18. EntryHolds(d, 2)' /\ ExactAt(d, 2, 0)'
  <2>1. 2 \in Nat \ {0} /\ \A i \in 1..2 : d[i] = d[i]
    OBVIOUS
  <2>. QED BY <1>3, <1>11, <1>13, <1>16, <2>1, EntriesKept, ExactKept
<1>19. \A k \in 1..2 : k = 1 \/ k = 2
  OBVIOUS
<1>20. Reproduced'
  BY <1>7, <1>12, <1>17, <1>18, <1>19 DEF Reproduced
<1>21. ChainTyped' /\ Open'
  BY <1>3, <1>7, <1>12 DEF ChainTyped, Open
<1>22. InOrder'
  BY <1>7, <1>12, <1>13, <1>15, <1>19 DEF InOrder
<1>. QED BY <1>15, <1>20, <1>21, <1>22 DEF Course

\* Every step: the calls, the scheduler and the files.
LEMMA CourseNext == Course /\ [RuntimeNext]_runtimeVars => Course'
<1>. SUFFICES ASSUME Course, [RuntimeNext]_runtimeVars
              PROVE  Course'
  OBVIOUS
<1>0. HistoryTyped /\ Unforgotten
  BY DEF Course
<1>1. CASE Transition
  BY <1>1, TransitionKept
<1>2. CASE Recover
  BY <1>2, RecoverKept
<1>3. CASE PublishOutcome
  BY <1>3, PublishOutcomeKept
<1>4. CASE Supersede
  BY <1>4, SupersedeKept
<1>5. CASE \E cause \in ObservationCauses : FinalizeObservation(cause)
  BY <1>5, FinalizeObservationKept
<1>6. CASE Advance
  <2>1. PICK step \in SchedulerSteps : history' = Append(history, step.to)
    BY <1>6 DEF Advance
  <2>2. plan' = plan /\ chain' = chain /\ outcome' = outcome
    BY <1>6 DEF Advance
  <2>3. PICK h : h = step.to
    OBVIOUS
  <2>4. h \in Projections /\ (Ambiguous(history[Current]) => Ambiguous(h))
    BY <1>0, <2>3, NativeStep
  <2>5. HistoryTyped' /\ Unforgotten' /\ HistoryKept
    BY <1>0, <2>1, <2>2, <2>3, <2>4, HistoryGrown DEF HistoryKept, Current
  <2>. QED BY <2>2, <2>5, ChainSame
<1>7. CASE Drift \/ UNCHANGED runtimeVars
  <2>1. plan' = plan /\ history' = history /\ chain' = chain /\ outcome' = outcome
    BY <1>7 DEF Drift, runtimeVars
  <2>2. HistoryTyped' /\ Unforgotten' /\ HistoryKept
    BY <1>0, <2>1, HistorySame DEF HistoryKept, Current
  <2>. QED BY <2>1, <2>2, ChainSame
<1>. QED BY <1>1, <1>2, <1>3, <1>4, <1>5, <1>6, <1>7 DEF RuntimeNext

\* The chain is reproduced in every reachable state.
LEMMA CourseKept == RuntimeSpec => []Course
BY CourseInit, CourseNext, PTL DEF RuntimeSpec

\* Whatever its five writers record, at whatever state of the scheduler and however often
\* the files changed, the reader reproduces: _validate_event_chain_semantics and
\* _require_exact_state never refuse a chain that run, resume, recover, supersede,
\* finalize_observation and publish wrote.
THEOREM RecordsAreReproduced == RuntimeSpec => []RecordsReproduce
<1>1. Course => RecordsReproduce
  BY DEF Course, Reproduced, RecordsReproduce, ChainHolds, Exact
<1>. QED BY <1>1, CourseKept, PTL

-----------------------------------------------------------------------------
\* What an Outcome rests on.

\* Before the Outcome an ambiguity in one State is in every later one.
LEMMA AmbiguityCarried ==
  ASSUME Course, outcome = <<>>, NEW j \in 1..Len(chain), NEW k \in 1..Len(chain), j <= k,
         chain[j].state.ambiguous
  PROVE  chain[k].state.ambiguous
<1>1. /\ chain[j].state.native \in 1..Current /\ chain[k].state.native \in 1..Current
      /\ chain[j].state.native <= chain[k].state.native
  BY DEF Course, InOrder
<1>2. Ambiguous(history[chain[j].state.native])
  BY OpenStates
<1>3. Ambiguous(history[chain[k].state.native])
  BY <1>1, <1>2 DEF Course, Unforgotten
<1>. QED BY <1>3, OpenStates

NeededItems ==
  {"ledger", "handoff"}
    \cup (IF plan.profile = "implemented" THEN {} ELSE {"review"})
    \cup (IF plan.profile = "release" THEN {"manifest", "ui", "rc"} ELSE {})
\* What the scheduler knew when a completed Outcome was produced.
Proved(h) ==
  /\ \A t \in Tasks : h.state[t] = "COMPLETED"
  /\ \A type \in NeededItems : Of(h, type) # {} /\ Good(h, type)
  /\ "review" \in NeededItems => 0 \in plan.covers
  /\ plan.blocking = {}

\* Of every kind of evidence that stands once, there is one.
LEMMA OneIsSome ==
  ASSUME NEW h, NEW type, One(h, type)
  PROVE  Of(h, type) # {}
BY FS_EmptySet DEF One

\* A State judged completed was derived from a history that proves it.
LEMMA CompletedProof ==
  ASSUME plan.profile # "plan-only", NEW n, NEW h, NEW causes,
         NEW s, s = Derived(n, h, 0, causes), CompletionDisposition(s) = "completed"
  PROVE  Proved(h) /\ ~ s.ambiguous
<1>1. ~ Missing(s)
  BY DEF CompletionDisposition
<1>2. /\ s.gates = [g \in plan.gates |-> GateOf(g, h, 0)]
      /\ s.tasks = [t \in Tasks |-> <<StateOf(h, t), Codes(h, t)>>]
  BY DEF Derived, GatesOf
<1>3. \A g \in RequiredGates : GateOf(g, h, 0) = "PASS"
  BY <1>1, <1>2 DEF Missing, PassedGate
<1>4. \A t \in Tasks : h.state[t] = "COMPLETED"
  <2>1. \A t \in Tasks : StateOf(h, t) = "COMPLETED"
    BY <1>1, <1>2 DEF Missing
  <2>. QED BY <2>1 DEF StateOf
<1>5. {"G1", "G2"} \subseteq RequiredGates
  BY DEF RequiredGates
<1>6. plan.blocking = {}
  BY <1>3, <1>5 DEF GateOf
<1>7. /\ Of(h, "ledger") # {} /\ Good(h, "ledger")
      /\ Of(h, "handoff") # {} /\ Good(h, "handoff")
  <2>1. GateOf("G2", h, 0) = "PASS"
    BY <1>3, <1>5
  <2>. QED BY <2>1 DEF GateOf, G2Passes
<1>8. ASSUME plan.profile # "implemented"
      PROVE  Of(h, "review") # {} /\ Good(h, "review") /\ 0 \in plan.covers
  <2>1. GateOf("G3", h, 0) = "PASS"
    BY <1>3, <1>8 DEF RequiredGates
  <2>. QED BY <2>1 DEF GateOf, G3Passes
<1>9. ASSUME plan.profile = "release"
      PROVE  \A type \in {"manifest", "ui", "rc"} : Of(h, type) # {} /\ Good(h, type)
  <2>1. GateOf("G4", h, 0) = "PASS"
    BY <1>3, <1>9 DEF RequiredGates
  <2>2. \A type \in {"manifest", "ui", "rc"} : One(h, type) /\ Good(h, type)
    BY <2>1 DEF GateOf, G4Passes
  <2>. QED BY <2>2, OneIsSome
<1>10. ~ s.ambiguous
  BY <1>1 DEF Missing
<1>11. \A type \in NeededItems : Of(h, type) # {} /\ Good(h, type)
  BY <1>7, <1>8, <1>9 DEF NeededItems
<1>12. "review" \in NeededItems => 0 \in plan.covers
  BY <1>8 DEF NeededItems
<1>. QED BY <1>4, <1>6, <1>10, <1>11, <1>12 DEF Proved

\* An Outcome and what it says, from the call that produced it on.
Decided ==
  outcome # <<>> =>
    /\ Len(chain) # 0 /\ AmbiguityKept
    /\ outcome = <<"completed">> /\ plan.profile # "plan-only" => Proved(history[Newest.native])

\* Nothing else is judged completed.
LEMMA DispositionIs ==
  ASSUME NEW s
  PROVE  s.status # "COMPLETED" \/ s.ambiguous => CompletionDisposition(s) # "completed"
BY DEF CompletionDisposition, Missing

\* A terminal entry closes the chain without shedding an ambiguity.
LEMMA AmbiguityClosed ==
  ASSUME Course, outcome = <<>>, chain # <<>>, plan' = plan,
         NEW e, NEW s, s.ambiguous = Newest.ambiguous,
         chain' = Append(chain, Entry(e, s)),
         NEW disposition, outcome' = <<disposition>>, s.ambiguous => disposition # "completed"
  PROVE  AmbiguityKept' /\ Len(chain') # 0 /\ Newest' = s
<1>1. PICK n : n = Len(chain)
  OBVIOUS
<1>2. PICK S : chain \in Seq(S)
  BY DEF Course, ChainTyped
<1>3. /\ n \in Nat \ {0} /\ Len(chain') = n + 1 /\ chain'[n + 1] = Entry(e, s)
      /\ \A i \in 1..n : chain'[i] = chain[i]
      /\ Newest = chain[n].state
  BY <1>1, <1>2, Grown, Preceding DEF Course
<1>4. chain'[n + 1].state = s
  BY <1>3 DEF Entry
<1>5. ASSUME NEW j \in 1..(n + 1), chain'[j].state.ambiguous
      PROVE  /\ \A k \in j..(n + 1) : chain'[k].state.ambiguous
             /\ s.ambiguous
  <2>1. CASE j = n + 1
    BY <1>3, <1>4, <1>5, <2>1
  <2>2. CASE j \in 1..n
    <3>1. chain[j].state.ambiguous
      BY <1>3, <1>5, <2>2
    <3>2. \A k \in 1..n : j <= k => chain[k].state.ambiguous
      BY <1>1, <2>2, <3>1, AmbiguityCarried
    <3>3. s.ambiguous
      <4>1. n \in 1..n /\ j <= n
        BY <1>3, <2>2
      <4>. QED BY <1>3, <3>2, <4>1
    <3>4. \A k \in j..(n + 1) : k = n + 1 \/ (k \in 1..n /\ j <= k)
      BY <1>3, <2>2
    <3>. QED BY <1>3, <1>4, <3>2, <3>3, <3>4
  <2>. QED BY <1>3, <2>1, <2>2
<1>6. AmbiguityKept'
  BY <1>3, <1>5 DEF AmbiguityKept
<1>. QED BY <1>3, <1>4, <1>6 DEF Newest

\* Before any Outcome there is nothing to decide.
LEMMA DecidedInit == RuntimeInit => Decided
BY DEF RuntimeInit, Decided

\* Every step keeps an Outcome decided.
LEMMA DecidedNext == Course /\ Decided /\ [RuntimeNext]_runtimeVars => Decided'
<1>. SUFFICES ASSUME Course, Decided, [RuntimeNext]_runtimeVars
              PROVE  Decided'
  OBVIOUS
<1>1. ASSUME NEW CONSTANT h
      PROVE  plan' = plan => Proved(h)' = Proved(h)
  <2>. HAVE plan' = plan
  <2>1. Tasks' = Tasks /\ Items(h)' = Items(h) /\ NeededItems' = NeededItems
    BY ReadingsStay DEF NeededItems
  <2>. QED BY <2>1 DEF Proved, Of, Good
<1>2. CASE /\ chain' = chain /\ outcome' = outcome /\ plan' = plan
           /\ (history' = history \/ \E h : history' = Append(history, h))
  <2>. SUFFICES ASSUME outcome # <<>>
                PROVE  Decided'
    BY <1>2 DEF Decided
  <2>1. Len(chain) # 0 /\ AmbiguityKept
    BY DEF Decided
  <2>2. AmbiguityKept'
    BY <1>2, <2>1 DEF AmbiguityKept
  <2>3. Newest' = Newest /\ Newest.native \in 1..Current
    <3>1. Len(chain) \in 1..Len(chain)
      <4>1. Len(chain) \in Nat
        BY DEF Course, ChainTyped
      <4>. QED BY <2>1, <4>1
    <3>. QED BY <1>2, <3>1 DEF Newest, Course, InOrder
  <2>4. history'[Newest.native] = history[Newest.native]
    <3>1. history \in Seq(Projections)
      BY DEF Course, HistoryTyped
    <3>2. ASSUME NEW h, history' = Append(history, h)
          PROVE  history'[Newest.native] = history[Newest.native]
      <4>1. PICK S : S = Projections
        OBVIOUS
      <4>2. history \in Seq(S) /\ Newest.native \in 1..Len(history)
        BY <2>3, <3>1, <4>1 DEF Current
      <4>. QED BY <3>2, <4>2, Grown
    <3>. QED BY <1>2, <3>2
  <2>5. PICK h : h = history[Newest.native]
    OBVIOUS
  <2>6. Proved(h)' = Proved(h)
    BY <1>1, <1>2
  <2>7. outcome' = <<"completed">> /\ (plan.profile # "plan-only")' => Proved(history[Newest.native])'
    <3>. HAVE outcome' = <<"completed">> /\ (plan.profile # "plan-only")'
    <3>1. Proved(h)
      BY <1>2, <2>5 DEF Decided
    <3>2. history'[Newest'.native] = h
      BY <2>3, <2>4, <2>5
    <3>. QED BY <2>6, <3>1, <3>2
  <2>. QED BY <1>2, <2>1, <2>2, <2>7 DEF Decided
<1>3. CASE Transition
  BY <1>3 DEF Transition, Decided
<1>4. CASE Recover
  BY <1>4 DEF Recover, Decided
<1>5. CASE PublishOutcome
  <2>1. PICK p : p = Newest
    OBVIOUS
  <2>2. PICK s : s = Closed(p)
    OBVIOUS
  <2>3. PICK e : e = TerminalEvent(chain[Len(chain)], "outcome")
    OBVIOUS
  <2>4. PICK disposition : disposition = CompletionDisposition(p)
    OBVIOUS
  <2>5. /\ chain # <<>> /\ outcome = <<>> /\ plan' = plan /\ history' = history
        /\ chain' = Append(chain, Entry(e, s)) /\ outcome' = <<disposition>>
    BY <1>5, <2>1, <2>2, <2>3, <2>4 DEF PublishOutcome, Concluded, Newest
  <2>6. Len(chain) \in 1..Len(chain) /\ p = chain[Len(chain)].state
    BY <2>1, <2>5, Preceding DEF Course
  <2>7. /\ p = Derived(p.native, history[p.native], 0, CausesTo(chain, Len(chain)))
        /\ Stateful(p)
    BY <2>5, <2>6, OpenStates
  <2>8. s.ambiguous = p.ambiguous /\ s.native = p.native
    BY <2>2, <2>7, TerminalStates
  <2>9. p.ambiguous => disposition # "completed"
    BY <2>4, DispositionIs
  <2>10. AmbiguityKept' /\ Len(chain') # 0 /\ Newest' = s
    BY <2>1, <2>5, <2>8, <2>9, AmbiguityClosed
  <2>11. PICK h : h = history[p.native]
    OBVIOUS
  <2>12. disposition = "completed" /\ plan.profile # "plan-only" => Proved(h)
    <3>1. PICK n : n = p.native
      OBVIOUS
    <3>2. PICK causes : causes = CausesTo(chain, Len(chain))
      OBVIOUS
    <3>3. p = Derived(n, h, 0, causes)
      BY <2>7, <2>11, <3>1, <3>2
    <3>. QED BY <2>4, <3>3, CompletedProof
  <2>13. outcome' = <<"completed">> /\ (plan.profile # "plan-only")' => Proved(history[Newest.native])'
    <3>. HAVE outcome' = <<"completed">> /\ (plan.profile # "plan-only")'
    <3>1. Proved(h)
      BY <2>5, <2>12
    <3>2. Proved(h)'
      BY <1>1, <2>5, <3>1
    <3>3. history'[Newest'.native] = h
      BY <2>5, <2>8, <2>10, <2>11
    <3>. QED BY <3>2, <3>3
  <2>. QED BY <2>10, <2>13 DEF Decided
<1>6. CASE Supersede
  <2>1. PICK p : p = Newest
    OBVIOUS
  <2>2. PICK s : s = Superseded(p)
    OBVIOUS
  <2>3. PICK e : e = TerminalEvent(chain[Len(chain)], "supersession")
    OBVIOUS
  <2>4. PICK disposition : disposition = CompletionDisposition(s)
    OBVIOUS
  <2>5. /\ chain # <<>> /\ outcome = <<>> /\ plan' = plan /\ history' = history
        /\ chain' = Append(chain, Entry(e, s)) /\ outcome' = <<disposition>>
    BY <1>6, <2>1, <2>2, <2>3, <2>4 DEF Supersede
  <2>6. Len(chain) \in 1..Len(chain) /\ p = chain[Len(chain)].state
    BY <2>1, <2>5, Preceding DEF Course
  <2>7. Stateful(p)
    BY <2>5, <2>6, OpenStates
  <2>8. s.ambiguous = p.ambiguous /\ s.status = "SUPERSEDED"
    BY <2>2, <2>7, TerminalStates
  <2>9. disposition # "completed"
    BY <2>4, <2>8, DispositionIs
  <2>10. AmbiguityKept' /\ Len(chain') # 0
    BY <2>1, <2>5, <2>8, <2>9, AmbiguityClosed
  <2>11. outcome' # <<"completed">>
    BY <2>5, <2>9
  <2>. QED BY <2>10, <2>11 DEF Decided
<1>7. CASE \E cause \in ObservationCauses : FinalizeObservation(cause)
  <2>1. PICK cause \in ObservationCauses : FinalizeObservation(cause)
    BY <1>7
  <2>2. PICK x : x = Entry(ObservationEvent(cause), Closing(Current, history[Current], 0, cause))
    OBVIOUS
  <2>3. PICK c : c = <<x>>
    OBVIOUS
  <2>4. PICK p : p = x.state
    OBVIOUS
  <2>5. PICK y : y = Entry(TerminalEvent(x, "outcome"), Closed(p))
    OBVIOUS
  <2>6. PICK disposition : disposition = CompletionDisposition(p)
    OBVIOUS
  <2>7. /\ plan' = plan /\ Conclusive(c)
        /\ chain' = Append(c, y) /\ outcome' = <<disposition>>
    BY <2>1, <2>2, <2>3, <2>4, <2>5, <2>6 DEF FinalizeObservation, Concluded
  <2>8. Len(c) = 1 /\ c[1] = x
    BY <2>3
  <2>9. x.event.actor = "finalizer" /\ p = Closing(Current, history[Current], 0, cause)
    BY <2>2, <2>4 DEF Entry, ObservationEvent
  <2>10. p.status = "BLOCKED"
    <3>1. EntryHolds(c, 1)
      BY <2>7, <2>8 DEF Conclusive, ChainHolds
    <3>. QED BY <2>4, <2>8, <2>9, <3>1 DEF EntryHolds, ObservationHolds
  <2>11. disposition # "completed"
    BY <2>6, <2>10, DispositionIs
  <2>12. Stateful(p)
    <3>1. PICK h : h = history[Current]
      OBVIOUS
    <3>2. PICK n : n = Current
      OBVIOUS
    <3>3. p = Closing(n, h, 0, cause)
      BY <2>9, <3>1, <3>2
    <3>. QED BY <3>3, ClosingStateful
  <2>13. Closed(p).ambiguous = p.ambiguous
    BY <2>12, TerminalStates
  <2>14. /\ Len(chain') = 2 /\ chain'[1] = x /\ chain'[2] = y
    BY <2>3, <2>7
  <2>15. chain'[1].state.ambiguous = chain'[2].state.ambiguous
    BY <2>4, <2>5, <2>13, <2>14 DEF Entry
  <2>16. AmbiguityKept'
    <3>1. outcome' # <<"completed">>
      BY <2>7, <2>11
    <3>2. \A k \in 1..2 : k = 1 \/ k = 2
      OBVIOUS
    <3>3. \A j \in 1..2 : chain'[j].state.ambiguous =>
            \A k \in j..2 : chain'[k].state.ambiguous
      BY <2>15, <3>2
    <3>. QED BY <2>14, <3>1, <3>3 DEF AmbiguityKept
  <2>. QED BY <2>7, <2>11, <2>14, <2>16 DEF Decided
<1>8. CASE Advance
  BY <1>2, <1>8 DEF Advance
<1>9. CASE Drift \/ UNCHANGED runtimeVars
  BY <1>2, <1>9 DEF Drift, runtimeVars
<1>. QED BY <1>3, <1>4, <1>5, <1>6, <1>7, <1>8, <1>9 DEF RuntimeNext

\* An effect once ambiguous is on record in every later State, whichever of the calls wrote
\* it, and no Outcome is completed over it; a completed Outcome rests on what the scheduler
\* knew: every task completed, the evidence of the profile there and good, the review over
\* these files (completion_disposition, the gates and _ambiguities).
THEOREM OutcomesAreTrue == RuntimeSpec => []OutcomesTrue
<1>1. RuntimeSpec => []Decided
  BY DecidedInit, CourseKept, DecidedNext, PTL DEF RuntimeSpec
<1>2. Course /\ Decided => OutcomesTrue
  <2>. SUFFICES ASSUME Course, Decided
                PROVE  OutcomesTrue
    OBVIOUS
  <2>1. AmbiguityKept
    <3>1. CASE outcome = <<>>
      <4>1. \A j \in 1..Len(chain) : chain[j].state.ambiguous =>
              \A k \in 1..Len(chain) : j <= k => chain[k].state.ambiguous
        BY <3>1, AmbiguityCarried
      <4>2. Len(chain) \in Nat
        BY DEF Course, ChainTyped
      <4>. QED BY <3>1, <4>1, <4>2 DEF AmbiguityKept
    <3>2. CASE outcome # <<>>
      BY <3>2 DEF Decided
    <3>. QED BY <3>1, <3>2
  <2>2. CompletedIsProved
    BY DEF Decided, CompletedIsProved, Proved, NeededItems
  <2>. QED BY <2>1, <2>2 DEF OutcomesTrue
<1>. QED BY <1>1, <1>2, CourseKept, PTL
=============================================================================
