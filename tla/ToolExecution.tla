--------------------------- MODULE ToolExecution ----------------------------
(***************************************************************************)
(* M2 tool execution: ExecutionController.execute runs one version probe   *)
(* through ToolService.check, which spends its approvals in the shared     *)
(* consumption file, and the caller persists the checkpoint it returns in  *)
(* a CheckpointStore.  Processes share the two files; each may die at any  *)
(* step.                                                                   *)
(*                                                                         *)
(* One tool and one command: a checkpoint of another command or context is *)
(* refused by execute and by validate_resume and changes nothing.  An      *)
(* approval is a record [id, type, from, until] for exactly this tool.     *)
(***************************************************************************)
EXTENDS Naturals, Sequences, FiniteSets

CONSTANTS
  Executors,      \* processes calling execute
  Grants,         \* approvals that exist
  Offers,         \* sets of them a call may present
  Tool,           \* the registry entry: [owner, technical, attempts, risk, network, here]
  Probes,         \* what the started probe may do, see Failure
  Tokens,         \* state_change_token values
  MaxClock,       \* bound: last reading of the clock
  MaxDeaths,      \* bound: crashes in a behaviour
  MaxCalls,       \* bound: calls of execute in a behaviour
  MaxSpent,       \* _MAX_CONSUMPTION_RECORDS
  Nothing         \* Python's None

\* _parse_tool: what a registry entry must satisfy to be loaded.
ToolLoads(tool) ==
  /\ {tool.owner, tool.technical}
       \subseteq {"not_required", "may_be_required", "required", "prohibited"}
  /\ tool.risk = "prohibited" => tool.owner = "prohibited"
  /\ tool.network => tool.owner = "required"
  /\ tool.attempts \in {1, 2}
ToolBounds ==
  /\ {MaxClock, MaxDeaths, MaxCalls, MaxSpent} \subseteq Nat
  /\ Offers \subseteq SUBSET Grants
  /\ Nothing \notin Executors
  /\ ToolLoads(Tool)

\* ExecutionApprovalLoader.parse: authority, risk and lifetime of an approval read now.
GrantLoads(g, now) ==
  /\ g.by = (CASE g.type = "owner" -> "Owner"
               [] g.type = "technical_sandbox" -> "Technical sandbox reviewer")
  /\ g.risk # "prohibited"
  /\ g.from <= now /\ g.from < g.until /\ now < g.until

VARIABLES
  clock,
  deaths,
  calls,
  spent,      \* records of the consumption file: [id, at]
  spendLock,  \* executor holding the lock file, "stale" after its death, or Nothing
  primary,    \* the checkpoint file: a checkpoint or Nothing
  backup,     \* its .bak
  copying,    \* the .bak.tmp every saver shares
  worker,     \* executor -> its place in execute() and save()
  ran         \* the processes started, in order: [ids, after] (history)

execVars == <<clock, deaths, calls, spent, spendLock, primary, backup, copying, worker, ran>>

Resting == [step |-> "idle"]
In(e, step) == worker[e].step = step
Move(e, step) == worker' = [worker EXCEPT ![e].step = step]

\* _RETRYABLE
Retryable == {"timeout", "sandbox", "network", "service"}

----------------------------------------------------------------------------
(* What execute and check decide before anything is written *)

\* CheckpointStore.load: the primary file, or its backup when there is none.
LoadCheckpoint == IF primary # Nothing THEN primary ELSE backup

\* _parse_checkpoint_object: the evidence rules every saved and loaded file meets.
WellFormed(c) ==
  /\ c.attempts \in 1..2
  /\ c.state = "completed" => c.status = "AVAILABLE" /\ c.failure = "none"
  /\ c.state = "blocked" => c.status # "AVAILABLE"

\* A retry continues a retryable failure with runs left and a recorded change.
MayRetry(prior, token) ==
  /\ prior.attempts < Tool.attempts
  /\ prior.failure \in Retryable
  /\ token # Nothing /\ token # prior.token

Requirement(type) == IF type = "owner" THEN Tool.owner ELSE Tool.technical
Additional(prior) ==
  IF prior # Nothing /\ prior.failure = "sandbox" THEN {"technical_sandbox"} ELSE {}
Needed(prior) ==
  {t \in {"owner", "technical_sandbox"} : Requirement(t) = "required"} \cup Additional(prior)

\* _approval_integrity_error repeats the loader's rules at the time of use.
Valid(g, at) == GrantLoads(g, at)
\* _approval_matches_tool: for exactly this operation, at this risk.
Matches(g) == g.tool /\ g.risk = Tool.risk

SpentBy(prior) == IF prior = Nothing THEN {} ELSE prior.ids

\* _approval_error: every offered approval is valid, and exactly one of each needed
\* type is offered that the last attempt did not spend.
Permitted(offered, prior, at) ==
  /\ \A g \in offered : Valid(g, at)
  /\ Tool.owner # "prohibited" /\ Tool.risk # "prohibited"
  /\ Additional(prior) # {} => Tool.technical \in {"may_be_required", "required"}
  /\ Tool.network => Tool.owner = "required"
  /\ \A t \in Needed(prior) :
       LET exact == {g \in offered : g.type = t /\ Matches(g)}
       IN  Cardinality(exact) = 1 /\ \A g \in exact : g.id \notin SpentBy(prior)

\* _applied_approval_ids
Applied(offered, prior) ==
  {g.id : g \in {o \in offered : o.type \in Needed(prior) /\ Matches(o)}}

\* classify_failure: the first class whose marker the diagnostic text holds.
MarkerOrder == <<"sandbox", "network", "authentication", "authorization", "permission",
                 "test", "workflow", "service">>
Classified(marks) ==
  LET hits == {i \in DOMAIN MarkerOrder : MarkerOrder[i] \in marks}
  IN  IF hits = {} THEN "unknown"
      ELSE MarkerOrder[CHOOSE i \in hits : \A j \in hits : i <= j]

\* What check concludes from how the probe ended: [end, marks] with the markers of its
\* output (or of the operating system's error).
Failure(probe) ==
  CASE probe.end = "version"     -> "none"
    [] probe.end = "unsupported" -> "version"
    [] probe.end = "missing"     -> "missing"
    [] probe.end = "timeout"     -> "timeout"
    [] probe.end = "denied"      -> "permission"
    [] probe.end = "oserror"     -> Classified(probe.marks)
    [] probe.end = "exit"        -> LET f == Classified(probe.marks)
                                    IN  IF f = "unknown" THEN "exit" ELSE f
\* _status_for_failure, and the statuses check gives itself.
Status(failure) ==
  CASE failure = "none"    -> "AVAILABLE"
    [] failure = "version" -> "UNSUPPORTED_VERSION"
    [] failure = "missing" -> "UNAVAILABLE"
    [] failure = "timeout" -> "TIMEOUT"
    [] failure \in {"permission", "sandbox"} -> "PERMISSION_DENIED"
    [] failure \in {"network", "refused", "platform"} -> "BLOCKED"
    [] OTHER -> "NON_ZERO_EXIT"

----------------------------------------------------------------------------
(* The steps of execute *)

\* The checkpoint execute returns, about to be saved by its caller.
Saving(prior, token, failure, ids) ==
  [step |-> "save",
   result |-> [attempts |-> IF prior = Nothing THEN 1 ELSE prior.attempts + 1,
               state |-> IF Status(failure) = "AVAILABLE" THEN "completed" ELSE "blocked",
               status |-> Status(failure), failure |-> failure, token |-> token, ids |-> ids]]
Ends(e, failure, ids) ==
  worker' = [worker EXCEPT ![e] = Saving(worker[e].prior, worker[e].token, failure, ids)]

\* From reading the checkpoint and the clock to the claim only local state is used.  The
\* policy may refuse, or the executable be missing: nothing runs and nothing is spent.
Start(e, prior, token, offered) ==
  /\ In(e, "idle") /\ calls < MaxCalls
  /\ calls' = calls + 1
  /\ prior # Nothing => MayRetry(prior, token)
  /\ LET ids == Applied(offered, prior)
         begun == [step |-> IF ids = {} THEN "run" ELSE "lock", prior |-> prior,
                   token |-> token, at |-> clock, seen |-> {}, ids |-> ids]
     IN  IF ~Tool.here
         THEN worker' = [worker EXCEPT ![e] = Saving(prior, token, "platform", {})]
         ELSE IF Permitted(offered, prior, clock)
         THEN \/ worker' = [worker EXCEPT ![e] = begun]
              \/ worker' = [worker EXCEPT ![e] = Saving(prior, token, "missing", {})]
         ELSE worker' = [worker EXCEPT ![e] = Saving(prior, token, "refused", {})]
  /\ UNCHANGED <<clock, deaths, spent, spendLock, primary, backup, copying, ran>>

\* ExecutionApprovalConsumptionStore.claim: exclusive lock file, read, replace, unlock.
M_LockSpending(e) ==
  /\ In(e, "lock")
  /\ spendLock' = IF spendLock = Nothing THEN e ELSE spendLock
  /\ Move(e, "read")
  /\ UNCHANGED <<clock, deaths, calls, spent, primary, backup, copying, ran>>
LockSpending(e) ==
  /\ In(e, "lock")
  /\ IF spendLock = Nothing
     THEN spendLock' = e /\ Move(e, "read")
     ELSE Ends(e, "refused", {}) /\ UNCHANGED spendLock
  /\ UNCHANGED <<clock, deaths, calls, spent, primary, backup, copying, ran>>
\* _load_consumption_records takes no record of a later reading.
Spendable(e) ==
  /\ \A r \in spent : r.at <= worker[e].at /\ r.id \notin worker[e].ids
  /\ Cardinality(spent) + Cardinality(worker[e].ids) <= MaxSpent
ReadSpent(e) ==
  /\ In(e, "read") /\ Spendable(e)
  /\ worker' = [worker EXCEPT ![e].step = "write", ![e].seen = spent]
  /\ UNCHANGED <<clock, deaths, calls, spent, spendLock, primary, backup, copying, ran>>
WriteSpent(e) ==
  /\ In(e, "write")
  /\ spent' = worker[e].seen \cup {[id |-> i, at |-> worker[e].at] : i \in worker[e].ids}
  /\ Move(e, "unlock")
  /\ UNCHANGED <<clock, deaths, calls, spendLock, primary, backup, copying, ran>>
\* The finally clause, after the claim or after its refusal.
UnlockSpending(e) ==
  /\ \/ In(e, "unlock") /\ Move(e, "run")
     \/ In(e, "read") /\ ~Spendable(e) /\ Ends(e, "refused", {})
  /\ spendLock' = IF spendLock = e THEN Nothing ELSE spendLock
  /\ UNCHANGED <<clock, deaths, calls, spent, primary, backup, copying, ran>>

\* The runner starts the probe; whatever comes of it is one failure class.
Run(e) ==
  /\ In(e, "run")
  /\ ran' = Append(ran, [ids |-> worker[e].ids, after |-> worker[e].prior])
  /\ \E probe \in Probes : Ends(e, Failure(probe), worker[e].ids)
  /\ UNCHANGED <<clock, deaths, calls, spent, spendLock, primary, backup, copying>>

----------------------------------------------------------------------------
(* CheckpointStore.save: back up the published file, then replace it *)

CopyPublished(e) ==
  /\ In(e, "save") /\ WellFormed(worker[e].result)
  /\ IF primary = Nothing
     THEN Move(e, "publish") /\ UNCHANGED copying
     ELSE Move(e, "backup") /\ copying' = primary
  /\ UNCHANGED <<clock, deaths, calls, spent, spendLock, primary, backup, ran>>
\* Another saver may have moved the shared temporary file away: save raises.
ReplaceBackup(e) ==
  /\ In(e, "backup")
  /\ IF copying = Nothing
     THEN worker' = [worker EXCEPT ![e] = Resting] /\ UNCHANGED <<backup, copying>>
     ELSE Move(e, "publish") /\ backup' = copying /\ copying' = Nothing
  /\ UNCHANGED <<clock, deaths, calls, spent, spendLock, primary, ran>>
ReplacePrimary(e) ==
  /\ In(e, "publish")
  /\ primary' = worker[e].result
  /\ worker' = [worker EXCEPT ![e] = Resting]
  /\ UNCHANGED <<clock, deaths, calls, spent, spendLock, backup, copying, ran>>

----------------------------------------------------------------------------

\* The lock file outlives the process that made it.
Die(e) ==
  /\ ~In(e, "idle") /\ deaths < MaxDeaths
  /\ deaths' = deaths + 1
  /\ worker' = [worker EXCEPT ![e] = Resting]
  /\ spendLock' = IF spendLock = e THEN "stale" ELSE spendLock
  /\ UNCHANGED <<clock, calls, spent, primary, backup, copying, ran>>
Pass ==
  /\ clock < MaxClock
  /\ clock' = clock + 1
  /\ UNCHANGED <<deaths, calls, spent, spendLock, primary, backup, copying, worker, ran>>

ExecInit ==
  /\ clock = 0 /\ deaths = 0 /\ calls = 0
  /\ spent = {} /\ spendLock = Nothing
  /\ primary = Nothing /\ backup = Nothing /\ copying = Nothing
  /\ worker = [e \in Executors |-> Resting]
  /\ ran = <<>>
ExecNext ==
  \/ Pass
  \/ \E e \in Executors :
       \/ \E prior \in {Nothing, LoadCheckpoint}, token \in Tokens \cup {Nothing},
             offered \in Offers : Start(e, prior, token, offered)
       \/ LockSpending(e) \/ ReadSpent(e) \/ WriteSpent(e) \/ UnlockSpending(e)
       \/ Run(e)
       \/ CopyPublished(e) \/ ReplaceBackup(e) \/ ReplacePrimary(e)
       \/ Die(e)
ExecSpec == ExecInit /\ [][ExecNext]_execVars

----------------------------------------------------------------------------
(* Properties *)

\* An approval starts one process: neither a retry from its checkpoint, nor a second
\* executor, nor a death between the claim and the run lets it start another
\* (claim before run, max_executions = 1).
ApprovalsSpentOnce ==
  \A i, j \in DOMAIN ran : i # j => ran[i].ids \cap ran[j].ids = {}

\* After a sandbox denial the retry runs under a technical approval, and not under the
\* one of the attempt that was denied.
SandboxRetryApproved ==
  \A i \in DOMAIN ran :
    ran[i].after # Nothing /\ ran[i].after.failure = "sandbox" =>
      \E g \in Grants : g.type = "technical_sandbox" /\ g.id \in ran[i].ids \ ran[i].after.ids

\* What execute starts was approved for it, and for nothing else.
ExecutionsApproved == ApprovalsSpentOnce /\ SandboxRetryApproved
=============================================================================
