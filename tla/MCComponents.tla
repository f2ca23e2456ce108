----------------------------- MODULE MCComponents -----------------------------
(***************************************************************************)
(* The components that keep their state in documents, in one run: a        *)
(* behaviour draws one component at the start and stays with it, while the *)
(* others rest.  The properties are those of the components, by name.      *)
(***************************************************************************)
EXTENDS ComponentSafety, Orchestration, ToolExecution, Solver, WorkflowRuntime,
        Context, ComponentCases

CONSTANT Parts  \* the components of this run

VARIABLE part

\* The release gates without gates: two writers of one ledger.
Ledgers == INSTANCE Assurance WITH
  Records <- TwoRecords, Reviews <- {}, UiRecords <- {}, MaxLooks <- 0

ASSUME OrchestrationBounds
ASSUME ToolBounds
ASSUME AssuranceBounds /\ Ledgers!AssuranceBounds
ASSUME SolverBounds

-----------------------------------------------------------------------------
\* What a component rests in: nothing was asked for, and nothing is recorded.
AgentsRest == request = None /\ planned = [verdict |-> "none"] /\ resolved = {}
SolverRests ==
  /\ asked = None /\ intact = TRUE /\ time = 0 /\ held = None
  /\ search = <<>> /\ reported = <<>> /\ honest = FALSE /\ verdict = <<>> /\ adopted = "none"
RuntimeRests ==
  plan = None /\ tree = 0 /\ history = <<>> /\ chain = <<>> /\ outcome = <<>>
ContextRests ==
  /\ manifest = None /\ query = None /\ head = 0
  /\ graph = <<>> /\ selection = <<>> /\ snapshot = <<>> /\ compaction = <<>> /\ report = <<>>

ComponentsInit ==
  /\ part \in Parts
  /\ Init /\ ExecInit /\ AssuranceInit
  /\ IF part = "orchestration" THEN OrchestrationInit ELSE AgentsRest
  /\ IF part = "solver" THEN SolverInit ELSE SolverRests
  /\ IF part = "runtime" THEN RuntimeInit ELSE RuntimeRests
  /\ IF part = "context" THEN ContextInit ELSE ContextRests

ComponentsNext ==
  /\ UNCHANGED part
  /\ IF part = "migrations" THEN Next ELSE UNCHANGED vars
  /\ IF part = "orchestration" THEN OrchestrationNext ELSE UNCHANGED orchestrationVars
  /\ IF part = "tools" THEN ExecNext ELSE UNCHANGED execVars
  /\ IF part = "solver" THEN SolverNext ELSE UNCHANGED solverVars
  /\ IF part = "runtime" THEN RuntimeNext ELSE UNCHANGED runtimeVars
  /\ IF part = "context" THEN ContextNext ELSE UNCHANGED contextVars
  /\ CASE part = "assurance" -> AssuranceNext
       [] part = "ledgers" -> Ledgers!AssuranceNext
       [] OTHER -> UNCHANGED assuranceVars

componentVars ==
  <<part, vars, orchestrationVars, execVars, solverVars, runtimeVars, contextVars, assuranceVars>>
ComponentsSpec == ComponentsInit /\ [][ComponentsNext]_componentVars

\* Executors, writers and migrating processes are interchangeable.
AnyProcess == Permutations(Procs)
=============================================================================
