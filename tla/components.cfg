SPECIFICATION ComponentsSpec
CONSTANTS
  None = None
  Nothing = None
  p1 = p1
  p2 = p2
  Procs = {p1, p2}
  Executors = {p1, p2}
  Writers = {p1, p2}
  Approvals <- ThreeApprovals
  Registries = {"registry"}
  Sources = {"registry", "database"}
  MaxVersion = 1
  MaxTime = 1
  MaxRecords = 2
  Registry <- FiveRoles
  RoleOrder <- Sorted
  Requests <- SomeRequests
  TreePlans <- SomeTrees
  Findings <- SomeFindings
  Grants <- ThreeGrants
  Offers <- SomeOffers
  Tool <- Probe
  Probes <- Endings
  Tokens = {"token"}
  MaxClock = 1
  MaxDeaths = 1
  MaxCalls = 3
  MaxSpent = 9
  SolverRequests <- SolverInputs
  Limits <- Reference
  Ttl = 2
  MaxNow = 2
  Misreported <- SomeMisreported
  Baseline <- OneBaseline
  Contents = {0, 1}
  Publishable = {0, 1}
  ClaimSets <- SomeClaims
  Records <- OneRecord
  DiffReview = "diff"
  InstallTest = "test"
  Reviews <- SomeReviews
  UiRecords <- SomeUi
  UiPresent = TRUE
  MaxCommits = 1
  MaxLooks = 2
  Plans <- SomePlans
  MaxHistory = 5
  MaxChain = 3
  Manifests <- SomeManifests
  Queries <- SomeQueries
  Canonical = 1
  EdgeCost = 1
  Envelope = 2
  MaxTotal = 9
  Heads <- TwoHeads
  Proposals <- SomeProposals
  Parts = {"migrations", "runtime", "context", "orchestration", "tools", "solver", "assurance", "ledgers"}
SYMMETRY AnyProcess
INVARIANTS
  RecordsReproduce
  OutcomesTrue
  ContextsWhole
  
  ExecutionsApproved
  VerdictsExact
  ReadyIsProved
  ClaimedBeforePublished
PROPERTIES
  WritesKept
  CopiesWhole
CHECK_DEADLOCK FALSE
