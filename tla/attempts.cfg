SPECIFICATION Spec
CONSTANTS
  A = A
  B = B
  Tree = Tree
  Cap = Cap
  h1 = h1
  Scheduler = Scheduler
  Owner = Owner
  NoWorktree = NoWorktree
  NoLease = NoLease
  Tasks = {A, B}
  Hosts = {h1}
  Capabilities = {Cap}
  Dependencies <- AThenB
  ReviewTargets <- NoTasks
  ReadOnly <- AOnly
  MaxAttempts <- TwoAttempts
  ApprovalStops <- OwnerStopsA
  Worktree <- TreeOfA
  Required <- NoTasks
  Cost <- CheapTasks
  Limit <- Hurried
  MaxContextBytes = 2
  Ttl = 2
  IdOrder <- InOrder
  DispatchOrder <- InOrder
  Vocabulary <- AttemptTalk
  Horizon = 2
  MaxInbox = 1
  MaxRejected = 0
INVARIANTS
  Fenced
  AttemptsCounted
  RetriesPaid
  EffectsOnce
  DependenciesDone
  OneEnding
  ConcurrencyExact
  ApprovalsBound
  ReservationsExact
  WithinLimits
  CompletedProved
PROPERTIES
  AttemptsKept
CHECK_DEADLOCK FALSE
