SPECIFICATION Spec
CONSTANTS
  A = A
  B = B
  Tree = Tree
  Cap = Cap
  h1 = h1
  Scheduler = Scheduler
  Owner = Owner
  NoWorktree = NoWorktree
  NoLease = NoLease
  Tasks = {A, B}
  Hosts = {h1}
  Capabilities = {Cap}
  Dependencies <- NoTasks
  ReviewTargets <- NoTasks
  ReadOnly <- AOnly
  MaxAttempts <- TwoAttempts
  ApprovalStops <- OwnerStopsA
  Worktree <- NoTrees
  Required <- NoTasks
  Cost <- FreeTasks
  Limit <- OneSlot
  MaxContextBytes = 2
  Ttl = 1
  IdOrder <- InOrder
  DispatchOrder <- InOrder
  Vocabulary <- Silence
  Horizon = 3
  MaxInbox = 1
  MaxRejected = 0
INVARIANTS
  ProposalsMayExpire
CHECK_DEADLOCK FALSE
