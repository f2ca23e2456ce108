SPECIFICATION Spec
CONSTANTS
  A = A
  B = B
  Tree = Tree
  Cap = Cap
  h1 = h1
  h2 = h2
  Scheduler = Scheduler
  Owner = Owner
  NoWorktree = NoWorktree
  NoLease = NoLease
  Tasks = {A, B}
  Hosts = {h1, h2}
  Capabilities = {Cap}
  Dependencies <- NoTasks
  ReviewTargets <- NoTasks
  ReadOnly <- AOnly
  MaxAttempts <- TwoAttempts
  ApprovalStops <- NoTasks
  Worktree <- NoTrees
  Required <- CapForA
  Cost <- FreeTasks
  Limit <- TwoSlots
  MaxContextBytes = 2
  Ttl = 1
  IdOrder <- InOrder
  DispatchOrder <- InOrder
  Vocabulary <- HostTalk
  Horizon = 2
  MaxInbox = 1
  MaxRejected = 0
INVARIANTS
  ReadinessReplay
CHECK_DEADLOCK FALSE
