SPECIFICATION FairSpec
CONSTANTS
  A = A
  B = B
  C = C
  Tree = Tree
  Cap = Cap
  h1 = h1
  Scheduler = Scheduler
  Owner = Owner
  NoWorktree = NoWorktree
  NoLease = NoLease
  Tasks = {A, B, C}
  Hosts = {h1}
  Capabilities = {Cap}
  Dependencies <- Independent
  ReviewTargets <- Independent
  ReadOnly <- AOnly
  MaxAttempts <- TwoTries
  ApprovalStops <- Independent
  Worktree <- SharedTree
  Required <- Independent
  Cost <- NoCosts
  Limit <- TwoSlots
  MaxContextBytes = 2
  Ttl = 1
  IdOrder <- ById
  DispatchOrder <- BLast
  Vocabulary <- ProgressTalk
  Horizon = 2
  MaxInbox = 1
  MaxRejected = 0
INVARIANTS
  TypeOK
  Authority
  WorktreeExclusive
PROPERTIES
  ExpiryIsNoticed
  NoStarvation
CHECK_DEADLOCK FALSE
