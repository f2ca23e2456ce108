SPECIFICATION SchedulingSpec
CONSTANTS
  A = A
  B = B
  Tree = Tree
  Cap = Cap
  h1 = h1
  h2 = h2
  Scheduler = Scheduler
  Owner = Owner
  NoWorktree = NoWorktree
  NoLease = NoLease
  Parts = {"approvals", "budgets", "reviews", "hosts", "stops", "replies"}
INVARIANTS
  PromisesKept
  CommitsReplay
  EveryRowCounts
PROPERTIES
  RecoveredIsLive
CHECK_DEADLOCK FALSE
