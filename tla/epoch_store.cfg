SPECIFICATION SpecStore
CONSTANTS
  P = P
  Q = Q
  None = None
  Plans = {P, Q}
  Names = {i, j}
  Slots = {x, y}
  Keys = {key}
  Producers = {run}
  MaxTicks = 1
  MaxTime = 0
  Room <- WholeAndStart
SYMMETRY Symmetric
INVARIANTS
  Replayed
  LinearHistory
  Isolated
  BoundOnce
PROPERTIES
  LedgerKept
CHECK_DEADLOCK FALSE
