SPECIFICATION Spec
CONSTANTS
  P = P
  None = None
  c1 = c1
  c2 = c2
  Events = 13
  Plans = {P}
  Names = {}
  Slots = {1, 2}
  Keys = {}
  Producers = {}
  MaxTicks = 1
  MaxTime = 0
  Room <- RoomForAll
  Clients = {c1, c2}
  Runs <- TwoFinishers
  MaxCrashes = 2
  TornPublish = FALSE
INVARIANTS ConfirmedIsPublished ReservedBeforePublished
PROPERTY TerminalCloses
CHECK_DEADLOCK FALSE
