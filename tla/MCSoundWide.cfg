SPECIFICATION Spec
CONSTANTS
  Tracks = 1
  Spt = 1
  SectorBytes = 2
  ResultBytes = 2
  Starts = {}
  Counts = {2}
  MaxCommands = 0
  Blocks = {1, 2}
  MaxOrders = 2
INVARIANTS
  BlocksAreOfSamples
CHECK_DEADLOCK FALSE
