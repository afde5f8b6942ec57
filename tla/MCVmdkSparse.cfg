SPECIFICATION Spec
CONSTANTS
  Tables = 2
  TableSize = 1
  GrainSize = 2
  Value = {0, 1}
  Zero = 0
  InDirectory = {0}
  InCopy = {0}
  HostPlaces = 2
INVARIANTS
  AtCurrentGrain
