SPECIFICATION Spec
CONSTANTS
  Digit = 2
  MaxSeconds = 2
  MaxWrites = 4
INVARIANTS
  FrozenKeepsWrites
CHECK_DEADLOCK FALSE
