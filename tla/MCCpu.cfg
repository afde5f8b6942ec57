SPECIFICATION Spec
CONSTANTS
  LinearPages = {0, 2}
  TlbSlots = 2
  AddressSpaces = {1, 2}
  TableEdits = 1
  ArithmeticSteps = 2
  Evictions = 2
  LevelChanges = 3
INVARIANTS
  TypeOK
  FlagsAreExact
  TranslationIsAllowed
  FaultsRestart
  PrivilegeIsKept
CHECK_DEADLOCK FALSE
