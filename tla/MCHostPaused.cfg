SPECIFICATION Spec
CONSTANTS
  UserActions = {"pause", "shutdown"}
  GuestActions = {}
  GracePolls = 2
  MaxKeys = 1
INVARIANTS
  FlushedBeforeExit
CHECK_DEADLOCK FALSE
