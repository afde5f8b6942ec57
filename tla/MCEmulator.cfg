SPECIFICATION Spec
CONSTANTS
  \* every button, and all that the guest can do to the host
  UserActions = {"reset", "pause", "shutdown", "savelog", "answer", "modifier"}
  GuestActions = {"panic", "poweroff"}
  GracePolls = 2
  MaxKeys = 2
  MaxEvents = 7
  \* the timer of the interrupt and the one behind the gate
  Units = {0, 2}
  Digit = 4
  Delta = 3
  LowDigits = {0, 1, 3}
  HighDigits = {0, 1, 3}
  MaxCounts = 4
INVARIANTS
  TypeOK
  OnlyWaitingLoses
  PageAgrees
  PictureIsRight
  EventsInOrder
  CountsAreTrue
  UnitIsRight
PROPERTIES
  NothingIsLeftWaiting
CHECK_DEADLOCK FALSE
