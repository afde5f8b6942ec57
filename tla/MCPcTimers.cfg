SPECIFICATION Spec
CONSTANTS
  MaxTimers = 3
  CounterInterval = 4
  Delays <- MCDelays
  PollTimer = 1
  MaxCounter = 2
INVARIANTS
  TypeOK
  NoDeadlineInsidePeriod
PROPERTIES
  ImplementsAlarmClock
