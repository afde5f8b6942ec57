SPECIFICATION Spec
CONSTANTS
  Keys = {key}
  StreamHandles = 1
  StreamBytes = 3
  StreamLost = 2
  FlowHandles = 2
  FlowSends = 0
  FlowBytes = 1
  FlowLost = 1
  RetransmitTicks = 1
  MaxRetries = 1
  Ports = {1001, 1002}
  MaxDatagrams = 3
INVARIANTS
  TypeOK
  FlowsAgree
  SentAsGiven
  GuestReadsInOrder
PROPERTIES
  NothingPendsForever
CHECK_DEADLOCK FALSE
