CONSTANTS
  KbdQueue = 2
  MouseQueue = 6
  ControllerQueue = 1
  PacketMost = 1
  Movements = {2}
  KbdCommands = {"60", "d4", "d2", "aa", "a8", "ad", "a9"}
  KbdSettings = {{"irq1", "irq12"}, {"irq12", "kbdoff"}}
  KbdSends = {"ed", "f6", "ff"}
  MouseSends = {"f4", "f2"}
  KeysStruck = 2
  MovementKept = 2
  KbdWritten = 4
  RingStart = 2
  RingPages = 4
  PagesOfFrame = {1, 2, 3}
  FramesStored = 3
  CardWritten = 2
  DigitValues = 2
  SecondsCounted = 2
  ClockWritten = 3
  SoundBlocks = {1, 2}
  SoundOrders = 4
  OrdersBeside = 2
SPECIFICATION Spec
INVARIANTS
  TypeOK
  InterruptsAreSeen
  NothingTorn
  NothingStalls
  MovesWhatWasAsked
PROPERTIES
  KeysReadInOrder
CHECK_DEADLOCK FALSE
