SPECIFICATION Spec
CONSTANTS
  PinCount = 3
  Cascade = 1
  Devices <- MCDevices
  LevelCapable <- MCLevelCapable
  Commands <- MCCommands
  Masks <- MCMasks
INVARIANTS
  TypeOK
  ChosenNotInService
  IntrFollowsMaster
  RequestsHaveLines
PROPERTIES
  OnlySetPriorityStrands
  FullyNested
  OnlyInitSeparates
