SPECIFICATION Spec
CONSTANTS
  PinCount = 3
  Cascade = 1
  Devices <- CascadeDevices
  LevelCapable <- MCLevelCapable
  Commands <- InitCommands
  Masks <- EnableAll
PROPERTIES
  SlaveSignalRequestsMaster
