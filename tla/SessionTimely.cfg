SPECIFICATION FairSpec
CONSTANTS
  Device = Device
  PC = PC
  NoPacket = NoPacket
  RequestFrames = 2
  MaxTries = 2
  LateReplies = FALSE
  MaxFaults = 1
  MaxDispatches = 2
  MaxBoots = 3
  MaxUnits = 2
PROPERTIES
  DispatchReturns
  ManagerReturns
CHECK_DEADLOCK FALSE
