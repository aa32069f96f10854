SPECIFICATION Spec
CONSTANTS
  Device = Device
  PC = PC
  NoPacket = NoPacket
  RequestFrames = 2
  MaxTries = 2
  LateReplies = TRUE
  MaxFaults = 1
  MaxDispatches = 2
  MaxBoots = 2
  MaxUnits = 2
INVARIANTS
  TypeOK
  SuccessMeansWritten
  WrittenOnce
  RebootMeansWritten
  FailedMeansUnwritten
  RebootMeansReported
PROPERTIES
  StationSpec
CHECK_DEADLOCK FALSE
