SPECIFICATION Spec
CONSTANTS
  Device = Device
  PC = PC
  NoPacket = NoPacket
  small = small
  large = large
  Packet <- MCPacket
  FrameCount <- MCFrameCount
  MaxFrames = 2
  MaxTries = 2
  MaxBacklog = 0
  MaxFaults = 1
  LateReplies = TRUE
  TypeFaults <- NoTypeFaults
INVARIANT RetryResendsFragment
