SPECIFICATION FairSpec
CONSTANTS
  Device = Device
  PC = PC
  NoPacket = NoPacket
  small = small
  large = large
  Packet <- MCPacket
  FrameCount <- MCFrameCount
  MaxFrames = 3
  MaxTries = 2
  MaxBacklog = 0
  MaxFaults = 1
  LateReplies = TRUE
  TypeFaults <- MCTypeFaults
INVARIANTS
  WholePacket
  LinkInv
PROPERTY SendReturns
