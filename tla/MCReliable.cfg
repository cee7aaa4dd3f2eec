CONSTANTS
  MaxSeq = 5
  WindowSize = 3
  Client = Client
  Server = Server
  Capacity = 4
  MaxMessages <- MCMessages
  Oversized = {}
  Lifetime = 4
  NoPacket = NoPacket
SPECIFICATION SpecNoLose
INVARIANTS
  TypeOK
  AtMostOnce
  FreedWereDelivered
  SkippedWereDelivered
  BlocksAreThePackets
  NumbersStandForCounts
PROPERTIES
  ImplementsExactlyOnceChannel
CHECK_DEADLOCK FALSE
