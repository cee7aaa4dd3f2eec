CONSTANTS
  MaxSeq = 3
  WindowSize = 2
  Client = Client
  Server = Server
  Capacity = 3
  MaxMessages <- MCMessages
  Lifetime = 4
  NoPacket = NoPacket
SPECIFICATION SpecNoLose
INVARIANTS
  TypeOK
  InOrderOnce
  FreedWereDelivered
  BlocksAreThePackets
  NumbersStandForCounts
PROPERTIES
  AckMovesForward
  ImplementsFifoChannel
CHECK_DEADLOCK FALSE
