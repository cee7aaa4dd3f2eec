CONSTANTS
  MaxSeq = 3
  WindowSize = 2
  Client = Client
  Server = Server
  Capacity = 3
  MaxMessages <- MCFewMessages
  Oversized <- MCOversized
  Lifetime = 3
  NoPacket = NoPacket
SPECIFICATION FairSpec
PROPERTIES
  EventuallyDelivered
CHECK_DEADLOCK FALSE
