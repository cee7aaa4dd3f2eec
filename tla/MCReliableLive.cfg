CONSTANTS
  MaxSeq = 3
  WindowSize = 2
  Client = Client
  Server = Server
  Capacity = 3
  MaxMessages <- MCFewMessages
  Oversized = {}
  Lifetime = 3
  NoPacket = NoPacket
SPECIFICATION FairSpec
PROPERTIES
  EventuallyDelivered
  EventuallyFreed
CHECK_DEADLOCK FALSE
