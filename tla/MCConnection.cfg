CONSTANTS
  Client = Client
  Server = Server
  Askers = {Client}
  MaxMessages <- MCMessages
  MaxRaw <- MCRaw
  Timeout = 1
  MaxEra = 4
  NoConnection = NoConnection
SPECIFICATION FairSpec
INVARIANTS
  TypeOK
  OneConversation
  HandedOnce
PROPERTIES
  HalfOpenEnds
CHECK_DEADLOCK FALSE
