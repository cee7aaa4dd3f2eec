CONSTANTS
  Client = Client
  Server = Server
  Askers = {Client}
  MaxMessages <- MCMessages
  MaxRaw <- MCRaw
  Timeout = 1
  MaxEra = 4
  NoConnection = NoConnection
SPECIFICATION Spec
INVARIANTS
  OnlyWhatWasSent
CHECK_DEADLOCK FALSE
