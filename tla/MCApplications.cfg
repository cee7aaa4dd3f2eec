CONSTANTS
  First = First
  Second = Second
  Client = {First, Second}
  Server = {North, South}
  Nil = Nil
  Numbers = 2
  Attempts = 1
  MaxAsks <- MCMaxAsks
  Author = Author
  Reader = Reader
  ChatClient = {Author, Reader}
  ChatServer = ChatServer
  MaxLines <- MCMaxLines
  MaxJoins <- MCMaxJoins
  Length <- MCLength
SPECIFICATION DemoSpec
INVARIANTS
  AllTypeOK
  ChatRemoteIsConnected
  
  RemoteIsConnected
  BurstIsWhole
  NothingCountedTwice
PROPERTIES
  EveryoneHears
CHECK_DEADLOCK FALSE
