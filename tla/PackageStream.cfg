CONSTANTS
  ping = ping
  add = add
  Message <- MCMessage
  BodyLength <- MCBodyLength
  HeaderSize = 2
  Block = 3
  WriteCapacity = 6
  ReadCapacity = 7
  SocketSize = 3
  MaxWrites = 2
SPECIFICATION Spec
INVARIANTS
  TypeOK
  StreamIntact
  ReceiverKeepsUp
PROPERTIES
  NothingIsSkipped
  AcceptedIsHandled
CHECK_DEADLOCK FALSE
