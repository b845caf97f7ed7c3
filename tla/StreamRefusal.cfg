CONSTANTS
  ping = ping
  add = add
  Message <- MCMessage
  BodyLength <- MCEqualLength
  HeaderSize = 2
  Block = 4
  WriteCapacity = 7
  ReadCapacity = 9
  SocketSize = 4
  MaxWrites = 2
SPECIFICATION Spec
INVARIANT OnlyTheRefusedIsLost
CHECK_DEADLOCK FALSE
