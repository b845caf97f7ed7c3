CONSTANTS
  ping = ping
  add = add
  Capacity = 6
  HeaderSize = 2
  BlockSize = 4
  Package <- MCPackage
  BodyLength <- MCBodyLength
SPECIFICATION Spec
INVARIANT TypeOK
PROPERTY ImplementsByteQueue
