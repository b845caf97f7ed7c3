CONSTANTS
  Block = 2
  SocketSize = 1
  MaxRequests = 6
SPECIFICATION Spec
INVARIANTS TypeOK Conserved JamNeedsBacklog
PROPERTIES JamIsForEver EveryRequestIsAnswered
CHECK_DEADLOCK FALSE
