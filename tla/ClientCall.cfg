CONSTANTS
  c1 = c1
  c2 = c2
  None = None
  Call <- MCCall
  Size <- MCSize
  Programs = {TRUE, FALSE}
SPECIFICATION Spec
INVARIANTS
  TypeOK
  OwnResponse
  WokenWhenSettled
  
PROPERTIES
  DecidedOnce
  
CHECK_DEADLOCK FALSE
