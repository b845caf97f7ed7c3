CONSTANTS
  c1 = c1
  c2 = c2
  None = None
  Call <- MCCall
  Size <- MCSize
  Programs = {TRUE}
SPECIFICATION Spec
PROPERTY CallsEnd
CHECK_DEADLOCK FALSE
