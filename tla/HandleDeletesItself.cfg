CONSTANTS
  p1 = p1
  p2 = p2
  None = None
  Poller <- MCPoller
  Fd = {1, 2}
  Connection = {1, 2}
  MaxClients = 1
  KernelMayFail = FALSE
SPECIFICATION Spec
INVARIANT DeletesItself
CHECK_DEADLOCK FALSE
