CONSTANTS
  w1 = w1
  w2 = w2
  t1 = t1
  t2 = t2
  None = None
  Worker <- MCWorker
  Task <- MCTask
SPECIFICATION Spec
INVARIANTS TypeOK NoLostWakeup IdleMeansIdle
PROPERTIES ImplementsTaskPool EveryTaskRuns EveryTaskStarts QuitReturns
CHECK_DEADLOCK FALSE
