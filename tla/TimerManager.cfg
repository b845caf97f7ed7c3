CONSTANTS
  t1 = t1
  t2 = t2
  t3 = t3
  Timer <- MCTimer
  Circle <- MCCircle
  Interval = {1}
  MaxTime = 2
SPECIFICATION Spec
INVARIANTS
  TypeOK
  NothingDueIsLeft
PROPERTIES
  ImplementsTimerSet
  DueTimerIsTaken
CHECK_DEADLOCK FALSE
