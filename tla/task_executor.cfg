CONSTANTS
  t1 = t1
  t2 = t2
  t3 = t3
  none = none
  Task <- MCTask
  Limits <- MCLimits
  Unlimited = none
  MaxTimers = 3

SPECIFICATION Spec

INVARIANT TypeOK
INVARIANT SlotsExact
INVARIANT NoLostWakeup
PROPERTY ImplementsPool
PROPERTY EveryTaskStarts
