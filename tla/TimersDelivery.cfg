SPECIFICATION FairSpec
CONSTANTS
  t1 = t1
  t2 = t2
  anna = anna
  bert = bert
  nobody = nobody
  None = nobody
  Timer = {t1, t2}
  Resident = {anna, bert}
  MaxTime = 2
  MaxDuration = 2
  UtcOffset = 1
  LocalTimes = TRUE
  MaxRestarts = 1
INVARIANTS
  NeverEarly
  RingAccounting
PROPERTIES
  ImplementsTimerLifecycle
  DueIsSettled
CHECK_DEADLOCK FALSE
