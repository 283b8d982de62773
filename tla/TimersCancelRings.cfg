SPECIFICATION Spec
CONSTANTS
  t1 = t1
  t2 = t2
  anna = anna
  bert = bert
  nobody = nobody
  None = nobody
  Timer = {t1, t2}
  Resident = {anna}
  MaxTime = 1
  MaxDuration = 2
  UtcOffset = 0
  LocalTimes = FALSE
  MaxRestarts = 0
PROPERTIES
  CancelledStaysSilent
CHECK_DEADLOCK FALSE
