SPECIFICATION Spec
CONSTANTS
  t1 = t1
  t2 = t2
  anna = anna
  bert = bert
  nobody = nobody
  None = nobody
  Timer = {t1, t2}
  Resident = {anna}
  MaxTime = 2
  MaxDuration = 2
  UtcOffset = 1
  LocalTimes = TRUE
  MaxRestarts = 0
PROPERTIES
  NoneOverlooked
CHECK_DEADLOCK FALSE
