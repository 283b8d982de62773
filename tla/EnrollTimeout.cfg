SPECIFICATION Spec
CONSTANTS
  anna = anna
  bert = bert
  c1 = c1
  c2 = c2
  c3 = c3
  nobody = nobody
  None = nobody
  Uid = {anna}
  Capture = {c1, c2}
  Target = 2
  Ttl = 0
  MaxTime = 1
  MaxUncleared = 0
PROPERTIES
  NoTimeoutInFlight

CHECK_DEADLOCK FALSE
