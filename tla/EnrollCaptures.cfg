SPECIFICATION FairSpec
CONSTANTS
  anna = anna
  bert = bert
  c1 = c1
  c2 = c2
  c3 = c3
  nobody = nobody
  None = nobody
  Uid = {anna, bert}
  Capture = {c1, c2, c3}
  Target = 2
  Ttl = 0
  MaxTime = 1
  MaxUncleared = 1
INVARIANTS
  ProfilesComplete
  EachResidentEnrolled
PROPERTIES
  ImplementsSampleLifecycle
  EveryCaptureReturns
CHECK_DEADLOCK FALSE
