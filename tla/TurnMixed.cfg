SPECIFICATION FairSpec
CONSTANTS
  s1 = s1
  h1 = h1
  nil = nil
  None = nil
  Turn <- StreamAndOther
  Session = {s1, h1}
  Household = {h1}
  Streamed = {"stream1"}
  Voice = {"other1"}
  Drained = {"other1"}
  Tooled = {"stream1"}
  MaxPasses = 2
  MaxCalls = 1
INVARIANTS
  TypeOK
PROPERTIES
  EveryTurnEnds
  CancelWins
  ImplementsLifecycle
CHECK_DEADLOCK FALSE
