SPECIFICATION MCSpec
CONSTANTS
  Utterance = {"heard", "again"}
  Words <- SameWords
  BySatellite = {}
  InRoom = {}
  Resident = {"anna", "ben"}
  Household = "household"
  Guest = "guest"
  Nobody = "nobody"
  MaxHistory = 2
  ToolCall = {"c1", "c2"}
  MaxRows = 2
  MaxRequests = 2
  MaxBlind = 1
  MaxPack = 3
  MaxHa = 2
  MaxTokens = 3
  SmallModel = "e2b"
  BigModel = "12b"
  Request = {"r1", "r2"}
  Text <- Replies
  Capacity = {1, 2}
  MaxNumber = 999
  MirroredTurn = {"t1", "t2", "own"}
  Typed = {"own"}
  MaxDeltas = 1
  NoBubble = "nil"
INVARIANTS
  NeverAnothersTurn
CHECK_DEADLOCK FALSE
