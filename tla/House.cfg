SPECIFICATION MCSpec
CONSTANTS
  Utterance = {"heard", "again", "sat", "kitchen"}
  Words <- SameWords
  BySatellite = {"sat", "kitchen"}
  InRoom = {"kitchen"}
  Resident = {"anna"}
  Household = "household"
  Guest = "guest"
  Nobody = "nobody"
  MaxHistory = 2
  ToolCall = {"c1", "c2"}
  MaxRows = 2
  MaxRequests = 2
  MaxBlind = 1
  MaxPack = 3
  MaxHa = 2
  MaxTokens = 5
  SmallModel = "e2b"
  BigModel = "12b"
  Request = {"r1", "r2"}
  Text <- Replies
  Capacity = {1, 2}
  MaxNumber = 999
  MirroredTurn = {"t1", "t2", "own"}
  Typed = {"own"}
  MaxDeltas = 1
  NoBubble = "nil"
INVARIANTS
  TypesOK
  AttributedOnce
  FollowUpsPaired
  OnlyAdminApproves
  DenialDropsVoice
  NoDuplicates
  CleanPassConverges
  TokensDelivered
  EndsWarmOnGpu
  MirroredOnce
  SpokenInOrder
  ReadsBack
PROPERTIES
  SoulKeptOrCurrent
CHECK_DEADLOCK FALSE
