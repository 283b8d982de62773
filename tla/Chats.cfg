SPECIFICATION MCSpec
CONSTANTS
  Request = {"r1", "r2"}
  Resident = {"anna", "ben"}
  Callers <- Asks
  Session = {"h", "a", "b"}
  Zuhause <- Durables
  Old = "old"
  Night = "cron"
  Half = 1
  Cap = 1
  None = "nil"
  User = {"anna", "ben"}
  Operator = {"anna"}
  Chat = {"h", "a"}
  DurableChat <- Durables
  HouseholdSlug = "household"
  OtherSlug = "school"
  NoSlug = ""
  JobCount = 3
  AgentJob = {1, 2}
  MaxSlot = 3
  MaxCuts = 1
  Prompting = {"t1", "t2"}
  TTL = 2
  TIMEOUT = 1
  MaxClock = 5
  NoList = NoList
  Entities <- House
  Runnable = {"script.bed", "script.sleep"}
  Name <- Names
  PartOf <- Parts
  Asking = {"c"}
  Switch = {"on", "off"}
  MaxWrites = 4
  MaxDay = 4
  Window <- Windows
  DefaultDays = 2
  MaxDays = 3
  MaxTransitions = 3
  NoEntity = "nil"
  TracedTurn = {"chat", "spoken", "other"}
  ChatOf <- TracedChats
  Stored = {"chat"}
  MaxSteps = 2
  Ring = 3
  DetailRing = 2
  MaxLives = 2
INVARIANTS
  TypesOK
  NothingForgotten
  HouseholdStaysFast
  OneRunPerSlot
  JobSessionsGo
  PromptIsRecent
  AnswersForTheHouse
  TraceIsTheTurns
PROPERTIES
  ImplementsChatLifecycle
  SlotsSettled
CHECK_DEADLOCK FALSE
