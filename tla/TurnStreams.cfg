SPECIFICATION Spec
CONSTANTS
  s1 = s1
  h1 = h1
  nil = nil
  None = nil
  Turn <- TwoStreams
  Session = {s1}
  Household = {}
  Streamed <- TwoStreams
  Voice <- NoTurns
  Drained <- NoTurns
  Tooled <- TwoStreams
  MaxPasses = 1
  MaxCalls = 2
INVARIANTS
  NoStaleCancel
  TranscriptInOrder
  ToolsOnRecord
  DeletedQuestionsStayDeleted
  CancelStopsTools
CHECK_DEADLOCK FALSE
