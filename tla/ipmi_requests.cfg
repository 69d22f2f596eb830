SPECIFICATION FairSpec
CONSTANTS
  hettime = hettime
  msmonitor = msmonitor
  Reader <- MCReader
  MaxId = 4
  PromptCallback = TRUE
  Accepts = FALSE
CHECK_DEADLOCK FALSE
INVARIANTS
  AnswerIsOwn
PROPERTIES
  ReadReturns
