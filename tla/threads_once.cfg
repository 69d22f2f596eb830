SPECIFICATION FairSpec
CONSTANTS
  N = 3
  Real <- MCRealAndStub
  MaxCycles = 1
  PromptStop = TRUE
INVARIANTS
  StartsTogether
  OneLateRound
  ResultsFinal
PROPERTIES
  WorkersEnd
  SessionSpec
