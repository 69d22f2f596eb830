SPECIFICATION FairSpec
CONSTANTS
  N = 2
  Real <- MCBothReal
  MaxCycles = 2
  PromptStop = FALSE
PROPERTIES
  MeasurementCompletes
