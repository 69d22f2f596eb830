SPECIFICATION Spec
CONSTANTS
  power = power
  heatmap = heatmap
  Form <- MCForm
  Plot <- MCPlot
  PromptStop = FALSE
  MaxAllocations = 2
  MaxRows = 2
  MaxQueued = 1
CHECK_DEADLOCK FALSE
INVARIANTS
  QuietWhenStopped
  RowsInStep
  FormsOutliveTimers
PROPERTIES
  StopReturns
  PlotsCatchUp
