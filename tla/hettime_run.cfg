SPECIFICATION RunSpec
CONSTANTS
  N = 1
  Real = {1}
  MaxCycles = 1
  PromptStop = FALSE
  CounterSize = 5
  Second = 2
  Frequencies <- MCFrequencies
  Governors <- MCGovernors
  Settings <- MCSettings
  MaxRuns = 2
  MaxTime = 2
  Levels = {1, 3}
  Interval = {1}
  MaxCalls = 2
INVARIANTS ResultsExact MeasuredWhileRunning DevicesRight IntervalsCounted
PROPERTIES RunEnds
CHECK_DEADLOCK FALSE
