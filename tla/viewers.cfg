SPECIFICATION ViewersSpec
CONSTANTS
  Size = 6
  Value <- MCValue
  Zero = 0
  Word = 32
  DataSamplingRate = 3
  HeatmapSamplingRate = 3
  TimeToBufferData = 18
  TimeToShowData = 15
  Shift = 10
  Interval <- MCInterval
  MaxTime = 23
  MaxLag = 6
  Garbage <- MCGarbage
  Lowest = 1000000
  Highest <- MCHighest
  Views <- MCViews
  Level = {1, 2}
  MaxData = {1, 2, 3}
  DefaultData = 2
  Intervals = {2, 3}
  GuiRate = {2000}
  Processes <- MCProcesses
  MaxRows = 4
  MaxStarts = 2
  MaxRare = 2
  MaxTurns = 4
INVARIANTS
  PointerGood
  HeatmapInWindow
  DrawnRows
  ExtremesHold
  RowsAreAnswers
  RunsOn
PROPERTIES
  WindowSpec
CHECK_DEADLOCK FALSE
