SPECIFICATION Spec
CONSTANTS
  Event <- MCEvent
  OpsTable <- MCOpsTable
  Advances = {0, 2}
  Levels = {1, 3}
  MaxTime = 4
  Timers = 1
  Softfail = FALSE
PROPERTY
  MapsLastSample
CHECK_DEADLOCK FALSE
