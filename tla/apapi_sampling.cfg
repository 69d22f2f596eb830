SPECIFICATION Spec
CONSTANTS
  Event <- MCEvent
  OpsTable <- MCOpsTable
  Advances = {0, 2}
  Levels = {1, 3}
  MaxTime = 5
  Timers = 2
  Softfail = FALSE
CHECK_DEADLOCK FALSE
INVARIANTS
  StatisticsOfMeasurement
  EnergyReported
