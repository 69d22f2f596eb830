SPECIFICATION PartSpec
CONSTANTS
  CPUS = 2
  CORES = 4
  CleanErrno = TRUE
  Environment <- MCEnvironment
  Offered <- MCOffered
  rapl = rapl
  nvml = nvml
  Component <- MCComponent
  PromptStop = FALSE
  DestroyUnstarted = FALSE
CHECK_DEADLOCK FALSE
INVARIANTS
  SetsFollowFiles
  MappingSound
  EverythingReported
  FinalOnRequest
  DoneIsComplete
PROPERTIES
  CallsReturn
