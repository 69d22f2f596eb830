SPECIFICATION PartSpec
CONSTANTS
  msmonitor = msmonitor
  hettime = hettime
  Process <- MCProcess
  IPMI_MAX_TIMEOUT = 2
  Arg <- MCArg
  Serial = TRUE
  SetThenGet = TRUE
  CpuFile <- MCProcess
  IpmiFile <- MCIpmiFile
  nr_cpu_ids = 2
  NUM_OF_CORES = 2
  LSEEK_MAX_2 = TRUE
  MEMINFO = 3
  UINT64_MAX = 1000
  Sensor <- MCSensor
  Records <- MCRecords
  MaxRounds = 2
  MaxTries = 2
INVARIANTS
  SharedWhileOpen
  ReadingsRight
PROPERTIES
  IoctlReturns
CHECK_DEADLOCK FALSE
