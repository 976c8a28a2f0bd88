SPECIFICATION Spec
CONSTANTS
  Capacity = 2
  BufferSize = 1
  MaxOutput = 3
  SignalsArrive = FALSE
  Paths <- MCPaths
INVARIANTS
  NothingLeftOpen
  ResultIsTheChilds
  TempFilesCleared
  PlayedOrReported
PROPERTIES
  RunReturns
CHECK_DEADLOCK FALSE
