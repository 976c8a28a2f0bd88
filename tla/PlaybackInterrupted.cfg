SPECIFICATION Spec
CONSTANTS
  Capacity = 2
  BufferSize = 1
  MaxOutput = 3
  SignalsArrive = TRUE
  Paths <- MCPaths
PROPERTIES
  RunReturns
CHECK_DEADLOCK FALSE
