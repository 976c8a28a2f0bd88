SPECIFICATION Spec
CONSTANTS
  MaxConnects = 3
  MaxFrames = 2
INVARIANTS
  OneRunThread
PROPERTIES
  ImplementsStream
  ItemWakesReceiver
  JoinReturns
CHECK_DEADLOCK FALSE
