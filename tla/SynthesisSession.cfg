SPECIFICATION Spec
CONSTANTS
  NumChunks = 2
  MaxRetries = 1
  Frames <- AllFrames
  MaxItems = 4
  Drifts <- Drifts7
  Window = 3
  BaseTime = 10
  MaxTime = 12
  Honesty = {TRUE, FALSE}
INVARIANTS
  ClosedOnReturn
  SpokenOnce
  CancelStopsReading
  BoundariesInOrder
  RetryTokenFollowsService
  WrongClockRecovered
PROPERTIES
  KeepsPromise
  CancelledCallReturns
CHECK_DEADLOCK FALSE
