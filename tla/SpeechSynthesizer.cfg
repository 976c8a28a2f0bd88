SPECIFICATION Spec
CONSTANTS
  Answers <- SomeAnswers
  Listeners <- AllListeners
  MaxCalls = 3
  FlushMayFail = FALSE
INVARIANTS
  DeliveredInOrder
  OneTerminal
  CancelStopsDelivery
  FilesInOrder
  SavedMeansWritten
CHECK_DEADLOCK FALSE
