SPECIFICATION Spec
CONSTANTS
  Window = 3
  Guess = 3
  Drifts <- MCDrifts
  Bodies <- MCBodies
  Filters <- MCFilters
  MaxCalls = 3
  MaxTime = 3
INVARIANTS
  GuessesAreUndone
  ListIsTheAnswer
PROPERTIES
  CallReturns
CHECK_DEADLOCK FALSE
