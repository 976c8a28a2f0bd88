SPECIFICATION Spec
CONSTANTS
  Texts <- SomeTexts
  Limits = {1, 3, 4}
INVARIANTS
  UnitsWhole
  WithinLimit
  NothingLost
  WordsCutLast
  LinesKept
PROPERTY Terminates
CHECK_DEADLOCK FALSE
