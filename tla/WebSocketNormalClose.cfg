SPECIFICATION Spec
CONSTANTS
  MaxConnects = 2
  MaxFrames = 2
INVARIANT TimeoutMeansSilence
CHECK_DEADLOCK FALSE
