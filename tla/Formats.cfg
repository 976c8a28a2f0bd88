SPECIFICATION Spec
CONSTANTS
  MaxSize = 7
  MaxMetadata = 3
  TicksPerMs = 10
  MaxText = 4
  MaxPieces = 7
  BinaryFrames <- MCBinaryFrames
  TextFrames <- MCTextFrames
  Boundaries <- MCBoundaries
  Texts <- MCTexts
  VoiceNames <- MCVoiceNames
  Configs <- MCConfigs
  Chunks <- MCChunks
  Wires <- MCWires
  Dates <- MCDates
  Years = {1970, 1972, 1999, 2000, 2023, 2024, 2099, 2100, 2399, 2400}
INVARIANTS
  FramesAsSent
  SubtitlesReadBack
  TextKept
  RequestsReadBack
  DatesFollowCalendar
CHECK_DEADLOCK FALSE
