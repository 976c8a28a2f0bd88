SPECIFICATION Spec
CONSTANTS
  CommandLines <- MCCommandLines
  Answers <- MCAnswers
  MaxTokens = 2
  MaxChunks = 1
INVARIANTS
  UnreadInputIsAnError
CHECK_DEADLOCK FALSE
