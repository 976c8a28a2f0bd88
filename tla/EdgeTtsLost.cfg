SPECIFICATION Spec
CONSTANTS
  CommandLines <- MCCommandLines
  Answers <- MCAnswers
  MaxTokens = 2
  MaxChunks = 1
INVARIANTS
  LostOutputIsAnError
CHECK_DEADLOCK FALSE
