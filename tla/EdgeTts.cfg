SPECIFICATION Spec
CONSTANTS
  CommandLines <- MCCommandLines
  Answers <- MCAnswers
  MaxTokens = 3
  MaxChunks = 3
INVARIANTS
  LinesMeanTheSame
  OutputOrError
  OutputBegun
  NothingUnconfirmed
CHECK_DEADLOCK FALSE
