SPECIFICATION FairSpec
CONSTANTS
  NULL = NULL
  Lines <- MCLines
  MaxLines = 3
  MaxArgs = 6
INVARIANTS
  RunsItsWords
  HistoryOwned
  ForegroundWaited
  ZombiesCollected
PROPERTY
  PromptReturns
