SPECIFICATION GridSpec
CONSTANTS
  Box = 2
  Puzzles <- MCPuzzles
  Garbage <- MCGarbage
PROPERTY
  VerdictSound
INVARIANT
  ThreadsOutlived
