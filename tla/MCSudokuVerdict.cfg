SPECIFICATION GridSpec
CONSTANTS
  Box = 2
  Puzzles <- MCPuzzles
  Garbage <- MCGarbage
INVARIANT
  ValidMeansValid
