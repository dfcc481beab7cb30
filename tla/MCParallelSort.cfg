SPECIFICATION Spec
CONSTANTS
  IntMax = 1
  Inputs <- MCInputs
INVARIANTS
  ResultSorted
  SplitHolds
