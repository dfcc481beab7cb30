SPECIFICATION Spec
CONSTANTS
  NULL = NULL
  Lines <- MCLines
  MaxLines = 2
  MaxArgs = 6
INVARIANT
  PipelineRunsItsWords
