SPECIFICATION FairFileSpec
CONSTANTS
  Readers = {r1, r2}
  Pids = {1, 2}
  WordSize = 8
  HZ = 2
  LoadTimes <- MCLoadTimes
  MaxTicks = 3
INVARIANTS
  ValuesCurrent
  LoneReaderServed
PROPERTY
  LoneReaderEnds
