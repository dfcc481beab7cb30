CONSTANTS
  Programs <- AllPrograms
  Schedules <- DistinctNames
  QUANTUM = 2
  Unwritten <- NoTime
SPECIFICATION FairSpec
INVARIANTS
  SelectedTaskDeleted WaitBounded
PROPERTIES
  ImplementsReadyQueue EveryTaskFinishes
