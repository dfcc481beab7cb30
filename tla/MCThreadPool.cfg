CONSTANTS
  QUEUE_SIZE = 3
  NUMBER_OF_THREADS = 3
  WorkNumber = 5
SPECIFICATION FairSpec
INVARIANTS
  SemaphoresCountQueue SemaphoresGuardQueue EachTaskInOnePlace
  NoUseAfterDestroy
PROPERTIES
  ImplementsChannel PoolShutsDown
