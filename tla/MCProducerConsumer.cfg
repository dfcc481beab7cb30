CONSTANTS
  BUFFER_SIZE = 2
  ProducerNum = 2
  ConsumerNum = 1
  Items <- MCItems
SPECIFICATION FairSpec
INVARIANTS
  TokensConserved NoErrorReported NoUseAfterDestroy
PROPERTIES
  ImplementsChannel ShutdownCompletes ItemsKeepFlowing
