CONSTANTS
  NUMBER_OF_CUSTOMERS = 3
  Resources <- TwoResources
  Vectors <- FewVectors
  Numbers <- AllNumbers
  AllocationRow <- AllocationInMemory
  NeedRow <- NeedInMemory
  MaxMisuses = 1
SPECIFICATION Spec
INVARIANTS
  BooksBalance SearchIsExact SomeoneCanFinish
PROPERTIES
  ImplementsLedger
