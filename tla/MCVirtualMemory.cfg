CONSTANTS
  PAGE_SIZE = 2
  PAGE_NUM = 4
  FRAME_NUM = 3
  TLB_SIZE = 2
  BackingStore <- DistinctBytes
  LogicalAddresses <- FirstBytesAndBeyond
  MaxAccesses = 9
SPECIFICATION Spec
INVARIANTS
  FramesExclusive TLBCoherent ReadsBackingStore
PROPERTIES
  ImplementsPaging
