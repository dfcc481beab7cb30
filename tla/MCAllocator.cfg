CONSTANTS
  memorySize = 14
  PageSize = 4
  Names = {p, q}
  Unused = Unused
  Sizes <- SizesEntered
  MaxRegions = 4
SPECIFICATION FairSpec
INVARIANTS
  ListWhole UnusedApart
PROPERTIES
  ImplementsRegionMap ReleaseEnds
