CONSTANTS
  NameCount = 4
  PageSize = 2
  ChunkSize = 2
  MaxChanges = 2

SPECIFICATION FairSpec

INVARIANTS
  ListingIsExact
  SuccessMeansDeleted
  SuccessMeansStored

PROPERTIES
  CallsReturn

CHECK_DEADLOCK FALSE
