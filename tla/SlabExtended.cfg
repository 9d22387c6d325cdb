CONSTANTS
  NULL = NULL
  Slots = 1
  SlotSize = 1
  SlabSize = 2
  MetadataMax = 5
  InitMetadata = 2
  GuardInterval = 8
  MaxEmptyTotal = 3
  RandomLen = 1
  QueueLen = 2
  FreeQuarLen = 0
  ZeroClass = FALSE
  ExtendedClass = TRUE
  SlotRandomize = TRUE
  ZeroOnFree = TRUE
  WriteAfterFreeCheck = TRUE
  CanaryValues = {1}
  MaxDirty = 1
  MaxMisuse = 0
SPECIFICATION Spec
CHECK_DEADLOCK FALSE
INVARIANTS ListsExact
PROPERTIES DataKept QuarantineDelay
