CONSTANTS
  NULL = NULL
  Slots = 2
  SlotSize = 1
  SlabSize = 2
  MetadataMax = 4
  InitMetadata = 2
  GuardInterval = 1
  MaxEmptyTotal = 0
  RandomLen = 1
  QueueLen = 1
  FreeQuarLen = 0
  ZeroClass = FALSE
  ExtendedClass = FALSE
  SlotRandomize = TRUE
  ZeroOnFree = TRUE
  WriteAfterFreeCheck = TRUE
  CanaryValues = {1, 2}
  MaxDirty = 2
  MaxMisuse = 1
SPECIFICATION Spec
CHECK_DEADLOCK FALSE
INVARIANTS FreeChecksExact SlotAccounting AbortsJustified
PROPERTIES FreshMemoryZero ImplementsPool
