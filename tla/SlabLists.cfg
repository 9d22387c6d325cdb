CONSTANTS
  NULL = NULL
  Slots = 2
  SlotSize = 1
  SlabSize = 3
  MetadataMax = 5
  InitMetadata = 2
  GuardInterval = 2
  MaxEmptyTotal = 4
  RandomLen = 0
  QueueLen = 0
  FreeQuarLen = 2
  ZeroClass = FALSE
  ExtendedClass = FALSE
  SlotRandomize = FALSE
  ZeroOnFree = TRUE
  WriteAfterFreeCheck = FALSE
  CanaryValues = {1}
  MaxDirty = 0
  MaxMisuse = 0
SPECIFICATION Spec
CHECK_DEADLOCK FALSE
INVARIANTS TypeOK ListsExact PagesMatchUse GuardsStay StatsExact
