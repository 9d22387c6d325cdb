CONSTANTS
  NStates = 2
  CacheSize = 8
  BlockSize = 2
  ReseedSize = 16
  SeedSize = 3
  ValueSizes = {1, 2, 4}
  Width = 4
  MaxKeys = 4
SPECIFICATION Spec
CHECK_DEADLOCK FALSE
INVARIANTS UniformExact
PROPERTIES FreshBytes
