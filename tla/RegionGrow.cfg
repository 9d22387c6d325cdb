CONSTANTS
  s1 = s1
  NULL = NULL
  Addr = {1, 2, 3, 4, 5, 6, 7, 8}
  Size = {s1}
  InitialTotal = 8
  MaxTotal = 16
  HashValues = {0, 8}
  LowestFirst = TRUE
  Used = {3, 8}
SPECIFICATION Spec
INVARIANTS FreeCountExact ArraysReady
PROPERTIES ImplementsMap
