CONSTANTS
  s1 = s1
  s2 = s2
  NULL = NULL
  Addr = {1, 2, 3, 4}
  Size = {s1, s2}
  InitialTotal = 8
  MaxTotal = 8
  HashValues = {0, 1, 7}
  LowestFirst = TRUE
  Used = {1, 2, 3}
SPECIFICATION Spec
INVARIANTS ProbesUnbroken
PROPERTIES OperationsReturn
