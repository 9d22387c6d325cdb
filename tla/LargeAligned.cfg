CONSTANTS
  t1 = t1
  Thread = {t1}
  Pages = 12
  Sizes = {2, 3}
  Aligns = {1, 4}
  Guards = {1}
  SkipSize = 2
  MoveSize = 2
  RandomLen = 1
  QueueLen = 0
  ToSlab = FALSE
  Failing = {"protect", "trim", "fixed", "insert", "unmap", "remap"}
  MaxOwned = 2
SPECIFICATION Spec
INVARIANTS MappedExactly
