CONSTANTS
  t1 = t1
  t2 = t2
  Thread = {t1, t2}
  Pages = 11
  Sizes = {1, 3, 4}
  Aligns = {1, 2}
  Guards = {1}
  SkipSize = 2
  MoveSize = 2
  RandomLen = 1
  QueueLen = 1
  ToSlab = TRUE
  Failing = {"protect", "fixed", "insert", "remap"}
  MaxOwned = 2
SYMMETRY ThreadSymmetry
SPECIFICATION Spec
INVARIANTS TypeOK RangesApart OwnedIntact TableExact QuarantineSealed
PROPERTIES ContentsKept DataKept
