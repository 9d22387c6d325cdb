CONSTANTS
  t1 = t1
  t2 = t2
  Thread = {t1, t2}
  Pages = 9
  Sizes = {1}
  Aligns = {1, 4}
  Guards = {1}
  SkipSize = 9
  MoveSize = 9
  RandomLen = 0
  QueueLen = 1
  ToSlab = FALSE
  Failing = {"trim"}
  MaxOwned = 2
SYMMETRY ThreadSymmetry
SPECIFICATION Spec
INVARIANT OwnedIntact
