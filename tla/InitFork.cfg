CONSTANTS
  t1 = t1
  t2 = t2
  Thread = {t1, t2}
  NoThread = NoThread
  NArena = 2
  NClass = 2
  MaxOps = 4
SPECIFICATION Spec
CHECK_DEADLOCK FALSE
INVARIANTS InitOnce ReadOnlyAfterInit LocksAccounted
PROPERTIES CallsReturn
