CONSTANTS
  Width = 2
  SlotCounts = {3, 4, 5, 7, 8}
  TaggedMax = 3
  Tags = 5
  Canaries = {0, 1, 2}
SPECIFICATION Spec
INVARIANTS SearchExact OverflowCaught NoFalseAbort
PROPERTIES DanglingCaught
