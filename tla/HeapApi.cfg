CONSTANTS
  WordBits = 28
  Sizes = {0, 1, 8, 9, 57, 120, 129, 4088, 4089, 8192, 16376, 16377, 16384, 16385,
           20481, 131064, 131065, 131073, 33554432, 33554433, 234881024, 234881025, 268435455}
  Counts = {0, 3}
  Alignments = {0, 8, 16, 24, 64, 4096, 8192}
SPECIFICATION Spec
INVARIANTS RequestFits SizedFreeAccepted SizeClassExact
PROPERTIES ContentsKept
