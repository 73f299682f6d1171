SPECIFICATION Spec
CONSTANTS
  v1 = v1
  Values = {v1}
  Null = Null
  Reserved = 3
  Stride = 1
  MaxSize = 4
CONSTRAINT NotAllKept
INVARIANTS NothingMissed NothingStale
