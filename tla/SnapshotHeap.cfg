SPECIFICATION Spec
CONSTANTS
  t1 = t1
  t2 = t2
  Threads = {t1, t2}
  Busy = {t1}
  o1 = o1
  o2 = o2
  Objects = {o1, o2}
  l1 = l1
  Letters = {l1}
  Null = Null
SYMMETRY HeapSymmetry
CONSTRAINT NothingLeft
INVARIANTS ShTypeOK NoDangling SweepIsExact SnapshotIsCurrent NoStaleMark OneBarrier
PROPERTIES SnapshotIsFrozen
