SPECIFICATION FairSpec
CONSTANTS
  t1 = t1
  t2 = t2
  Threads = {t1, t2}
  Busy = {t1}
  o1 = o1
  Objects = {o1}
  l1 = l1
  Letters = {l1}
  Null = Null
PROPERTIES GarbageIsFreed
