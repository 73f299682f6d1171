SPECIFICATION FairSpec
CONSTANTS
  t1 = t1
  t2 = t2
  Threads = {t1, t2}
  CounterMod = 4
  MaxNesting = 1
PROPERTIES CollectionCompletes
CHECK_DEADLOCK FALSE
