\* Two thread numbers, and the slots the code has for that many.
SPECIFICATION PoolSpec
CONSTANTS
  t1 = t1
  t2 = t2
  Collector = Collector
  Threads = {t1, t2, Collector}
  BlockSize = 2
  Blocks = 3
  MaxLen = 6
  End = End
  Object = Object
INVARIANTS OnePlace
\* Nothing is defined after the use of an undefined index.
CHECK_DEADLOCK FALSE
