SPECIFICATION FairSpec
CONSTANTS
  t1 = t1
  t2 = t2
  Threads = {t1, t2}
  TriggerPoint = 3
  LogEvery = 1
  Large = 2
  Sizes = {2}
  HandleLimit = 5
  IntRange = 16
  Main = Main
  CounterMod = 4
  MaxNesting = 2
INVARIANTS BytesAreCounted SingleAgrees
PROPERTIES CollectionsFollow SingleCollects
\* Nothing is followed from a truncation.
CHECK_DEADLOCK FALSE
