SPECIFICATION Spec
CONSTANTS
  t1 = t1
  Threads = {t1}
  Busy = {}
  o1 = o1
  Objects = {o1}
  l1 = l1
  Letters = {l1}
  Null = Null
INVARIANTS ReachableStay
