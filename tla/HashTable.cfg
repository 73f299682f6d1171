SPECIFICATION Spec
CONSTANTS
  k1 = k1
  k2 = k2
  k3 = k3
  v1 = v1
  v2 = v2
  Keys = {k1, k2, k3}
  Values = {v1, v2}
  Absent = Absent
  Hashes = {0, 7, 15}
  InitialSize = 8
  Free = Free
  Skip = Skip
INVARIANTS CountsExact ProbesEnd
PROPERTIES ImplementsDictionary
