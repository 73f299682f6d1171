SPECIFICATION SlSpec
CONSTANTS
  t1 = t1
  t2 = t2
  Threads = {t1, t2}
  c1 = c1
  c2 = c2
  c3 = c3
  c4 = c4
  Cells = {c1, c2, c3, c4}
  Nil = Nil
SYMMETRY ListSymmetry
INVARIANTS RingsOK WalkIsComplete
\* After a walk from an unset pointer nothing is defined any more.
CHECK_DEADLOCK FALSE
