\* Three objects make every path, cycle and shared object with a way back of two steps.
SPECIFICATION Spec
CONSTANTS
  o1 = o1
  o2 = o2
  o3 = o3
  Objects = {o1, o2, o3}
  MaxVars = 2
  Null = Null
SYMMETRY ObjectSymmetry
INVARIANTS MkTypeOK MarksExactly WalkIsOnCourse
PROPERTIES WalkEnds
