SPECIFICATION Spec
CONSTANTS
  Olds = {o1, o2}
  News = {n1, n2}
  Limits = {0, 1, 2}
  MaxChanges = 2
SYMMETRY Alike
INVARIANTS PassesConserved PhantomsFollow
CHECK_DEADLOCK FALSE
