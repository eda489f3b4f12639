SPECIFICATION Spec
CONSTANTS
  a = a
  b = b
  c = c
  Names = {a, c}
  Limited = {c}
  Metered = {c}
  Requests = {r1, r2}
  Nobody = Nobody
  Lists <- MCLists
  From = a
  To = b
  MaxLimited = 2
  MaxSick = 1
  MaxFull = 1
  Renames = FALSE
SYMMETRY Symmetry
INVARIANTS OneProbes NobodyLeftInQueue
CHECK_DEADLOCK FALSE
