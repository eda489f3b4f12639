SPECIFICATION Spec
CONSTANTS
  a = a
  b = b
  c = c
  Names = {a, b}
  Limited = {}
  Metered = {}
  Requests = {r1, r2}
  Nobody = Nobody
  Lists <- MCRename
  From = a
  To = b
  MaxLimited = 2
  MaxSick = 1
  MaxFull = 0
  Renames = TRUE
SYMMETRY Symmetry
INVARIANT NobodyLeftInQueue
CHECK_DEADLOCK FALSE
