SPECIFICATION Spec
CONSTANTS
  Requests = {r1, r2}
  Commands = {c1}
  Seeds = {}
  HandMarks = {bad, unb, key}
  Broken = {bad}
  Unbuildable = {unb}
  Key = {key}
  Worlds <- MCOverlapping
  MaxSaves = 0
  MaxCrashes = 0
INVARIANT Agreed
CHECK_DEADLOCK FALSE
