SPECIFICATION Spec
CONSTANTS
  Requests = {r1, r2}
  Commands = {c1}
  Seeds = {r2}
  HandMarks = {bad, unb, key}
  Broken = {bad}
  Unbuildable = {unb}
  Key = {key}
  Worlds <- MCWorlds
  MaxSaves = 2
  MaxCrashes = 1
INVARIANTS InForce NothingLost RefusedLeaveNothing
CHECK_DEADLOCK FALSE
