SPECIFICATION Spec
CONSTANTS
  r1 = r1
  r2 = r2
  Request = {r1, r2}
  Name = {"a", "b"}
  First = "a"
  D = 2
  W = 2
  Grace = 1
  Estimate = 1
  Actual = 2
  Worlds <- MCWorlds
  PendingMax = 1
  MaxTime = 2
  MaxTries = 2
  MaxTurns = 2
INVARIANTS PeriodIsTheRows CountedOnce WindowIsTheTries ReservationsHaveOwners
SYMMETRY MCSymmetry
CHECK_DEADLOCK FALSE
