SPECIFICATION Spec
CONSTANTS
  Requests = {r1, r2}
  MaxTokens = 3
  Worlds <- MCWorlds
SYMMETRY Symmetry
INVARIANTS NothingUnwritten RightLogin
PROPERTIES OnlyTheNewest RenewedWhenDue
CHECK_DEADLOCK FALSE
