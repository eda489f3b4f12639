SPECIFICATION Spec
CONSTANTS
  Requests = {r1, r2}
  MaxTokens = 3
  Worlds <- MCBehind
SYMMETRY Symmetry
CHECK_DEADLOCK FALSE
PROPERTY OnlyTheNewest
