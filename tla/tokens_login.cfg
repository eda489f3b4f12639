SPECIFICATION Spec
CONSTANTS
  Requests = {r1, r2}
  MaxTokens = 3
  Worlds <- MCSignIn
SYMMETRY Symmetry
CHECK_DEADLOCK FALSE
INVARIANT RightLogin
