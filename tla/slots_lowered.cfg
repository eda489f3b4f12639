SPECIFICATION Spec
CONSTANTS
  a = a
  b = b
  Upstreams = {a}
  Requests = {r1, r2, r3}
  Phantoms = {}
  Nowhere = Nowhere
  MaxLimit = 2
  Lists <- MCOneList
SYMMETRY Symmetry
PROPERTY EntersBelowLimit
