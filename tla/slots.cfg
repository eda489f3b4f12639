SPECIFICATION FairSpec
CONSTANTS
  a = a
  b = b
  Upstreams = {a, b}
  Requests = {r1, r2}
  Phantoms = {p1}
  Nowhere = Nowhere
  MaxLimit = 2
  Lists <- MCLists
INVARIANTS PlacesConserved NothingLeftBehind
PROPERTIES WaitEnds
