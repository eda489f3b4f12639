SPECIFICATION FairSpec
CONSTANTS
  a = a
  b = b
  c = c
  Names = {a, b}
  Limited = {}
  Metered = {}
  Requests = {r1, r2}
  Nobody = Nobody
  Lists <- MCRename
  From = a
  To = b
  MaxLimited = 2
  MaxSick = 0
  MaxFull = 0
  Renames = TRUE
INVARIANTS TicketsInHand
PROPERTIES OnlyVerdictsOpen NoOvertaking WaitEnds
CHECK_DEADLOCK FALSE
