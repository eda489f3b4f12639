SPECIFICATION Spec
CONSTANTS
  Device = {1, 2}
  i1 = i1
  i2 = i2
  Item = {i1, i2}
  Absent = Absent
  Exclude <- MCExclude
  InUse <- MCInUse
  First <- MCFirst
  Worlds <- MCMeddling
  Touched <- MCEdited
  MaxEdits <- MCMaxEdits
  MaxTurns = 1
  MaxSeq <- MCMaxSeq
INVARIANT SettledAgree
CHECK_DEADLOCK FALSE
