SPECIFICATION FairSpec
CONSTANTS
  Device = {1, 2}
  i1 = i1
  i2 = i2
  Item = {i1, i2}
  Absent = Absent
  Exclude <- MCExclude
  InUse <- MCInUse
  First <- MCFirst
  Worlds <- MCWorlds
  Touched <- MCEdited
  MaxEdits <- MCMaxEdits
  MaxTurns = 1
  MaxSeq <- MCMaxSeq
INVARIANTS NoEditLost SettledAgree DecidedOnce
PROPERTIES NoUnmergedDeleted NumbersGrow Converges
CHECK_DEADLOCK FALSE
