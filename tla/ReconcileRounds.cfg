SPECIFICATION Spec
CONSTANTS
  Uid = {1, 2, 3}
  Flag = {seen}
  Absent = Absent
  InitialLimit = 2
  BackfillBatch = 1
INVARIANT TypeOK
PROPERTIES
  SecondSyncIsIdle
  NoFlagLost
  WindowExact
