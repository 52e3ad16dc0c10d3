SPECIFICATION Spec
CONSTANTS
  Uid = {1}
  Flag = {seen}
  Absent = Absent
  InitialLimit = 1
  BackfillBatch = 1
  FetchBatch = 1
  MaxValidity = 1
  UserOps = 2
  RemoteOps = 0
  Faults = 0
INVARIANT NeverLosesAFlag
