SPECIFICATION Spec
CONSTANTS
  Uid = {1, 2}
  Flag = {seen}
  Absent = Absent
  InitialLimit = 1
  BackfillBatch = 1
  FetchBatch = 1
  MaxValidity = 2
  UserOps = 1
  RemoteOps = 1
  Faults = 1
INVARIANTS TypeOK RowsOfStoredValidity CleanSyncKeepsPromise
PROPERTY ServerChangesHitTheCachedMessage
