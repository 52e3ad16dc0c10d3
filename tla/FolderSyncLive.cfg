SPECIFICATION FairSpec
CONSTANTS
  Uid = {1}
  Flag = {seen}
  Absent = Absent
  InitialLimit = 1
  BackfillBatch = 1
  FetchBatch = 1
  MaxValidity = 2
  UserOps = 2
  RemoteOps = 1
  Faults = 1
INVARIANT KeptUntilPushed
PROPERTY AgreesAgain
