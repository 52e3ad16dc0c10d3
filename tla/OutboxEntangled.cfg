SPECIFICATION FairSpec
CHECK_DEADLOCK FALSE
CONSTANTS
  Msg = {m1}
  NoMsg = NoMsg
  NoRow = NoRow
  MaxAttempts = 2
  Batches = 1
  Crashes = 0
  StoreFaults = 0
  LostReplies = 0
PROPERTY EverySendEnds
