SPECIFICATION Spec
CHECK_DEADLOCK FALSE
CONSTANTS
  Msg = {m1, m2}
  NoMsg = NoMsg
  NoRow = NoRow
  MaxAttempts = 1
  Batches = 0
  Crashes = 0
  StoreFaults = 0
  LostReplies = 0
INVARIANT UndoneIsNotSent
