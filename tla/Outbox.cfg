SPECIFICATION FairSpec
CHECK_DEADLOCK FALSE
CONSTANTS
  Msg = {m1, m2}
  NoMsg = NoMsg
  NoRow = NoRow
  MaxAttempts = 2
  Batches = 1
  Crashes = 1
  StoreFaults = 1
  LostReplies = 1
INVARIANTS TypeOK SentOnceUnlessUnclear
PROPERTIES ImplementsSendQueue HeldUpOnlyByKnownCauses
