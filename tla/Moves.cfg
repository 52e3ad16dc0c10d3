SPECIFICATION FairSpec
CHECK_DEADLOCK FALSE
CONSTANTS
  Msg = {m1, m2}
  Inbox = Inbox
  Archive = Archive
  Junk = Junk
  Action = {a1, a2}
  NoAction = NoAction
  NoFolder = NoFolder
  Extensions = {TRUE, FALSE}
  Filtered = {m2}
  KeepsJunk = {Inbox, Junk}
  KeepsNotJunk = {Archive, Junk}
  Steps = 3
  Troubles = 1
INVARIANTS TypeOK NothingLost NothingDoubled UndoneIsHome OriginRemembered
PROPERTIES MovesTheOneMeant DroppedOnlyWhenMoved ActionsEnd
