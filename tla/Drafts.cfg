SPECIFICATION FairSpec
CHECK_DEADLOCK FALSE
CONSTANTS
  Link = {l1, l2}
  NoLink = NoLink
  NoDraft = NoDraft
  Other = {1}
  FirstUid = 2
  Job = {j1, j2}
  Servers <- AllServers
  Marks = 1
  Faults = 1
  Patient = TRUE
  MaxPanes = 2
  MaxEdits = 2
  Clicks = 3
  Errors = 1
INVARIANTS TypeOK NeverNoDraft OnlyThose NoStrayCopy UnchangedIsStored NoSecondCopy SentLeavesNoDraft
PROPERTY SavesEnd
