SPECIFICATION Spec
CHECK_DEADLOCK FALSE
CONSTANTS
  Link = {l1, l2}
  NoLink = NoLink
  NoDraft = NoDraft
  Other = {1}
  FirstUid = 2
  Job = {j1, j2}
  Servers <- Uidplus
  Marks = 0
  Faults = 0
  Patient = FALSE
  MaxPanes = 2
  MaxEdits = 2
  Clicks = 4
  Errors = 0
INVARIANT SealedLeavesNoPlaintext
