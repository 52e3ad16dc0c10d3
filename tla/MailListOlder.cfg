SPECIFICATION ListSpec
CHECK_DEADLOCK FALSE
CONSTANTS
  Id = {1, 2, 3}
  Place = {inbox}
  Query = {}
  Contents <- InOneFolder
  Matches <- NoMatches
  Old = {1, 2}
  New = {}
  Start = inbox
  NoQuery = NoQuery
  NoData = NoData
  PageSize = 2
  SearchPage = 2
  Backfill = 2
  Steps = 1
  Failures = 0
INVARIANT NothingSkipped
