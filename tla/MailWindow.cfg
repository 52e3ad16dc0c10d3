SPECIFICATION FairSpec
CHECK_DEADLOCK FALSE
CONSTANTS
  inbox = inbox
  flagged = flagged
  Id = {1, 2, 3, 4, 5}
  Place = {inbox, flagged}
  Query = {q}
  Contents <- InboxAndFlagged
  Matches <- MatchesOlder
  Old = {1}
  New = {5}
  Start = inbox
  NoQuery = NoQuery
  NoData = NoData
  NoMessage = NoMessage
  NoBatch = NoBatch
  PageSize = 2
  SearchPage = 2
  Backfill = 1
  Steps = 3
  Failures = 1
INVARIANTS TypeOK NoRowTwice LastLoadWins EveryDeletionCanBeUndone
PROPERTY ListSettles
