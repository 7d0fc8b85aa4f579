SPECIFICATION TicketDeskSpec
CONSTANTS
  Actors = {w1, w2}
  Assignees = {u1}
  Status = {"open", "resolved"}
  NoOwner = null
  MaxVersion = 3
  MaxClock = 1
  MaxFailures = 1
  DeskTickets = {e1, e2}
  DetailCalls = {d1}
  OfferedStatuses = {"resolved"}
  MaxDeskChanges = 2
  MaxUnderway = 2
  NoRow = NoRow
INVARIANTS
  TypeOK
  VersionDeterminesRow
  UnseenCommentsInFlight
  StatusIsAudited
  DraftsAreEarned
  PanelIsOfItsCase
PROPERTIES
  ActsOnWhatItShows
SYMMETRY PoolSymmetry
CHECK_DEADLOCK FALSE
