SPECIFICATION BoardSpec
CONSTANTS
  Users = {"ann", "bob"}
  PerDay = 2
  MonthStart <- MCMonthStart
  AgentWords <- MCWords
  Contents <- MCContents
  Queries <- MCQueries
  All = All
  None = None
  MaxClock = 3
  MaxReports = 3
INVARIANTS
  PagingMissesNothing
  ChartsAgreeWithTheList
CHECK_DEADLOCK FALSE
