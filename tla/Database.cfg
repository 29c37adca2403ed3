SPECIFICATION Spec
CONSTANTS
  Requests = {r1, r2, r3}
  Last = 2
  Rows <- MCRows
  Keyed <- MCKeyed
  Strict <- MCStrict
  Losable <- MCLosable
  MaxRefreshes = 3
INVARIANTS TypeOK WholeAtRest LoneRebuildIsExact QueriesFindTables
PROPERTIES RebuildEnds
CHECK_DEADLOCK FALSE
