CONSTANTS
  id = id
  Sources <- MCSources
  NoSource = NoSource
  SourceRows <- MCSourceRows
  SourceNames <- MCSourceNames
  Faulty <- MCFaulty
  RowsetSize = 2
  RowNumbers = {}
  MaxCached = 5
  Dangling = Dangling
  NDEBUG = FALSE

SPECIFICATION WhileNextSpec

INVARIANT VisitsEachRow

PROPERTY Terminates

\* The loop ends.
CHECK_DEADLOCK FALSE
