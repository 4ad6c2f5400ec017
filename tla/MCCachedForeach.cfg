CONSTANTS
  id = id
  Sources <- MCSources
  NoSource = NoSource
  SourceRows <- MCSourceRows
  SourceNames <- MCSourceNames
  Faulty <- MCFaulty
  RowsetSize = 2
  RowNumbers = {}
  MaxCached = 5
  Dangling = Dangling
  NDEBUG = TRUE

SPECIFICATION ForeachSpec

PROPERTY Terminates

CHECK_DEADLOCK FALSE
