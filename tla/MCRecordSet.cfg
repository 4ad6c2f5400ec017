CONSTANTS
  a = a
  b = b
  Values <- MCValues
  Rows <- MCRows
  Names = {nm}
  MaxRows = 3
  MaxCols = 2
  Dangling = Dangling
  NDEBUG = FALSE

  Universe <- MCUniverse
  Attached <- MCAttached
  Unquotable = {"a b"}
  Patterns <- MCPatterns
  Null = Null
  MaxChanges = 1

SPECIFICATION RecordSetsSpec

INVARIANTS
  DescriptorsMatch
  CursorOnRow
  Defined
  RowsUniform
  ListingWhole

PROPERTY ImplementsDataset

CHECK_DEADLOCK FALSE
