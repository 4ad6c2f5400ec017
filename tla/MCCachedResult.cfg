CONSTANTS
  id = id
  name = name
  people = people
  towns = towns
  Sources = {people, towns}
  NoSource = NoSource
  SourceRows <- MCSourceRows
  SourceNames <- MCSourceNames
  Faulty = {people}
  RowsetSize = 2
  RowNumbers <- MCRowNumbers
  MaxCached = 4
  Dangling = Dangling
  NDEBUG = FALSE

SPECIFICATION ProtocolSpec

INVARIANTS
  PositionsAgree
  SettledOnRow
  Defined
  MetadataMatches

PROPERTY ImplementsDataset
