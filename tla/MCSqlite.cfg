CONSTANTS
  plain = plain
  filtered = filtered
  text = text
  photo = photo
  Stmts = {s1, s2}
  Queries = {plain, filtered}
  ParamCount <- MCParamCount
  Values = {text, photo}
  Numbers = {1}
  Blobs = {photo}
  Dead = Dead
  MaxRows = 1
  Width = 0
  NDEBUG = FALSE
  MaxConns = 2
  MaxHandles = 2
  MaxSets = 2
  MaxTemps = 2
  ResultParams <- MCTwoParams
  ResultNumbers = {1, 2, 3}
  ResultRows = 2
  ResultWidth = 2
  ResultHandles = 2
  ResultTuple = 4
  ResultConn = 1

SPECIFICATION SqliteSpec
SYMMETRY Symmetry
CHECK_DEADLOCK FALSE

INVARIANTS
  MachinesOwned
  AllDefined
  NoConnectionLost
  BoundAsAsked
  EofIsTrue

PROPERTY ImplementsDataset
