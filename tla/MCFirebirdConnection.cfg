CONSTANTS
  Stmts = {s1, s2}
  Queries = {"select", "change", "start", "rollback"}
  Kind <- MCKind
  MaxRows = 2
  MaxTrx = 2
  Width = 1
  NDEBUG = FALSE
  MaxIds = 3
  MaxSets = 1
  MaxConns = 1

SPECIFICATION ProtocolSpec
SYMMETRY Symmetry

\* The client may have deleted everything, or be at a bound.
CHECK_DEADLOCK FALSE

INVARIANTS
  TransactionsOwned
  Defined
  RowsInStep

PROPERTY EndsAsAsked
