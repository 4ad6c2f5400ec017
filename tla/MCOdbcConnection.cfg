CONSTANTS
  Queries = {"select", "change"}
  NoQuery = "none"
  Kind <- MCKind
  MaxRows = 2
  Lob = 2
  LobParts <- MCLobParts
  Width = 3
  NDEBUG = FALSE
  Drivers <- MCDrivers
  MaxSets = 1

SPECIFICATION ProtocolSpec

\* The client may have deleted everything.
CHECK_DEADLOCK FALSE

INVARIANTS
  Defined
  RowsInStep
  LobsWhole
  SettledAsAsked
