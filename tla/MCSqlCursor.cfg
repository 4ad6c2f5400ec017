CONSTANTS
  value = value
  Null = Null
  MaxVisited = 9
  Queries <- MCQueries

SPECIFICATION Spec

INVARIANTS
  VisitsEachMatch

PROPERTY Terminates
