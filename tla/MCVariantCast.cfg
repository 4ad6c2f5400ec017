CONSTANTS
  Capacity = 3
  MaxPush = 8
  End = End
  OdbcReports <- MCReports
  Operands <- MCOperands
  MaxScale = 2
  MaxUnits = 3000
  Locales <- MCLocales
  Sizes = {0, 1, 4, 5, 6, 9, 11}
  Bufsize = 3
  Putback = 2
  EndOfFile = EndOfFile
  Garbage = Garbage
  Ptrs = {p1, p2, p3}
  Pointees = {x1, x2, x3}
  Counters = {c1, c2, c3}
  Null = Null
  Gone = Gone
  Span <- MCSpan
  Numbers <- MCNumbers
  ConvertException = ConvertException
  Moments <- MCMoments
  Unreadable = Unreadable
  Lobs <- MCLobs
  NullLob = NullLob
  Lost = Lost
  Segment = 1
  Halves <- MCHalves
  FloatExact = 14
  Byte = 6
  Plain <- MCPlain
  Bare <- MCBare
  Missing <- MCMissing
  Asked <- MCAsked
  Words <- MCWords
  Numerals <- MCNumerals
  Capitals <- MCCapitals
  TablesOf <- MCTables
  Queries <- MCQueries
  UserParams <- MCUserParams

SPECIFICATION SupportSpec

INVARIANT ConversionExact

CHECK_DEADLOCK FALSE
