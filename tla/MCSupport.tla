----------------------------- MODULE MCSupport -----------------------------
(***************************************************************************)
(* The classes every engine is built from, each on a small instance: the   *)
(* diagnostic list, decimal numbers, streams over large objects, shared    *)
(* pointers, variants, dates and times, columns, the tables of functions,  *)
(* queries.  They have no state in common, so a behaviour is about one of  *)
(* them, and the others rest.                                              *)
(***************************************************************************)
EXTENDS SqlStates, Decimal, LobStream, SmartPtr, Variant, Temporal, LobColumn, ColumnTypes, DriverTable,
        SqlQuery

VARIABLE topic

Topics == {"diagnostics", "decimal", "stream", "pointer", "variant", "temporal", "lob", "column", "error",
           "driver", "sql", "param"}

\* Zero, positive and negative numbers, with and without a fraction, some that
\* carry through all of their digits.
MCOperands == {FromInt(0), FromInt(5), FromInt(-5), FromInt(33), Number(<<0, 5>>, 1, TRUE),
               Number(<<0, 0, 5>>, 2, FALSE), Number(<<1, 9, 6>>, 2, TRUE)}
MCLocales  == {[radix |-> ".", thousands |-> ","], [radix |-> ",", thousands |-> "."]}

\* 1, 2, 3, 4 and 5 bits, in the order of 1, 8, 16, 32 and 64.
MCSpan == [BOOL |-> 2, CHAR |-> 4, UCHAR |-> 4, SMALLINT |-> 8, USMALLINT |-> 8,
           INT |-> 16, UINT |-> 16, BIGINT |-> 32, UBIGINT |-> 32]
\* The boundaries of all types, and numbers next to them.
MCNumbers == {x \in TypedValues : x.value \in {-16, -9, -8, -5, -4, -3, -2, -1, 0, 1, 2, 3, 4, 7, 8, 15, 16, 31}}

\* Years and months with too many characters, or that no calendar has, seconds
\* with leap seconds, fractions from none to the longest.
MCMoments ==
  {[year |-> y, month |-> m, day |-> 28, hour |-> 23, minute |-> 30, second |-> s, fraction |-> f] :
     y \in {-5, 2000, 12345}, m \in {1, 13}, s \in {0, 61}, f \in {0, 5, 999999999}}

\* An object, a NULL, an empty object, one of a single character.
MCLobs == <<<<"a", "b">>, NullLob, <<>>, <<"c">>>>

\* Whole numbers and fractions, at the boundaries of the types.
MCHalves == {-32, -6, -3, 0, 1, 2, 6, 14, 15, 30, 62}

\* SQLSTATEs with an exception, of a class with one, of a server's own classes,
\* and those that ODBC 3 has and the table of the engine misses or misplaces.
MCReports == {<<"42", "S02">>, <<"HY", "C00">>, <<"HY", "Z99">>, <<"28", "P01">>, <<"XX", "000">>,
              <<"40", "000">>, <<"40", "001">>, <<"25", "S02">>, <<"22", "001">>, <<"08", "S01">>}

\* A function that no constructor and no destructor calls, and a member without a
\* wrapper, in each table that has one.
MCPlain == [SQLite3Drv |-> {"sqlite3_step"}, ODBC30Drv |-> {"SQLFetch"}, FBClientDrv |-> {"isc_dsql_fetch"},
            SDIDrv |-> {"SDIGetData"}]
MCBare  == [SQLite3Drv |-> {"sqlite3_column_database_name"}, ODBC30Drv |-> {"SQLCancel"},
            FBClientDrv |-> {"isc_array_get_slice"}, SDIDrv |-> {}]

\* Libraries that lack nothing, functions of the constructors, of the destructors,
\* and others; the ones whose wrappers test another function, and those they test.
MCMissing ==
  {{}, {"SQLConnectA"}, {"SQLFreeHandle"}, {"SQLGetData"}, {"SQLSetEnvAttr"}, {"SDIAllocEnv"}, {"SDIGetData"},
   {"SDIDeallocDbc", "SDIDeallocEnv"}, {"sqlite3_step"}, {"isc_dsql_fetch"}, {"isc_detach_database"}}

\* Every engine with every driver, without an engine, without a driver, with names
\* nobody knows, without a library and with one that has a colon of its own.
MCAsked ==
  [engine : DBMSs \union {"", "postgres"}, driver : DOMAIN EngineOfDriver \union {"", "odbc"}, lib : {<<>>}]
  \union [engine : {"sdi", "sqlite", ""}, driver : {"libsdi", "libsqlite", ""}, lib : {<<"path">>, <<"C", ":", "path">>}]

\* The words of the queries.
MCCapitals ==
  ("select" :> "SELECT") @@ ("from" :> "FROM") @@ ("where" :> "WHERE") @@ ("and" :> "AND") @@ ("or" :> "OR")
  @@ ("xor" :> "XOR") @@ ("is" :> "IS") @@ ("as" :> "AS") @@ ("not" :> "NOT") @@ ("null" :> "NULL")
  @@ ("mod" :> "MOD")
MCNumerals == ("1" :> 1) @@ ("2" :> 2) @@ ("5" :> 5)
MCWords    == {"t", "u", "w", "x", "y", "s", "n", "a", "f"} \union DOMAIN MCCapitals \union Keywords

Text(piece) ==
  TextOfA(IF piece \in DOMAIN MCNumerals THEN AnyNumber(2 * MCNumerals[piece]) ELSE <<"words", <<piece>>>>)

\* Two tables that share the name of a column.
InTable(name, v) == [name |-> <<name>>, value |-> v]
MCTables ==
  (<<"t">> :> <<InTable("x", Typed("INT", AnyNumber(6))), InTable("y", Typed("NUMERIC", AnyNumber(3))),
                InTable("s", Typed("STRING", Text("a"))), InTable("n", NullVariant)>>)
  @@ (<<"u">> :> <<InTable("x", Typed("INT", AnyNumber(4)))>>)

Col(name)       == Node("IdGroup", <<<<name>>>>, <<>>)
Of(table, name) == Node("IdGroup", <<<<table>>, <<name>>>>, <<>>)
Num(digits)     == Node("Number", digits, <<>>)
Lit(piece)      == Node("Literal", <<piece>>, <<>>)
Ask(k)          == Node("Param", <<k>>, <<>>)
Un(op, a)       == Node("Expr", op, <<a>>)
Bin(op, a, b)   == Node("Expr", op, <<a, b>>)
Named(a, name)  == Node("Alias", <<name>>, <<a>>)
Everything      == Node("AllAttr", <<>>, <<>>)

Select(list, from, where) ==
  Node("Select", <<>>, <<Node("AttrList", <<>>, list), Node("From", <<>>, from)>>
                       \o (IF where = <<>> THEN <<>> ELSE <<Node("Where", <<>>, where)>>))

SelectWhere(condition) == Select(<<Col("x")>>, <<Col("t")>>, <<condition>>)

\* Three operands for an operator, of the type it works on.
OperandsOf(op) ==
  CASE op \in LogicOps \union {"NOT"} -> <<Un("ISNULL", Col("n")), Un("ISNOTNULL", Of("t", "n")), Ask(1)>>
    [] op = "CONCAT" -> <<Lit("a"), Col("s"), Ask(1)>>
    [] OTHER -> <<Num(<<"5">>), Col("y"), Ask(1)>>

BinaryOps == LogicOps \union CalculatedOps \union {"CONCAT", "EQUAL"}
UnaryOps  == {"NOT", "POSITIVE", "NEGATIVE", "ISNULL", "ISNOTNULL"}

\* All pairs of operators, either one below the other, on both sides.
Conditions ==
  LET Arg(op, k)  == OperandsOf(op)[k]
      Below(k)    == {Bin(op, Arg(op, 1), Arg(op, k)) : op \in BinaryOps} \union {Un(op, Arg(op, k)) : op \in UnaryOps}
  IN  UNION {{Bin(op, a, Arg(op, 3)), Bin(op, Arg(op, 3), a)} : op \in BinaryOps, a \in Below(2)}
      \union {Un(op, a) : op \in UnaryOps, a \in Below(3)}

\* Lists with expressions, names, parameters and all columns; a table by another
\* name, and that of another one; functions.
Trees ==
  {SelectWhere(c) : c \in Conditions}
  \union {Select(<<Named(Bin("PLUS", Col("x"), Ask(1)), "a"), Ask(2), Everything, Lit("a"), Node("Null", <<>>, <<>>)>>,
                 <<Named(Col("t"), "w")>>,
                 <<Bin("AND", Bin("GREATER", Of("w", "x"), Ask(3)), Bin("EQUAL", Ask(4), Num(<<"1", ".", "5">>)))>>),
          Select(<<Everything, Of("a", "x"), Named(Of("t", "x"), "y")>>, <<Col("t"), Named(Of("w", "u"), "a")>>,
                 <<Bin("LOWER", Of("a", "x"), Of("t", "x"))>>),
          Select(<<Of("u", "x"), Ask(1)>>, <<Col("u"), Named(Col("u"), "t")>>, <<>>),
          SelectWhere(Bin("EQUAL", Ask(1), Ask(2))),
          SelectWhere(Bin("GREATER", Col("x"), Num(<<"2", ".">>))),
          SelectWhere(Bin("LOWER", Num(<<"1", ".", "2">>), Col("x"))),
          SelectWhere(Node("FuncCall", <<"f">>, <<Ask(1), Bin("DIV", Ask(2), Num(<<"2">>))>>))}

Malformed ==
  LET Selected(list) == <<"SELECT", " ">> \o list \o <<" ", "FROM", " ">>
      Where(rest)    == Selected(<<"x">>) \o <<"t", " ", "WHERE">> \o rest
  IN  {<<"SELECT">>, <<"SELECT", " ", "x">>, Selected(<<>>) \o <<"t">>, Selected(<<"w">>) \o <<"t">>,
       Selected(<<"f", "(", ")">>) \o <<"t">>}
      \union {Selected(<<"x">>) \o from : from \in {<<",">>, <<"w">>, <<"t", ",", "t">>, <<"t", ",", "u">>, <<"t", ";", "x">>}}
      \union {Where(rest) : rest \in {<<>>, <<" ", "x", "=">>, <<" ", "(", "x">>, <<" ", "x", "!", "x">>, <<" ", "'", "'">>,
                                      <<" ", "x", " ", "IS", " ", "x">>, <<" ", "x", ">", "1", ".", "2", ".", "5">>}}

MCQueries == Trees \union {Node("Text", text, <<>>) : text \in Malformed}

\* Values of all types.
MCSamples ==
  {Typed(t, AnyNumber(h)) : t \in Types \union {"NUMERIC", "FLOAT", "DOUBLE"}, h \in {0, 2}}
  \union {Typed(t, AnyNumber(3)) : t \in {"NUMERIC", "DOUBLE"}}
  \union {Typed("DATE", <<"date", 1>>), Typed("TIME", <<"time", 1>>), Typed("TIMESTAMP", <<"timestamp", 1, 1>>),
          Typed("VARBINARY", <<"bytes">>), Typed("STRING", Text("1")), Typed("STRING", Text("a")), NullVariant}

\* None, one for the conditions, pairs that are compared, and those of the first list.
MCUserParams ==
  {<<>>}
  \union {<<x>> : x \in {Typed("INT", AnyNumber(4)), Typed("BOOL", Truth(TRUE)), Typed("BOOL", Truth(FALSE)),
                         Typed("STRING", Text("1")), Typed("NUMERIC", AnyNumber(3))}}
  \union {<<x, y>> : x, y \in MCSamples}
  \union {<<Typed("INT", AnyNumber(2)), Typed("STRING", Text("a")), Typed("INT", AnyNumber(h)), Typed("NUMERIC", AnyNumber(k))>> :
            h \in {2, 8}, k \in {3, 4}}

SupportInit ==
  /\ topic \in Topics
  /\ ErrorInit    /\ (topic # "error"    => backend = "sdi")
  /\ RegisterInit /\ (topic # "decimal"  => number = FromInt(0))
  /\ StreamInit   /\ (topic # "stream"   => engine = "memory" /\ size = 0)
  /\ PtrInit
  /\ VariantInit
  /\ TemporalInit /\ (topic # "temporal" => original = CHOOSE m \in Moments : TRUE)
  /\ LobInit      /\ (topic # "lob"      => reader = "sqlite" /\ lobType = "BLOB")
  /\ IF topic = "param" THEN ParamInit
     ELSE ColumnInit /\ (topic # "column" => server = "sqlite" /\ column = [name |-> "INTEGER", rest |-> ""])
  /\ DriverInit   /\ (topic # "driver"   => driver = "SDIDrv" /\ lacks = {} /\ opens /\ asserts)
  /\ IF topic = "sql" THEN query \in Queries ELSE query = CHOOSE q \in Queries : TRUE
  /\ QueryInit

SupportNext ==
  /\ UNCHANGED topic
  /\ CASE topic = "diagnostics" -> Next /\ UNCHANGED errorVars
       [] topic = "error"       -> ErrorNext
       [] OTHER                 -> UNCHANGED <<vars, errorVars>>
  /\ IF topic = "decimal"     THEN RegisterNext  ELSE UNCHANGED registerVars
  /\ IF topic = "stream"      THEN StreamNext    ELSE UNCHANGED streamVars
  /\ IF topic = "pointer"     THEN PtrNext       ELSE UNCHANGED ptrVars
  /\ IF topic = "variant"     THEN VariantNext   ELSE UNCHANGED variantVars
  /\ IF topic = "temporal"    THEN TemporalNext  ELSE UNCHANGED temporalVars
  /\ IF topic = "lob"         THEN LobNext       ELSE UNCHANGED lobVars
  /\ CASE topic = "column" -> ColumnNext
       [] topic = "param"  -> ParamNext
       [] OTHER            -> UNCHANGED columnVars
  /\ IF topic = "driver"      THEN DriverNext    ELSE UNCHANGED driverVars
  /\ IF topic = "sql"         THEN QueryNext     ELSE UNCHANGED queryVars

SupportSpec ==
  SupportInit /\ [][SupportNext]_<<topic, vars, errorVars, registerVars, streamVars, ptrVars, variantVars,
                                   temporalVars, lobVars, columnVars, driverVars, queryVars>>
=============================================================================
