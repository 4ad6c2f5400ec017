---------------------------- MODULE ColumnTypes ----------------------------
(***************************************************************************)
(* From the type a server gives a column to what get<T>() returns: the     *)
(* type of the description, the member the driver writes a value to, the   *)
(* casts of sv_accessor<...Data*> for the four engines, the deep copy of a *)
(* column, and the conversions of the value a Variant owns then            *)
(* (types.hh, types/type_*.cc).  The integral ones are those of Variant;   *)
(* large objects are left to LobColumn.  Values of all types are compared. *)
(***************************************************************************)
EXTENDS Variant, Sequences

CONSTANTS
  Halves,     \* the numbers of columns, counted in halves
  FloatExact, \* the largest number of halves that a float has; larger ones are rounded
  Byte        \* the number of values of a byte

ASSUME ByteHolds == Byte \in Nat /\ Byte > 4

(* Values: <<"number", halves>>, <<"date", d>>, <<"time", t>>,              *)
(* <<"timestamp", d, t>>, <<"bytes">>, <<"text", what it is the text of>>,  *)
(* <<"null">>.  0 stands for the date and the time of an empty timestamp.   *)

AnyNumber(h)  == <<"number", h>>
TextOfA(v)    == <<"text", v>>
Word          == <<"word">>
IsNumber(v)   == v[1] = "number"
IsText(v)     == v[1] = "text"
NoValue       == <<"null">>
Throws        == <<"throws">>
OtherMember   == <<"garbage">>  \* what another member of the union makes of it

IntegralTypes == Types \ {"BOOL"}
ValueTypes    == Types \union {"FLOAT", "DOUBLE", "NUMERIC", "DATE", "TIME", "TIMESTAMP", "STRING", "VARBINARY"}

Integer(h)  == IF h >= 0 THEN h \div 2 ELSE -((-h) \div 2)
Truth(b)    == AnyNumber(IF b THEN 2 ELSE 0)
ToFloat(h)  == IF h \in -FloatExact .. FloatExact THEN h ELSE (h \div 2) * 2

\* A conversion of the language, to an arithmetic type.
StaticNumber(t, h) ==
  CASE t = "BOOL" -> Truth(h # 0)
    [] t = "FLOAT" -> AnyNumber(ToFloat(h))
    [] t = "DOUBLE" -> AnyNumber(h)
    [] OTHER -> AnyNumber(2 * Static(t, Integer(h)))

-----------------------------------------------------------------------------
(* Variant::get<T>() of a value of a given type                            *)

\* istream >> number takes what a text begins with: the year of a date, the hour
\* of a time, and of a fraction what is in front of the point.
FromDigits(t, x) ==
  CASE x[1] = "number" /\ t \in {"FLOAT", "DOUBLE"} -> StaticNumber(t, x[2])
    [] x[1] = "number" /\ t = "USMALLINT" -> AnyNumber(2 * Static(t, Integer(x[2])))
    [] x[1] = "number" /\ Integer(x[2]) < 0 /\ t \in UnsignedTypes -> AnyNumber(2 * Static(t, Integer(x[2])))
    [] x[1] = "number" -> IF Integer(x[2]) \in Limits(t) THEN AnyNumber(2 * Integer(x[2])) ELSE Throws
    [] x[1] \in {"date", "time", "timestamp"} -> <<"beginning">>
    [] OTHER -> Throws

\* The constructors of dates and times from one another.
ToMoment(t, v) ==
  CASE v[1] = "timestamp" /\ t = "DATE" -> <<"date", v[2]>>
    [] v[1] = "timestamp" /\ t = "TIME" -> <<"time", v[3]>>
    [] v[1] = "date" /\ t = "TIMESTAMP" -> <<"timestamp", v[2], 0>>
    [] v[1] = "time" /\ t = "TIMESTAMP" -> <<"timestamp", 0, v[2]>>
    [] OTHER -> v

\* A text is taken by its form: of a timestamp, or of the type itself.
ReadMoment(t, x) ==
  IF x[1] = "timestamp" \/ <<x[1], t>> \in {<<"date", "DATE">>, <<"time", "TIME">>}
    THEN ToMoment(t, x) ELSE Throws

\* The casts of sv_accessor<String>.
FromString(t, x) ==
  CASE t \in {"CHAR", "UCHAR", "VARBINARY"} -> Throws
    [] t = "BOOL" -> IF x \in {AnyNumber(0), AnyNumber(2)} THEN x ELSE Throws
    [] t = "NUMERIC" -> IF IsNumber(x) THEN x ELSE Throws
    [] t \in {"DATE", "TIME", "TIMESTAMP"} -> ReadMoment(t, x)
    [] OTHER -> FromDigits(t, x)

\* str() and the streams; the text of a type that is a char is the character.
ToText(from, v) == IF from \in {"CHAR", "UCHAR"} THEN TextOfA(<<"character", v[2]>>) ELSE TextOfA(v)

\* supports<T> of the value types: what a type has no cast for.
Unsupported(from) ==
  LET moments == {"DATE", "TIME", "TIMESTAMP"}
  IN  CASE from = "INT" -> {"DATE", "TIME", "VARBINARY"}
        [] from \in {"BOOL", "BIGINT", "UBIGINT"} -> moments \union {"NUMERIC", "VARBINARY"}
        [] from \in Types \union {"FLOAT", "DOUBLE"} -> moments \union {"VARBINARY"}
        [] from = "NUMERIC" -> ValueTypes \ {"BOOL"}
        [] from = "DATE" -> ValueTypes \ {"TIMESTAMP"}
        [] from = "TIME" -> ValueTypes \ {"TIMESTAMP"}
        [] from = "TIMESTAMP" -> ValueTypes \ {"DATE", "TIME"}
        [] from = "VARBINARY" -> ValueTypes

\* The casts of the arithmetic types.
FromArithmetic(from, t, h) ==
  IF from \in Types /\ t \in Types THEN
    LET n == Get([type |-> from, value |-> Integer(h)], t)
    IN  IF n = ConvertException THEN Throws ELSE AnyNumber(2 * n)
  ELSE IF t = "TIMESTAMP" THEN <<"seconds", h>>
  ELSE IF t = "NUMERIC" THEN AnyNumber(h) ELSE StaticNumber(t, h)

GetValue(from, v, t) ==
  CASE v = NoValue -> Throws
    [] from = "STRING" /\ t # "STRING" -> FromString(t, v[2])
    [] t = from -> v
    [] t = "STRING" -> ToText(from, v)
    [] t \in Unsupported(from) -> Throws
    [] from = "NUMERIC" -> Truth(v[2] # 0)
    [] from \in {"DATE", "TIME", "TIMESTAMP"} -> ToMoment(t, v)
    [] OTHER -> FromArithmetic(from, t, v[2])

-----------------------------------------------------------------------------
(* The comparison of two Variants of any types (variant_binary.cc)         *)

Typed(t, v) == [type |-> t, value |-> v]

\* The comparisons of binary_op_impl<T>; dates and numbers have a misspelled
\* one in place of not_equal.
ComparisonsOf(t) ==
  CASE t \in Types -> Comparisons
    [] t = "STRING" -> {"equal", "not_equal"}
    [] t \in {"DATE", "NUMERIC"} -> Comparisons \ {"not_equal"}
    [] OTHER -> {}

\* Of two values of one type.
HoldsOf(op, v, w) ==
  CASE op = "equal" -> v = w [] op = "not_equal" -> v # w [] OTHER -> Holds(op, v[2], w[2])

\* apply_binary_method() of a comparison.
CompareTyped(op, x, y) ==
  LET t == OperatorType(x.type, y.type)
      v == GetValue(x.type, x.value, t)
      w == GetValue(y.type, y.value, t)
  IN  IF NoValue \in {x.value, y.value} \/ op \notin ComparisonsOf(t) \/ Throws \in {v, w} THEN Throws
      ELSE Truth(HoldsOf(op, v, w))

-----------------------------------------------------------------------------
(* ODBC: a column is described by one function and bound by another        *)

Sized ==
  [SQL_SMALLINT |-> <<"SMALLINT", "USMALLINT">>, SQL_INTEGER |-> <<"INT", "UINT">>,
   SQL_TINYINT |-> <<"CHAR", "UCHAR">>, SQL_BIGINT |-> <<"BIGINT", "UBIGINT">>]

OdbcTypes == DOMAIN Sized \union
  {"SQL_VARCHAR", "SQL_NUMERIC", "SQL_REAL", "SQL_FLOAT", "SQL_DOUBLE", "SQL_BIT", "SQL_VARBINARY",
   "SQL_TYPE_DATE", "SQL_TYPE_TIME", "SQL_TYPE_TIMESTAMP", "SQL_GUID"}

OdbcColumns == [sql : OdbcTypes, unsigned : BOOLEAN]

\* sqltype2daltype()
Sqltype2Daltype(c) ==
  CASE c.sql \in DOMAIN Sized -> Sized[c.sql][IF c.unsigned THEN 2 ELSE 1]
    [] c.sql = "SQL_VARCHAR" -> "STRING"
    [] c.sql = "SQL_NUMERIC" -> "NUMERIC"
    [] c.sql \in {"SQL_REAL", "SQL_FLOAT"} -> "FLOAT"
    [] c.sql = "SQL_DOUBLE" -> "DOUBLE"
    [] c.sql = "SQL_BIT" -> "BOOL"
    [] c.sql = "SQL_VARBINARY" -> "VARBINARY"
    [] c.sql = "SQL_TYPE_DATE" -> "DATE"
    [] c.sql = "SQL_TYPE_TIME" -> "TIME"
    [] c.sql = "SQL_TYPE_TIMESTAMP" -> "TIMESTAMP"
    [] OTHER -> "UNKNOWN"

\* A bug: the driver's numbers are all taken for signed ones.
InitValue_Signed(c) ==
  CASE c.sql \in DOMAIN Sized -> Sized[c.sql][1]
    [] c.sql \in {"SQL_VARCHAR", "SQL_GUID"} -> "STRING"
    [] OTHER -> Sqltype2Daltype(c)

\* initValue(): the C type, by the name of the getter that reads its member.
InitValue(c) ==
  CASE c.sql \in DOMAIN Sized -> Sized[c.sql][IF c.unsigned THEN 2 ELSE 1]
    [] c.sql \in {"SQL_VARCHAR", "SQL_GUID"} -> "STRING"
    [] c.sql = "SQL_NUMERIC" -> "NUMERIC"
    [] c.sql \in {"SQL_REAL", "SQL_FLOAT"} -> "FLOAT"
    [] c.sql = "SQL_DOUBLE" -> "DOUBLE"
    [] c.sql = "SQL_BIT" -> "BOOL"
    [] c.sql = "SQL_VARBINARY" -> "VARBINARY"
    [] c.sql = "SQL_TYPE_DATE" -> "DATE"
    [] c.sql = "SQL_TYPE_TIME" -> "TIME"
    [] c.sql = "SQL_TYPE_TIMESTAMP" -> "TIMESTAMP"

\* What the driver writes there, of a value the column can have.
Written(c, v) == IF InitValue(c) = "FLOAT" /\ IsNumber(v) THEN StaticNumber("FLOAT", v[2]) ELSE v

\* getSLong(), getDate(), ...: the member of that type, for a value that is no NULL.
ReadMember(c, v, member) ==
  CASE v = NoValue -> Throws
    [] member = InitValue(c) -> Written(c, v)
    [] OTHER -> OtherMember

\* A value of the getter's type becomes a Variant that is asked for a t.
ThroughVariant(from, v, t) == IF v \in {Throws, OtherMember} THEN v ELSE GetValue(from, v, t)

\* The eight casts to integral types.
OdbcIntegral(c, v, t) ==
  LET d == Sqltype2Daltype(c)
      m == ReadMember(c, v, d)
  IN  CASE d \in {"NUMERIC", "STRING"} -> ThroughVariant(d, m, t)
        [] d \in Types \union {"FLOAT", "DOUBLE"} -> IF IsNumber(m) THEN StaticNumber(t, m[2]) ELSE m
        [] OTHER -> Throws

OdbcFloating(c, v, t) ==
  LET m == ReadMember(c, v, Sqltype2Daltype(c))
  IN  IF Sqltype2Daltype(c) \notin {"FLOAT", "DOUBLE"} THEN Throws
      ELSE IF IsNumber(m) THEN StaticNumber(t, m[2]) ELSE m

OdbcBool(c, v) ==
  LET d == Sqltype2Daltype(c)
      m == ReadMember(c, v, d)
  IN  CASE d = "STRING" -> ThroughVariant(d, m, "BOOL")
        [] d \in {"BOOL", "INT"} -> IF IsNumber(m) THEN Truth(m[2] # 0) ELSE m
        [] OTHER -> Throws

\* A timestamp of a DATE is read from the member of the timestamps.
OdbcMoment(c, v, t) ==
  LET d == Sqltype2Daltype(c)
  IN  CASE d = "STRING" -> ThroughVariant(d, ReadMember(c, v, d), t)
        [] d = "TIMESTAMP" \/ (d = "DATE" /\ t = "TIMESTAMP") -> ThroughVariant("TIMESTAMP", ReadMember(c, v, "TIMESTAMP"), t)
        [] d = t -> ReadMember(c, v, d)
        [] OTHER -> Throws

OdbcNumeric(c, v) ==
  LET d == Sqltype2Daltype(c)
  IN  IF d \in {"NUMERIC", "STRING"} THEN ThroughVariant(d, ReadMember(c, v, d), "NUMERIC") ELSE Throws

OdbcString(c, v) ==
  LET d == Sqltype2Daltype(c)
  IN  IF d \in {"CHAR", "UCHAR", "VARBINARY", "UNKNOWN"} THEN Throws
      ELSE ThroughVariant(d, ReadMember(c, v, d), "STRING")

OdbcCast(c, v, t) ==
  CASE t \in IntegralTypes -> OdbcIntegral(c, v, t)
    [] t \in {"FLOAT", "DOUBLE"} -> OdbcFloating(c, v, t)
    [] t = "BOOL" -> OdbcBool(c, v)
    [] t \in {"DATE", "TIME", "TIMESTAMP"} -> OdbcMoment(c, v, t)
    [] t = "NUMERIC" -> OdbcNumeric(c, v)
    [] t = "VARBINARY" -> IF Sqltype2Daltype(c) = "VARBINARY" THEN ReadMember(c, v, "VARBINARY") ELSE Throws
    [] t = "STRING" -> OdbcString(c, v)

-----------------------------------------------------------------------------
(* Firebird: integers with a scale, described by the type of the server    *)

FirebirdTypes ==
  [sql : {"SQL_SHORT", "SQL_LONG", "SQL_INT64"}, numeric : BOOLEAN, octets : {FALSE}]
  \union [sql : {"SQL_TEXT", "SQL_VARYING"}, numeric : {FALSE}, octets : BOOLEAN]
  \union [sql : {"SQL_DOUBLE", "SQL_FLOAT", "SQL_TYPE_DATE", "SQL_TYPE_TIME", "SQL_TIMESTAMP", "SQL_ARRAY"},
          numeric : {FALSE}, octets : {FALSE}]

Stands == [SQL_SHORT |-> "SMALLINT", SQL_LONG |-> "INT", SQL_INT64 |-> "BIGINT", SQL_TEXT |-> "STRING",
           SQL_VARYING |-> "STRING", SQL_DOUBLE |-> "DOUBLE", SQL_FLOAT |-> "FLOAT", SQL_TYPE_DATE |-> "DATE",
           SQL_TYPE_TIME |-> "TIME", SQL_TIMESTAMP |-> "TIMESTAMP", SQL_ARRAY |-> "CUSTOM"]

FirebirdDaltype(c) ==
  IF c.numeric THEN "NUMERIC" ELSE IF c.octets THEN "VARBINARY" ELSE Stands[c.sql]

\* sqldata: a number with a scale of one is kept as ten times itself.
Factor(c)      == IF c.numeric THEN 10 ELSE 1
SqlData(c, v)  == IF IsNumber(v) THEN AnyNumber(v[2] * Factor(c)) ELSE v

\* A bug: the scale is that of the description, which a column of a view lacks.
GetNumeric_Metadata(c, v) == SqlData(c, v)

\* getNumeric()
GetNumeric(c, v) == LET d == SqlData(c, v) IN IF IsNumber(d) THEN AnyNumber(d[2] \div Factor(c)) ELSE d

\* The getter of the type of the server.
FirebirdGetter(c, v) ==
  IF v = NoValue THEN Throws ELSE IF c.numeric THEN GetNumeric(c, v) ELSE SqlData(c, v)

FirebirdCopy(c, v) ==
  IF c.sql = "SQL_ARRAY" \/ v = NoValue THEN Throws ELSE FirebirdGetter(c, v)

\* A cast to the type of the column calls the getter, any other one is that of
\* a deep copy; to some types there is none.
FirebirdCast(c, v, t) ==
  CASE t \in {"CHAR", "UCHAR", "USMALLINT", "UINT", "UBIGINT"} -> Throws
    [] t = FirebirdDaltype(c) -> FirebirdGetter(c, v)
    [] OTHER -> ThroughVariant(FirebirdDaltype(c), FirebirdCopy(c, v), t)

-----------------------------------------------------------------------------
(* SQLite: any value in a column of any declared type                      *)

\* SqlTypeParser: the patterns in their order; a "*" takes whatever follows.
Patterns ==
  <<<<"INT", "INT", "">>, <<"INT", "INTEGER", "">>, <<"CHAR", "CHAR", "">>, <<"STRING", "VARCHAR", "">>,
    <<"STRING", "VARCHAR", "(*">>, <<"BOOL", "BOOL", "">>, <<"SMALLINT", "SHORTINT", "">>,
    <<"BIGINT", "BIGINT", "">>, <<"BLOB", "BLOB", "">>, <<"NUMERIC", "NUMERIC", "">>, <<"NUMERIC", "NUMERIC", "(*">>,
    <<"NUMERIC", "DECIMAL", "">>, <<"NUMERIC", "DECIMAL", "(*">>, <<"NUMERIC", "MONEY", "">>,
    <<"FLOAT", "FLOAT", "">>, <<"FLOAT", "REAL", "">>, <<"DOUBLE", "DOUBLE", "">>, <<"DATE", "DATE", "">>,
    <<"TIME", "TIME", "">>, <<"TIMESTAMP", "TIMESTAMP", "">>, <<"STRING", "TEXT", "*">>>>

\* Does what follows the name fit the rest of the pattern?
ParseSpecial(rest, pattern) == pattern = rest \/ pattern = "*" \/ (pattern = "(*" /\ rest = "(...)")

\* A bug: a pattern fits whatever begins with it, as TIMESTAMP does with TIME.
Parse_Prefix(c) ==
  LET Fits(k) == c.name = Patterns[k][2] \/ (c.name = "TIMESTAMP" /\ Patterns[k][2] = "TIME")
      Matching == {k \in DOMAIN Patterns : Fits(k) /\ ParseSpecial(c.rest, Patterns[k][3])}
  IN  IF Matching = {} THEN "UNKNOWN" ELSE Patterns[CHOOSE k \in Matching : \A j \in Matching : k <= j][1]

\* parse(): the first pattern that fits all of the declared type.
Parse(c) ==
  LET Matching == {k \in DOMAIN Patterns : Patterns[k][2] = c.name /\ ParseSpecial(c.rest, Patterns[k][3])}
  IN  IF Matching = {} THEN "UNKNOWN" ELSE Patterns[CHOOSE k \in Matching : \A j \in Matching : k <= j][1]

\* Types as they are declared in SQLite; an expression has none.
SqliteTypes ==
  [name : {"INTEGER", "CHAR", "VARCHAR", "BOOL", "SHORTINT", "BIGINT", "NUMERIC", "REAL", "DOUBLE", "DATE", "TIME",
           "TIMESTAMP", "TEXT", "SMALLINT", ""}, rest : {""}]
  \union [name : {"VARCHAR", "DECIMAL", "CHAR", "TEXT"}, rest : {"(...)"}]

\* daltype2sqlname(): the name of the type in a description.
Daltype2Sqlname(t) ==
  CASE t \in {"INT", "UINT"} -> "INTEGER" [] t = "UCHAR" -> "CHAR" [] t = "STRING" -> "VARCHAR"
    [] t = "USMALLINT" -> "SMALLINT" [] t = "UBIGINT" -> "BIGINT" [] OTHER -> t

\* sqlite3_column_int(): the lower bits of a number, what a text begins with.
ColumnInt(v) ==
  LET x == IF IsText(v) THEN v[2] ELSE v
  IN  CASE v = NoValue -> Throws
        [] IsNumber(x) -> AnyNumber(2 * Static("INT", Integer(x[2])))
        [] x = Word -> AnyNumber(0)
        [] OTHER -> <<"beginning">>

\* sqlite3_column_text()
ColumnText(v) == IF v = NoValue THEN Throws ELSE IF IsText(v) THEN v ELSE TextOfA(v)

SqliteCast(v, t) ==
  CASE t = "INT" -> ColumnInt(v)
    [] t = "BOOL" -> LET n == ColumnInt(v) IN IF IsNumber(n) THEN Truth(n[2] > 0) ELSE n
    [] t = "STRING" -> ColumnText(v)
    [] t \in {"DATE", "TIME", "TIMESTAMP", "NUMERIC"} -> ThroughVariant("STRING", ColumnText(v), t)
    [] OTHER -> Throws

-----------------------------------------------------------------------------
(* SDI: every getter insists on the type of the provider                   *)

SdiTypes ==
  {"CHAR", "UCHAR", "SMALLINT", "USMALLINT", "INT", "UINT", "BIGINT", "UBIGINT", "BOOL", "NUMERIC",
   "STRING", "DATE", "TIME", "TIMESTAMP", "FLOAT", "REAL"}

SdiDaltype(c) == IF c = "REAL" THEN "DOUBLE" ELSE c

SdiGetter(c, v, type) == IF c = type /\ v # NoValue THEN v ELSE Throws

\* conv_numeric(): the digits with a sign and a point, which are read again.
SdiText(c, v) == IF v = NoValue THEN Throws ELSE GetValue(SdiDaltype(c), v, "STRING")

SdiCast(c, v, t) ==
  CASE t \in IntegralTypes -> SdiGetter(c, v, t)
    [] t = "BOOL" -> LET n == SdiGetter(c, v, "INT") IN IF IsNumber(n) THEN Truth(n[2] > 0) ELSE n
    [] t = "DOUBLE" -> SdiGetter(c, v, "REAL")
    [] t = "FLOAT" -> LET n == SdiGetter(c, v, "REAL") IN IF IsNumber(n) THEN StaticNumber(t, n[2]) ELSE n
    [] t = "STRING" -> SdiText(c, v)
    [] t = "VARBINARY" -> Throws
    [] OTHER -> ThroughVariant("STRING", SdiText(c, v), t)

-----------------------------------------------------------------------------
(* A column of any engine                                                  *)

ColumnsOf(e) ==
  CASE e = "odbc" -> OdbcColumns [] e = "firebird" -> FirebirdTypes
    [] e = "sqlite" -> SqliteTypes [] e = "sdi" -> SdiTypes

Daltype(e, c) ==
  CASE e = "odbc" -> Sqltype2Daltype(c) [] e = "firebird" -> FirebirdDaltype(c)
    [] e = "sqlite" -> Parse(c) [] e = "sdi" -> SdiDaltype(c)

GetAsType(e, c, v, t) ==
  CASE e = "odbc" -> OdbcCast(c, v, t) [] e = "firebird" -> FirebirdCast(c, v, t)
    [] e = "sqlite" -> SqliteCast(v, t) [] e = "sdi" -> SdiCast(c, v, t)

CopyType(d) == IF d \in {"UNKNOWN", "CUSTOM"} THEN "STRING" ELSE d

\* do_deepcopy(): the value as one of the type of the column.
CopyOfColumn(e, c, v) ==
  IF e = "firebird" THEN FirebirdCopy(c, v) ELSE GetAsType(e, c, v, CopyType(Daltype(e, c)))

IsNumeric(t) == t \in Types \union {"FLOAT", "DOUBLE", "NUMERIC"}

\* Can t hold the number?
CanHold(t, h) ==
  CASE t = "BOOL" -> h \in {0, 2} [] t = "FLOAT" -> ToFloat(h) = h [] t \in {"DOUBLE", "NUMERIC"} -> TRUE
    [] OTHER -> h % 2 = 0 /\ Integer(h) \in Limits(t)

MomentValues == {<<"date", 1>>, <<"time", 1>>, <<"timestamp", 1, 1>>}
NumberValues == {AnyNumber(h) : h \in Halves}

\* The values the server has for a column of a type.
ValuesOf(e, c) ==
  LET d     == Daltype(e, c)
      texts == {TextOfA(x) : x \in NumberValues \union MomentValues \union {Word}}
  IN  {NoValue} \union
      (CASE e = "sqlite" -> texts \union NumberValues
         [] IsNumeric(d) -> {x \in NumberValues : (e = "odbc" /\ c.sql = "SQL_FLOAT") \/ CanHold(d, x[2])}
         [] d = "DATE" -> {<<"date", 1>>} [] d = "TIME" -> {<<"time", 1>>} [] d = "TIMESTAMP" -> {<<"timestamp", 1, 1>>}
         [] d = "VARBINARY" -> {<<"bytes">>}
         [] OTHER -> texts)

-----------------------------------------------------------------------------
(* Parameters: what a server is sent for a Variant                         *)

NullVariant == Typed("UNKNOWN", NoValue)
Nothing     == Typed("none", NoValue)

\* A parameter as the driver has it: as: the type the value was asked for as;
\* data: the value, a number times ten to the scale.
Parameter(sql, scale, nullable) ==
  [sql |-> sql, scale |-> scale, nullable |-> nullable, isNull |-> TRUE, as |-> "none", data |-> NoValue]

\* The number of halves without its fraction, which the scale tells.
ScaleOf(h)      == h % 2
Scaled(h, sc)   == AnyNumber(h * 10 ^ sc)
Sent(p, t, v) == [p EXCEPT !.isNull = FALSE, !.as = t, !.data = v]
AskedFor(p, x, t) == Sent(p, t, GetValue(x.type, x.value, t))

\* As an integer and its scale.
WithoutPoint(p, x) ==
  [Sent(p, "NUMERIC", Scaled(x.value[2], ScaleOf(x.value[2]))) EXCEPT !.scale = ScaleOf(x.value[2])]

\* SQLite: execute() asks for an int, a long long, a double or the text.
SqliteBound(p, x) ==
  CASE x.value = NoValue -> Parameter("any", 0, TRUE)
    [] x.type \in Types \ {"BIGINT", "UBIGINT"} -> AskedFor(p, x, "INT")
    [] x.type \in {"BIGINT", "UBIGINT"} -> AskedFor(p, x, "BIGINT")
    [] x.type \in {"FLOAT", "DOUBLE"} -> AskedFor(p, x, "DOUBLE")
    [] OTHER -> AskedFor(p, x, "STRING")

(* Firebird: an XSQLVAR, which stays as it was changed until the next prepare() *)

\* FirebirdParamDesc_libfbclient: what prepare() found, as of a column.
ParamDaltype(c) == FirebirdDaltype(c)

DescribedParam(c, nullable) == Parameter(c.sql, Factor(c) \div 10, nullable)

\* freeVars() and allocateVars(): buffers without a value, and a NULL where there
\* can be one.
AllocateVars(p) == [p EXCEPT !.isNull = p.nullable, !.as = "none", !.data = OtherMember]

\* A bug: NULL is told only to a parameter that was described as nullable.
SetNull_Described(p) == p

\* The type is rewritten to one that can be NULL.
SetNull(p) == [p EXCEPT !.nullable = TRUE, !.isNull = TRUE]

\* istream >> of a number that does not fit leaves the nearest one that does.
Nearest(t, n) ==
  CHOOSE m \in Limits(t) : \A k \in Limits(t) : (IF m > n THEN m - n ELSE n - m) <= (IF k > n THEN k - n ELSE n - k)

\* A NUMERIC for an integer is sent as a 64-bit integer with its own scale.
FillNumeric(p, x) ==
  LET q == WithoutPoint(p, x)
  IN  [q EXCEPT !.sql = "SQL_INT64", !.data = AnyNumber(2 * Nearest("BIGINT", Integer(q.data[2])))]

\* A text has the length of the value, and no longer varies in it.
FillText(p, c, x) ==
  [AskedFor(p, x, IF c.octets THEN "VARBINARY" ELSE "STRING") EXCEPT !.sql = "SQL_TEXT"]

\* The others are asked for as the type of the parameter; there are no arrays.
FillOther(p, x) ==
  IF p.sql = "SQL_ARRAY" THEN Sent(p, "CUSTOM", Throws) ELSE AskedFor(p, x, Stands[p.sql])

\* fillBindBuffers(): a parameter that was not given is NULL as well.
FillBindBuffers(p, c, x) ==
  LET fresh == AllocateVars(p)
  IN  CASE x.value = NoValue -> SetNull(fresh)
        [] x.type = "NUMERIC" /\ p.sql \in {"SQL_SHORT", "SQL_LONG", "SQL_INT64"} -> FillNumeric(fresh, x)
        [] p.sql \in {"SQL_TEXT", "SQL_VARYING"} -> FillText(fresh, c, x)
        [] OTHER -> FillOther(fresh, x)

(* Firebird: the options of a connection, in a block of bytes: a tag, a length and the *)
(* value, after the version of the block                                              *)

Dpb == [size |-> Byte, bytes |-> <<1>>]

\* The buffer is doubled until there is more than the room that is needed.
Grown(block, n) ==
  LET times == CHOOSE k \in 0 .. 4 : /\ n + 2 < block.size * 2 ^ k - Len(block.bytes)
                                     /\ \A j \in 0 .. k - 1 : n + 2 >= block.size * 2 ^ j - Len(block.bytes)
  IN  block.size * 2 ^ times

\* A bug: what is appended reaches the end of the buffer and beyond.
AddDpbParam_Room(block, tag, chars) ==
  [size  |-> IF Len(chars) < block.size - Len(block.bytes) THEN block.size ELSE Grown(block, Len(chars)),
   bytes |-> block.bytes \o <<tag, Len(chars) % Byte>> \o SubSeq(chars, 1, Len(chars) % Byte)]

\* add_dpb_param(): an assert keeps the length of a text to Byte, which is one too many.
AddDpbParam(block, tag, chars) ==
  [size  |-> Grown(block, Len(chars)),
   bytes |-> block.bytes \o <<tag, Len(chars) % Byte>> \o SubSeq(chars, 1, Len(chars) % Byte)]

\* connect(): user, password, character set and dialect, a single byte.
AttachBlock(user, password, charset) ==
  AddDpbParam(AddDpbParam(AddDpbParam(AddDpbParam(Dpb, 1, user), 2, password), 3, charset), 4, <<3>>)

\* The server finds one option behind the other.
OptionsIn(bytes) ==
  LET from[i \in 2 .. Len(bytes) + 1] ==
        IF i > Len(bytes) THEN <<>>
        ELSE <<[tag |-> bytes[i], chars |-> SubSeq(bytes, i + 2, i + 1 + bytes[i + 1])]>> \o from[i + 2 + bytes[i + 1]]
  IN  from[2]

(* ODBC: each type declares the C type of the member it is in, and a type of SQL *)

\* A bug: the C type of an unsigned number is the signed one, as its SQL type is.
IntegralParam_Signed(t) ==
  LET s == CASE t = "UINT" -> "INT" [] t = "UCHAR" -> "CHAR" [] t = "USMALLINT" -> "SMALLINT"
             [] t = "UBIGINT" -> "BIGINT" [] OTHER -> t
  IN  <<s, CHOOSE sql \in DOMAIN Sized : Sized[sql][1] = s>>

IntegralParam(t) ==
  CASE t \in {"INT", "UINT"} -> <<t, "SQL_INTEGER">>
    [] t \in {"CHAR", "UCHAR"} -> <<t, "SQL_TINYINT">>
    [] t \in {"SMALLINT", "USMALLINT"} -> <<t, "SQL_SMALLINT">>
    [] t \in {"BIGINT", "UBIGINT"} -> <<t, "SQL_BIGINT">>

ValueParam(t) ==
  CASE t = "BOOL" -> <<t, "SQL_BIT">> [] t = "FLOAT" -> <<t, "SQL_FLOAT">> [] t = "DOUBLE" -> <<t, "SQL_DOUBLE">>
    [] t = "DATE" -> <<t, "SQL_TYPE_DATE">> [] t = "TIME" -> <<t, "SQL_TYPE_TIME">>
    [] t = "TIMESTAMP" -> <<t, "SQL_TYPE_TIMESTAMP">> [] t = "VARBINARY" -> <<t, "SQL_VARBINARY">>

\* What the driver reads there; a number the type of SQL cannot hold is refused.
DriverReads(declared, v) ==
  LET h == IF declared[1] \in IntegralTypes THEN 2 * Static(declared[1], Integer(v[2])) ELSE 0
  IN  IF declared[1] \notin IntegralTypes THEN v
      ELSE IF CanHold(Sized[declared[2]][1], h) THEN AnyNumber(h) ELSE Throws

DeclaredAs(declared, x) ==
  Sent(Parameter(declared[2], 0, TRUE), x.type, DriverReads(declared, x.value))

\* The type is asked of the driver, if that has SQLDescribeParam, or is any.
BindNull == Parameter("SQL_VARCHAR", 0, TRUE)

\* The magnitude in bytes, the sign, the precision and the scale; the description
\* of the parameter is told of them again.
BindParamNumeric(x) == WithoutPoint(Parameter("SQL_NUMERIC", 0, TRUE), x)

\* All that is left, in characters of the one or the other width.
BindParamString(x) == AskedFor(Parameter("SQL_VARCHAR", 0, TRUE), x, "STRING")

OdbcBound(x) ==
  CASE x.value = NoValue -> BindNull
    [] x.type \in IntegralTypes -> DeclaredAs(IntegralParam(x.type), x)
    [] x.type = "NUMERIC" -> BindParamNumeric(x)
    [] x.type \in ValueTypes \ {"NUMERIC", "STRING"} -> DeclaredAs(ValueParam(x.type), x)
    [] OTHER -> BindParamString(x)

BoundTo(e, p, c, x) ==
  CASE e = "sqlite" -> SqliteBound(p, x) [] e = "firebird" -> FillBindBuffers(p, c, x)
    [] e = "odbc" -> OdbcBound(x)

-----------------------------------------------------------------------------
VARIABLES
  server,  \* the engine of the resultset
  column,  \* what the server says of the column
  value,   \* of the row
  argument,   \* the Variant of the parameter
  bound    \* the parameter, as it is sent

columnVars == <<server, column, value, argument, bound>>

Servers == {"odbc", "firebird", "sqlite", "sdi"}

ColumnInit ==
  /\ server \in Servers
  /\ column \in ColumnsOf(server)
  /\ value = NoValue
  /\ argument = Nothing
  /\ bound = Parameter("any", 0, TRUE)

\* The next row.
nextValue == value' \in ValuesOf(server, column) /\ UNCHANGED <<server, column, argument, bound>>

ColumnNext == nextValue

\* A statement with one parameter, which Firebird describes as it does columns.
ParamInit ==
  /\ server \in Servers \ {"sdi"}
  /\ column \in IF server = "firebird" THEN ColumnsOf(server) ELSE {CHOOSE c \in ColumnsOf(server) : TRUE}
  /\ value = NoValue
  /\ argument = Nothing
  /\ bound \in IF server = "firebird" THEN {DescribedParam(column, b) : b \in BOOLEAN}
              ELSE {Parameter("any", 0, TRUE)}

\* Variants of all types, with the values each of them can have.
GivenVariants ==
  {NullVariant, Typed("VARBINARY", <<"bytes">>), Typed("DATE", <<"date", 1>>), Typed("TIME", <<"time", 1>>),
   Typed("TIMESTAMP", <<"timestamp", 1, 1>>)}
  \union {Typed("STRING", TextOfA(x)) : x \in NumberValues \union MomentValues \union {Word}}
  \union {x \in [type : {t \in ValueTypes : IsNumeric(t)}, value : NumberValues] : CanHold(x.type, x.value[2])}

\* execute(), again and again.
bindAndExecute(x) ==
  /\ argument' = x
  /\ bound' = BoundTo(server, bound, column, x)
  /\ UNCHANGED <<server, column, value>>

ParamNext == \E x \in GivenVariants : bindAndExecute(x)

-----------------------------------------------------------------------------
\* What the value is as a t, if there is such a thing.
Meant(v, t) ==
  LET x == IF IsText(v) THEN v[2] ELSE v
      m == ToMoment(t, x)
  IN  CASE v = NoValue -> Throws
        [] t = "STRING" -> TextOfA(x)
        [] IsNumber(x) /\ IsNumeric(t) -> IF t = "BOOL" THEN Truth(x[2] # 0) ELSE x
        [] IsNumber(x) /\ t = "TIMESTAMP" -> <<"seconds", x[2]>>
        [] <<m[1], t>> \in {<<"date", "DATE">>, <<"time", "TIME">>, <<"timestamp", "TIMESTAMP">>} -> m
        [] x = <<"bytes">> /\ t = "VARBINARY" -> x
        [] OTHER -> Throws

\* What is converted without a test: a number to a type that cannot hold it, a
\* column described as a float that is a double; the text of a date or a word to
\* a number; to bool, by way of an int of which SQLite and SDI ask whether it is
\* positive; a DATE of ODBC to a timestamp; a char to a text.
Lossy(e, c, v, t) ==
  LET x == IF IsText(v) THEN v[2] ELSE v
  IN  \/ IsNumber(x) /\ IsNumeric(t) /\ t # "BOOL" /\ ~CanHold(t, x[2])
      \/ e = "odbc" /\ c.sql = "SQL_FLOAT" /\ IsNumber(v) /\ ~CanHold("FLOAT", v[2])
      \/ IsText(v) /\ ~IsNumber(x) /\ IsNumeric(t)
      \/ e \in {"sqlite", "sdi"} /\ IsNumber(x) /\ t = "BOOL" /\ ~(x[2] >= 0 /\ CanHold("INT", x[2]))
      \/ e = "odbc" /\ c.sql = "SQL_TYPE_DATE" /\ t = "TIMESTAMP"
      \/ Daltype(e, c) \in {"CHAR", "UCHAR"} /\ t = "STRING"

\* A date or a number alone is no timestamp.
IsTimestampText == IsText(value) /\ value[2][1] = "timestamp"

\* The columns whose accessor has no cast to their own type.
NoOwnCast ==
  CASE server = "odbc" -> Daltype(server, column) = "UNKNOWN"
    [] server = "firebird" -> column.sql = "SQL_ARRAY"
    [] server = "sqlite" -> Parse(column) \in {"CHAR", "SMALLINT", "BIGINT", "FLOAT", "DOUBLE"}
                            \/ (Parse(column) = "TIMESTAMP" /\ ~IsTimestampText)
    [] server = "sdi" -> column \in {"BOOL", "FLOAT"}

\* Whichever way a value takes, as the driver wrote it, through a cast of the
\* accessor or that of the type a deep copy has, it arrives as what the server meant by
\* it, or the call throws; and a column can be read as the type it is described as,
\* whose name is the declared one.
ColumnKept ==
  LET d    == Daltype(server, column)
      own  == CopyType(d)
      copy == CopyOfColumn(server, column, value)
  IN  /\ \A t \in ValueTypes : ~Lossy(server, column, value, t) =>
           /\ GetAsType(server, column, value, t) \in {Throws, Meant(value, t)}
           /\ copy # Throws /\ ~Lossy(server, column, value, own) =>
                GetValue(own, copy, t) \in {Throws, Meant(Meant(value, own), t)}
      /\ value # NoValue /\ ~NoOwnCast /\ Meant(value, own) # Throws => copy # Throws
      /\ server = "sqlite" /\ d # "UNKNOWN" /\ column.rest = "" =>
           Daltype2Sqlname(d) = column.name \/ column.name \in {"SHORTINT", "REAL", "TEXT"}

\* A parameter is converted without a test too: a number to a type that cannot hold
\* it, the text of a date or a word to a number, a char to a text; and in Firebird all
\* but a NUMERIC is written at the scale the parameter has, that of the statement or
\* of the NUMERIC before, and a NUMERIC without its point has to fit.
ParamLossy ==
  LET x == IF IsText(argument.value) THEN argument.value[2] ELSE argument.value
  IN  \/ IsNumber(x) /\ IsNumeric(bound.as) /\ ~CanHold(bound.as, x[2])
      \/ IsText(argument.value) /\ ~IsNumber(x) /\ IsNumeric(bound.as)
      \/ argument.type \in {"CHAR", "UCHAR"} /\ bound.as = "STRING"
      \/ server = "firebird" /\ argument.type # "NUMERIC" /\ bound.scale # 0
      \/ server = "firebird" /\ argument.type = "NUMERIC" /\ bound.as = "NUMERIC"
           /\ Integer(x[2] * 10 ^ bound.scale) \notin Limits("BIGINT")

\* The Variants that a parameter takes.
Accepted ==
  CASE server = "odbc" -> ValueTypes \ UnsignedTypes
    [] server = "firebird" -> {ParamDaltype(column)} \ {"CUSTOM"}
    [] server = "sqlite" -> ValueTypes \ {"VARBINARY", "UBIGINT"}

\* The server is told NULL of a NULL and of nothing else, also of a parameter that
\* had, or was described to have, a value; any other value is what the Variant holds,
\* at the scale that is sent with it, or refused.
ParamKept ==
  /\ bound.isNull <=> argument.value = NoValue
  /\ ~bound.isNull => bound.data = Throws \/ ParamLossy
                       \/ bound.data = (IF IsNumber(argument.value) /\ IsNumeric(bound.as) /\ bound.as # "BOOL"
                                         THEN Scaled(argument.value[2], bound.scale) ELSE Meant(argument.value, bound.as))
  /\ ~bound.isNull /\ argument.type \in Accepted => bound.data # Throws
  /\ bound.isNull => bound.nullable

\* However long the options of a connection are, the block of them is in its buffer,
\* and the server finds them there as they were given, but for a text of exactly as
\* many characters as a byte has values, of which nothing is sent.
AttachKept ==
  \A a, b, c \in {[i \in 1 .. n |-> 5] : n \in 0 .. Byte} :
    LET block == AttachBlock(a, b, c)
        Told(tag, chars) == [tag |-> tag, chars |-> IF Len(chars) = Byte THEN <<>> ELSE chars]
    IN  /\ Len(block.bytes) <= block.size
        /\ OptionsIn(block.bytes) = <<Told(1, a), Told(2, b), Told(3, c), Told(4, <<3>>)>>

\* What the program and the server say to each other arrives: the values of columns,
\* those of parameters, and the options of the connection.
ValueKept ==
  IF argument # Nothing THEN ParamKept
  ELSE ColumnKept /\ (server = "firebird" /\ value = NoValue => AttachKept)
=============================================================================
