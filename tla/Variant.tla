------------------------------ MODULE Variant ------------------------------
(***************************************************************************)
(* A Variant and a variable of its client (variant.hh, types/type_*.cc,    *)
(* variant_binary.cc).  The variant owns a value, or points to the         *)
(* variable and writes through to it, or points to it and may only read.   *)
(* Values move between the two through the conversions of the integral     *)
(* types, and they are compared, as the conditions of the SQL proxy do.    *)
(* The other value types are left out.                                     *)
(***************************************************************************)
EXTENDS Integers

CONSTANTS
  Span,             \* [Types -> how many values it has, 2 ^ its width]
  Numbers,          \* the values that variants are set to
  ConvertException

SignedTypes   == {"CHAR", "SMALLINT", "INT", "BIGINT"}
UnsignedTypes == {"UCHAR", "USMALLINT", "UINT", "UBIGINT"}
Types         == SignedTypes \union UnsignedTypes \union {"BOOL"}

ASSUME SpanAssumption ==
  /\ Span \in [Types -> Nat]
  /\ \A t \in Types : Span[t] % 2 = 0
  /\ Span["CHAR"] = Span["UCHAR"] /\ Span["SMALLINT"] = Span["USMALLINT"]
  /\ Span["INT"] = Span["UINT"] /\ Span["BIGINT"] = Span["UBIGINT"]
  /\ Span["BOOL"] = 2 /\ Span["CHAR"] > 2
  /\ 2 * Span["CHAR"] <= Span["SMALLINT"] /\ 2 * Span["SMALLINT"] <= Span["INT"]
  /\ 2 * Span["INT"] <= Span["BIGINT"]

\* numeric_limits<T>
Lowest(t)  == IF t \in SignedTypes THEN -(Span[t] \div 2) ELSE 0
Highest(t) == IF t \in SignedTypes THEN Span[t] \div 2 - 1 ELSE Span[t] - 1
Limits(t)  == Lowest(t) .. Highest(t)

TypedValues == UNION {[type : {t}, value : Limits(t)] : t \in Types}

ASSUME NumbersAssumption == Numbers \subseteq TypedValues

-----------------------------------------------------------------------------
(* Conversions: the value of type u as one of type t, or an exception      *)

\* A conversion of the language.
Static(t, v) ==
  IF t = "BOOL" THEN (IF v = 0 THEN 0 ELSE 1)
  ELSE ((v - Lowest(t)) % Span[t]) + Lowest(t)

\* integral_cast<U>(value): the value must be within the limits of U.
IntegralCast(u, v) == IF v \in Limits(u) THEN v ELSE ConvertException

\* supports_integral_type_cast<U, T>: arithmetic_cast<U, T>() takes a T, so the
\* value has become one before it is tested, against the limits of U.
SupportsIntegralTypeCast(u, t, v) ==
  IF t = "BOOL" THEN Static(t, v) ELSE IntegralCast(u, Static(t, v))

\* A bug: the test for what is too large is forgotten.
IntCast_Above(t, v) ==
  IF t \in {"BIGINT", "BOOL"} \/ v >= Lowest(t) THEN Static(t, v) ELSE ConvertException

\* The casts of a signed int, which have their own tests.
IntCast(t, v) ==
  IF t \in {"BIGINT", "BOOL"} THEN Static(t, v)
  ELSE IF t \in {"UINT", "UBIGINT"} THEN (IF v < 0 THEN ConvertException ELSE v)
  ELSE IF v \in Limits(t) THEN v ELSE ConvertException

\* Variant::get<T>() of a value.
Get(x, t) ==
  IF x.type \in {t, "BOOL"} THEN x.value
  ELSE IF x.type = "INT" THEN IntCast(t, x.value)
  ELSE IF x.type = "UINT" /\ t = "INT" THEN Static(t, x.value)
  ELSE SupportsIntegralTypeCast(x.type, t, x.value)

-----------------------------------------------------------------------------
(* Comparison                                                              *)

\* The cases of a switch of resolve_higher() for the nine integral types.
Row(bool, char, uchar, short, ushort, int, uint, long, ulong) ==
  [BOOL |-> bool, CHAR |-> char, UCHAR |-> uchar, SMALLINT |-> short, USMALLINT |-> ushort,
   INT |-> int, UINT |-> uint, BIGINT |-> long, UBIGINT |-> ulong]

\* Those that most integral types have for fractions.
Fractions == [NUMERIC |-> "NUMERIC", FLOAT |-> "FLOAT", DOUBLE |-> "DOUBLE"]

All(type) == Row(type, type, type, type, type, type, type, type, type)

\* The cases of two parts of a switch.
Both(cases, others) ==
  [t \in DOMAIN cases \union DOMAIN others |-> IF t \in DOMAIN cases THEN cases[t] ELSE others[t]]

\* What a case with no type of its own returns is left out here: UNKNOWN.
WithBool ==
  Both([NUMERIC |-> "NUMERIC"], Row("BOOL", "CHAR", "UCHAR", "SMALLINT", "USMALLINT", "INT", "UINT", "BIGINT", "UBIGINT"))
WithChar ==
  Both(Fractions, Row("CHAR", "CHAR", "INT", "SMALLINT", "INT", "INT", "INT", "BIGINT", "UBIGINT"))
WithUchar ==
  Both(Fractions, Row("BOOL", "INT", "UCHAR", "INT", "INT", "INT", "UINT", "BIGINT", "UBIGINT"))
WithSmallint ==
  Both(Fractions, Row("SMALLINT", "CHAR", "SMALLINT", "SMALLINT", "INT", "INT", "BIGINT", "BIGINT", "UNKNOWN"))
WithUsmallint ==
  Both(Fractions, Row("UNKNOWN", "INT", "USMALLINT", "INT", "USMALLINT", "INT", "UINT", "BIGINT", "UBIGINT"))
WithInt ==
  Both([NUMERIC |-> "NUMERIC", FLOAT |-> "FLOAT", DOUBLE |-> "DOUBLE", STRING |-> "STRING"],
       Row("INT", "INT", "INT", "INT", "INT", "INT", "BIGINT", "BIGINT", "UBIGINT"))
WithUint ==
  Both(Fractions, Row("UINT", "UINT", "UINT", "BIGINT", "UINT", "BIGINT", "UINT", "UBIGINT", "UBIGINT"))
WithBigint ==
  Both(Fractions, Row("BIGINT", "BIGINT", "BIGINT", "BIGINT", "BIGINT", "BIGINT", "UBIGINT", "BIGINT", "UNKNOWN"))
WithUbigint   == Both(Fractions, All("UBIGINT"))
WithNumeric   == Both([FLOAT |-> "NUMERIC", DOUBLE |-> "NUMERIC", NUMERIC |-> "NUMERIC"], All("NUMERIC"))
WithFloat     == Fractions
WithDouble    == [Fractions EXCEPT !.FLOAT = "DOUBLE"]
WithString    == [STRING |-> "STRING"]
WithVarbinary == [VARBINARY |-> "VARBINARY"]
WithDate      == [DATE |-> "DATE", TIMESTAMP |-> "TIMESTAMP"]
WithTime      == [TIME |-> "TIME", TIMESTAMP |-> "TIMESTAMP"]
WithTimestamp == [t \in {"DATE", "TIME", "TIMESTAMP"} |-> "TIMESTAMP"]
WithBlob      == [BLOB |-> "BLOB"]
WithMemo      == [MEMO |-> "MEMO"]

Higher ==
  [BOOL |-> WithBool, CHAR |-> WithChar, UCHAR |-> WithUchar, SMALLINT |-> WithSmallint,
   USMALLINT |-> WithUsmallint, INT |-> WithInt, UINT |-> WithUint, BIGINT |-> WithBigint,
   UBIGINT |-> WithUbigint, NUMERIC |-> WithNumeric, FLOAT |-> WithFloat, DOUBLE |-> WithDouble,
   STRING |-> WithString, VARBINARY |-> WithVarbinary, DATE |-> WithDate, TIME |-> WithTime,
   TIMESTAMP |-> WithTimestamp, BLOB |-> WithBlob, MEMO |-> WithMemo]

\* A bug: of two integral types as wide, the signed one is taken.
ResolveHigher_Signed(a, b) ==
  IF {a, b} \subseteq Types /\ (Span[a] > Span[b] \/ (Span[a] = Span[b] /\ a \in SignedTypes)) THEN a ELSE b

\* resolve_higher(): the type that two values are brought to.
ResolveHigher(a, b) == IF b \in DOMAIN Higher[a] THEN Higher[a][b] ELSE "UNKNOWN"

\* The type whose operators are applied: an unknown one is taken for int.
OperatorType(a, b) == IF ResolveHigher(a, b) = "UNKNOWN" THEN "INT" ELSE ResolveHigher(a, b)

Holds(op, v, w) ==
  CASE op = "less" -> v < w [] op = "less_equal" -> v <= w [] op = "equal" -> v = w
    [] op = "not_equal" -> v # w [] op = "greater" -> v > w [] op = "greater_equal" -> v >= w

Comparisons == {"less", "less_equal", "equal", "not_equal", "greater", "greater_equal"}

\* apply_binary_method() of a comparison, of values that are not null.
Compare(op, x, y) ==
  LET t == OperatorType(x.type, y.type)
      v == Get(x, t)
      w == Get(y, t)
  IN  IF ConvertException \in {v, w} THEN ConvertException ELSE Holds(op, v, w)

-----------------------------------------------------------------------------
VARIABLES
  storage,  \* m_storage: null, value, ptr or const_ptr, and the value it owns
  cell,     \* the variable of the client
  given,    \* history: the number the variant was given last
  cellGiven \* history: the number the variable was given last

variantVars == <<storage, cell, given, cellGiven>>

Zero == [type |-> "INT", value |-> 0]
Owns(x) == [kind |-> "value", own |-> x]
Storage(kind) == [kind |-> kind, own |-> Zero]

Points == storage.kind \in {"ptr", "const_ptr"}

\* What the variant stands for.
Held      == IF Points THEN cell ELSE storage.own
HeldGiven == IF Points THEN cellGiven ELSE given

VariantInit ==
  /\ storage = Storage("null") /\ cell = Zero
  /\ given = 0 /\ cellGiven = 0

\* The client's variable, of whatever type; the variant does not point to it.
declare(t) ==
  /\ ~Points
  /\ cell' = [type |-> t, value |-> 0] /\ cellGiven' = 0
  /\ UNCHANGED <<storage, given>>

\* replace_storage() with a pointer to the variable.
point(kind) == storage' = Storage(kind) /\ UNCHANGED <<cell, given, cellGiven>>

\* ptr_value::set_value(): the variable becomes the number as it was converted,
\* unless that has thrown.
Stored(number, v) ==
  /\ v # ConvertException
  /\ cell' = [cell EXCEPT !.value = v] /\ cellGiven' = number
  /\ UNCHANGED <<storage, given>>

\* Variant::set<T>(value); through a pointer to const it throws.
set(x) ==
  \/ storage.kind = "ptr" /\ Stored(x.value, Get(x, cell.type))
  \/ ~Points /\ storage' = Owns(x) /\ given' = x.value /\ UNCHANGED <<cell, cellGiven>>

\* Variant::assign(value), of the variant itself or of one that has a copy of
\* it: the storage is replaced by a deep copy, which points nowhere.
deepcopy ==
  /\ storage.kind # "null"
  /\ storage' = Owns(Held) /\ given' = HeldGiven
  /\ UNCHANGED <<cell, cellGiven>>

setNull == storage' = Storage("null") /\ UNCHANGED <<cell, given, cellGiven>>

\* The client's variable = Variant::get<T>(), which throws for a null.
get == storage.kind # "null" /\ Stored(HeldGiven, Get(Held, cell.type))

\* The conversions that test a value after it was truncated.
Truncates(u, t) ==
  \/ u \notin {"BOOL", "INT"} /\ Span[t] < Span[u]
  \/ u = "UINT" /\ t = "INT"

\* Every number converts to bool; what is left of it is not the number.
Careful(x) == ~Truncates(x.type, cell.type) /\ (cell.type = "BOOL" => x.type = "BOOL")

VariantNext ==
  \/ \E t \in Types : declare(t)
  \/ \E kind \in {"ptr", "const_ptr"} : point(kind)
  \/ \E x \in Numbers : (storage.kind = "ptr" => Careful(x)) /\ set(x)
  \/ deepcopy \/ setNull
  \/ Careful(Held) /\ get

VariantSpec == VariantInit /\ [][VariantNext]_variantVars

-----------------------------------------------------------------------------
\* The variant and the variable are the numbers they were given, through any
\* chain of copies, pointers and conversions to a type that is as wide, or from
\* int to any: a number that does not fit is refused and nothing is changed.
NumbersKept ==
  /\ storage.kind # "null" => Held.value = HeldGiven
  /\ cell.value = cellGiven /\ cell.value \in Limits(cell.type)

\* The pairs of types that are compared as one of them that cannot hold the
\* values of the other, without a test.
Miscompared == {<<"CHAR", "UINT">>, <<"SMALLINT", "CHAR">>, <<"UCHAR", "BOOL">>,
                <<"SMALLINT", "UBIGINT">>, <<"BIGINT", "UBIGINT">>}

\* Two values compare like their numbers, whatever their types, widths and
\* signs, or the comparison throws.
ComparesNumbers ==
  storage.kind # "null" =>
    \A op \in Comparisons :
      /\ <<Held.type, cell.type>> \notin Miscompared =>
           Compare(op, Held, cell) \in {Holds(op, Held.value, cell.value), ConvertException}
      /\ <<cell.type, Held.type>> \notin Miscompared =>
           Compare(op, cell, Held) \in {Holds(op, cell.value, Held.value), ConvertException}

\* What a variant holds is the number it was given, through copies, pointers and
\* conversions, and it compares like that number, or an exception says that it cannot.
VariantExact == NumbersKept /\ ComparesNumbers

\* get<T>() gives the number or throws, for every type of numbers.
ConversionExact ==
  storage.kind # "null" =>
    \A t \in Types \ {"BOOL"} : Get(Held, t) \in {Held.value, ConvertException}
=============================================================================
