------------------------------ MODULE SqlQuery ------------------------------
(***************************************************************************)
(* The text of a query and what the SQL proxy makes of it: tokens          *)
(* (tokenizer.hh), the tree of the grammar (parser.y, ast.hh), the sources,*)
(* parameters and fields of the cursor (the visitors and ParserAdaptor of  *)
(* sqlcursor.cc), and the values of expressions on the rows of the sources.*)
(*                                                                         *)
(* A text is a sequence of pieces: a run of letters, a run of digits, any  *)
(* other character on its own.  Whatever is not accepted is Refused, by an *)
(* exception or an assert.  How the cursor moves is in SqlCursor.          *)
(***************************************************************************)
EXTENDS ColumnTypes, Decimal, Sequences, FiniteSets, TLC

CONSTANTS
  Words,       \* the runs of letters
  Numerals,    \* the runs of digits and their numbers
  Capitals,    \* the keywords in other letters and what they are in capitals
  TablesOf,    \* what the driver has: a table's columns, each with its value in the current row
  Queries,     \* queries, as trees, and texts that are none
  UserParams   \* the parameters of executions: values by number

Seqs == INSTANCE SequencesExt

Refused   == [kind |-> "Refused"]
NullToken == [kind |-> "Undefined"]  \* the token of an error in a text that has none is read

-----------------------------------------------------------------------------
(* Tokenizer                                                               *)

Token(id, data, end) == [id |-> id, data |-> data, end |-> end]
InvalidToken == Token("INVALID", <<>>, 0)

Keywords == {"SELECT", "FROM", "WHERE", "AND", "OR", "XOR", "IS", "AS", "NOT", "NULL", "MOD"}

Symbols ==
  (";" :> "SEP") @@ ("(" :> "LP") @@ (")" :> "RP") @@ ("=" :> "EQUAL") @@ ("?" :> "QMARK") @@ ("," :> "COMMA")
  @@ ("+" :> "PLUS") @@ ("-" :> "MINUS") @@ ("*" :> "MUL") @@ ("." :> "DOT") @@ ("/" :> "DIV")
  @@ ("<" :> "LOWER") @@ (">" :> "GREATER")

\* Two characters in a row, the second of which the first one waits for.
Pairs ==
  (<<"!", "=">> :> "NOTEQUAL") @@ (<<"|", "|">> :> "CONCAT") @@ (<<"<", "=">> :> "LOWEREQUAL")
  @@ (<<">", "=">> :> "GREATEREQUAL")

Quotes == ("'" :> "'") @@ ("\"" :> "\"") @@ ("[" :> "]")

LineBreaks == {"LF", "CR"}
Whitespace == LineBreaks \union {" ", "TAB"}

IsDigits(c) == c \in DOMAIN Numerals
IsAlnum(c)  == c \in Words \/ IsDigits(c)

\* The first position from p on with a character of a set, behind the end if none.
FirstIn(text, p, chars) ==
  CHOOSE e \in p .. Len(text) + 1 :
    /\ e > Len(text) \/ text[e] \in chars
    /\ \A i \in p .. e - 1 : text[i] \notin chars

\* readLiteral(), readQuotedId(), readQuotedId2(); the closing quote may be missing.
Quoted(text, p) ==
  LET e == FirstIn(text, p + 1, {Quotes[text[p]]})
  IN  Token(IF text[p] = "'" THEN "LITERAL" ELSE "ID", SubSeq(text, p + 1, e - 1), e + 1)

\* readMulti(): a keyword, a number or an identifier, of letters and digits; a
\* point goes on what begins with a digit.
Multi(text, p) ==
  LET GoesOnAt(i) == IsAlnum(text[i]) \/ (IsDigits(text[p]) /\ text[i] = ".")
      e    == CHOOSE e \in p + 1 .. Len(text) + 1 :
                /\ e > Len(text) \/ ~GoesOnAt(e)
                /\ \A i \in p + 1 .. e - 1 : GoesOnAt(i)
      data == SubSeq(text, p, e - 1)
      word == IF data[1] \in DOMAIN Capitals THEN Capitals[data[1]] ELSE data[1]
  IN  IF Len(data) = 1 /\ word \in Keywords THEN Token(word, data, e)
      ELSE IF \A i \in DOMAIN data : IsDigits(data[i]) \/ data[i] = "." THEN Token("NUMBER", data, e)
      ELSE Token("ID", data, e)

\* Where next() goes on behind a comment that begins at p; /*/ is all of one.
SkipComment(text, p) ==
  IF text[p + 1] = "/" THEN FirstIn(text, p + 2, LineBreaks)
  ELSE LET Ends == {e \in p + 2 .. Len(text) : text[e - 1] = "*" /\ text[e] = "/"}
       IN  IF Ends = {} THEN Len(text) + 1 ELSE 1 + CHOOSE e \in Ends : \A f \in Ends : e <= f

\* The token at p, which is no whitespace and no comment.
TokenAt(text, p) ==
  LET both == SubSeq(text, p, IF p < Len(text) THEN p + 1 ELSE p)
  IN  CASE text[p] \in DOMAIN Quotes -> Quoted(text, p)
        [] both \in DOMAIN Pairs -> Token(Pairs[both], both, p + 2)
        [] text[p] \in {"!", "|"} -> InvalidToken
        [] text[p] \in DOMAIN Symbols -> Token(Symbols[text[p]], <<text[p]>>, p + 1)
        [] OTHER -> Multi(text, p)

\* next() until the end; the first invalid token is the last one.
Tokens(text) ==
  LET IsComment(p) == text[p] = "/" /\ p < Len(text) /\ text[p + 1] \in {"/", "*"}
      from[p \in 1 .. Len(text) + 2] ==
        IF p > Len(text) THEN <<>>
        ELSE IF text[p] \in Whitespace THEN from[p + 1]
        ELSE IF IsComment(p) THEN from[SkipComment(text, p)]
        ELSE LET t == TokenAt(text, p)
             IN  IF t = InvalidToken THEN <<t>> ELSE <<t>> \o from[t.end]
  IN  from[1]

-----------------------------------------------------------------------------
(* The grammar                                                             *)

Node(kind, data, childs) == [kind |-> kind, data |-> data, childs |-> childs]

\* The binary operators from those that bind loosest; IS stands in the fourth.
Levels ==
  <<{"OR"}, {"AND"}, {"XOR"}, {"EQUAL", "NOTEQUAL", "IS"}, {"LOWER", "GREATER", "LOWEREQUAL", "GREATEREQUAL"},
    {"PLUS", "MINUS", "CONCAT"}, {"MUL", "DIV", "MOD"}>>

\* The tokens an operand ends with: behind one of them, a sign is an operator.
OperandEnds == {"ID", "LITERAL", "NUMBER", "NULL", "QMARK", "RP"}

\* How many parentheses are open between lo and i.
Depth(toks, lo, i) ==
  Cardinality({j \in lo .. i : toks[j].id = "LP"}) - Cardinality({j \in lo .. i : toks[j].id = "RP"})

\* The positions of a list's commas, with those before and behind it.
Commas(toks, lo, hi) ==
  {lo - 1, hi + 1} \union {i \in lo .. hi : toks[i].id = "COMMA" /\ Depth(toks, lo, i) = 0}

\* The k-th of some positions.
Nth(positions, k) == CHOOSE i \in positions : Cardinality({j \in positions : j < i}) = k - 1

\* The bounds of the items between commas.
ItemsBetween(toks, lo, hi) ==
  LET cs == Commas(toks, lo, hi)
  IN  [k \in 1 .. Cardinality(cs) - 1 |-> <<Nth(cs, k) + 1, Nth(cs, k + 1) - 1>>]

\* A node of these childs, unless one of them is wrong.
NodeOf(kind, data, childs) ==
  IF \E i \in DOMAIN childs : childs[i] = Refused THEN Refused ELSE Node(kind, data, childs)

\* idGroup: names with points between.
IdGroup(toks, lo, hi) ==
  IF (hi - lo) % 2 = 0 /\ \A i \in lo .. hi : toks[i].id = IF (i - lo) % 2 = 0 THEN "ID" ELSE "DOT"
    THEN Node("IdGroup", [i \in 1 .. ((hi - lo) \div 2) + 1 |-> toks[lo + 2 * (i - 1)].data], <<>>)
  ELSE Refused

\* NumberNode::init() takes digits with one point at most.
IsNumeral(data) == Cardinality({i \in DOMAIN data : data[i] = "."}) <= 1

\* primaryExpr of a single token; a parameter is known by its place.
Single(toks, i) ==
  CASE toks[i].id = "LITERAL" -> Node("Literal", toks[i].data, <<>>)
    [] toks[i].id = "NUMBER" -> IF IsNumeral(toks[i].data) THEN Node("Number", toks[i].data, <<>>) ELSE Refused
    [] toks[i].id = "NULL" -> Node("Null", <<>>, <<>>)
    [] toks[i].id = "QMARK" -> Node("Param", <<i>>, <<>>)
    [] OTHER -> IdGroup(toks, i, i)

\* expression: the operators that bind loosest come last to the top, of those
\* the last one; NOT and the signs bind tighter than all others.
Expression(toks, first, last) ==
  LET n == Len(toks)
      expr[lo \in 1 .. n + 1, hi \in 0 .. n] ==
        LET Cands(l) == {i \in lo + 1 .. hi : /\ toks[i].id \in Levels[l] /\ Depth(toks, lo, i) = 0
                                              /\ toks[i - 1].id \in OperandEnds}
            level    == CHOOSE l \in DOMAIN Levels : Cands(l) # {} /\ \A m \in 1 .. l - 1 : Cands(m) = {}
            op       == CHOOSE i \in Cands(level) : \A j \in Cands(level) : j <= i
            rest     == [i \in 1 .. hi - op |-> toks[op + i].id]
            args     == ItemsBetween(toks, lo + 2, hi - 1)
        IN  CASE lo > hi -> Refused
              [] \E l \in DOMAIN Levels : Cands(l) # {} ->
                   (CASE toks[op].id # "IS" -> NodeOf("Expr", toks[op].id, <<expr[lo, op - 1], expr[op + 1, hi]>>)
                      [] rest = <<"NULL">> -> NodeOf("Expr", "ISNULL", <<expr[lo, op - 1]>>)
                      [] rest = <<"NOT", "NULL">> -> NodeOf("Expr", "ISNOTNULL", <<expr[lo, op - 1]>>)
                      [] OTHER -> Refused)
              [] toks[lo].id = "NOT" -> NodeOf("Expr", "NOT", <<expr[lo + 1, hi]>>)
              [] toks[lo].id = "PLUS" -> NodeOf("Expr", "POSITIVE", <<expr[lo + 1, hi]>>)
              [] toks[lo].id = "MINUS" -> NodeOf("Expr", "NEGATIVE", <<expr[lo + 1, hi]>>)
              [] toks[lo].id = "LP" /\ toks[hi].id = "RP" -> expr[lo + 1, hi - 1]
              [] lo = hi -> Single(toks, lo)
              [] toks[lo].id = "ID" /\ toks[lo + 1].id = "LP" /\ toks[hi].id = "RP" ->
                   IF hi = lo + 2 THEN Node("FuncCall", toks[lo].data, <<>>)
                   ELSE NodeOf("FuncCall", toks[lo].data, [k \in DOMAIN args |-> expr[args[k][1], args[k][2]]])
              [] OTHER -> IdGroup(toks, lo, hi)
  IN  expr[first, last]

\* attrListItem: everything, or an expression that may have a name.
AttrListItem(toks, lo, hi) ==
  LET named == lo < hi /\ toks[hi].id = "ID"
      as    == named /\ toks[hi - 1].id = "AS"
  IN  IF lo = hi /\ toks[lo].id = "MUL" THEN Node("AllAttr", <<>>, <<>>)
      ELSE IF as \/ (named /\ toks[hi - 1].id \in OperandEnds)
        THEN NodeOf("Alias", toks[hi].data, <<Expression(toks, lo, IF as THEN hi - 2 ELSE hi - 1)>>)
      ELSE Expression(toks, lo, hi)

\* fromListItem
FromListItem(toks, lo, hi) ==
  IF lo < hi /\ toks[hi].id = "ID" /\ toks[hi - 1].id = "ID"
    THEN NodeOf("Alias", toks[hi].data, <<IdGroup(toks, lo, hi - 1)>>)
  ELSE IdGroup(toks, lo, hi)

ListOf(kind, toks, lo, hi) ==
  LET items == ItemsBetween(toks, lo, hi)
  IN  IF lo > hi THEN Refused
      ELSE NodeOf(kind, <<>>, [k \in DOMAIN items |->
             IF kind = "From" THEN FromListItem(toks, items[k][1], items[k][2])
             ELSE AttrListItem(toks, items[k][1], items[k][2])])

\* selectExpr of all tokens but the last separator.
SelectExpr(toks) ==
  LET n        == IF toks[Len(toks)].id = "SEP" THEN Len(toks) - 1 ELSE Len(toks)
      At(id)   == {i \in 1 .. n : toks[i].id = id}
      from     == CHOOSE i \in At("FROM") : TRUE
      where    == IF At("WHERE") = {} THEN n + 1 ELSE CHOOSE i \in At("WHERE") : TRUE
  IN  IF toks[1].id # "SELECT" \/ Cardinality(At("FROM")) # 1 \/ Cardinality(At("WHERE")) > 1 THEN Refused
      ELSE NodeOf("Select", <<>>,
             <<ListOf("AttrList", toks, 2, from - 1), ListOf("From", toks, from + 1, where - 1)>>
             \o (IF where > n THEN <<>>
                 ELSE <<NodeOf("Where", <<>>, <<Expression(toks, where + 1, n)>>)>>))

\* SqlParser::load(): a token has data, so that a quoted nothing is refused.
\* A text without a token has no token to name in the exception.
Load(text) ==
  LET toks == Tokens(text)
  IN  IF toks = <<>> THEN NullToken
      ELSE IF \E i \in DOMAIN toks : toks[i].data = <<>> THEN Refused
      ELSE SelectExpr(toks)

-----------------------------------------------------------------------------
(* prepare(): the visitors                                                 *)

\* foreach_node(): the nodes of some kinds, a node before its childs, in order.
RECURSIVE NodesOf(_, _)
NodesOf(node, kinds) ==
  (IF node.kind \in kinds THEN <<node>> ELSE <<>>)
  \o Seqs!FlattenSeq([i \in DOMAIN node.childs |-> NodesOf(node.childs[i], kinds)])

\* SourceVisitor: the name of a table is the last one; without an alias it is
\* the name of the source.
SourceOf(item) ==
  LET names == IF item.kind = "Alias" THEN item.childs[1].data ELSE item.data
      table == names[Len(names)]
  IN  [parts |-> Len(names), table |-> table, alias |-> IF item.kind = "Alias" THEN item.data ELSE table]

\* registerSourceObject() and createProviders(): names that are different, of
\* tables that can be opened.
SourcesAccepted(objects) ==
  /\ \A i \in DOMAIN objects : objects[i].parts <= 3 /\ objects[i].table \in DOMAIN TablesOf
  /\ \A i, j \in DOMAIN objects : i # j => objects[i].alias # objects[j].alias

\* addMappingField(), addDataField(): a column of the only source, or of the one
\* that is named.
DataField(objects, names) ==
  LET name    == names[Len(names)]
      Sources == {i \in DOMAIN objects : Len(names) = 2 => objects[i].alias = names[1]}
      source  == CHOOSE i \in Sources : TRUE
      Columns == {c \in DOMAIN TablesOf[objects[source].table] : TablesOf[objects[source].table][c].name = name}
  IN  IF Len(names) > 2 \/ Cardinality(Sources) # 1 \/ Columns = {} THEN Refused
      ELSE [kind |-> "DataField", source |-> source, column |-> CHOOSE c \in Columns : \A d \in Columns : c <= d]

\* A bug: the parameters of the list are numbered behind those of the condition.
ParamsOf_WhereFirst(tree) ==
  Seqs!FlattenSeq([i \in DOMAIN tree.childs |-> NodesOf(tree.childs[Len(tree.childs) + 1 - i], {"Param"})])

\* ParamVisitor: m_params numbers the parameters as it comes by them.
ParamsOf(tree) == NodesOf(tree, {"Param"})

ParamNum(m_params, node) == CHOOSE k \in DOMAIN m_params : m_params[k] = node

\* addAllColumns()
AllColumns(objects) ==
  Seqs!FlattenSeq([i \in DOMAIN objects |->
    [c \in DOMAIN TablesOf[objects[i].table] |-> [kind |-> "DataField", source |-> i, column |-> c]]])

\* The identifiers IdMappingVisitor finds below a node are columns.
IdsMapped(objects, node) ==
  LET ids == NodesOf(node, {"IdGroup"})
  IN  \A i \in DOMAIN ids : DataField(objects, ids[i].data) # Refused

\* AttrListVisitor: the fields of an item; a function call is not supported.
FieldsOf(objects, item) ==
  LET node == IF item.kind = "Alias" THEN item.childs[1] ELSE item
  IN  CASE node.kind = "AllAttr" -> AllColumns(objects)
        [] node.kind = "IdGroup" -> <<DataField(objects, node.data)>>
        [] node.kind \in {"Literal", "Number", "Null"} -> <<[kind |-> "StaticField", node |-> node]>>
        [] node.kind = "Param" -> <<[kind |-> "ParamField", node |-> node]>>
        [] node.kind = "Expr" /\ IdsMapped(objects, node) -> <<[kind |-> "ComputedField", node |-> node]>>
        [] OTHER -> <<Refused>>

FieldsOfAll(objects, items) == Seqs!FlattenSeq([i \in DOMAIN items |-> FieldsOf(objects, items[i])])

\* PrepareSqlVisitor
Prepared(tree) ==
  LET objects == [i \in DOMAIN tree.childs[2].childs |-> SourceOf(tree.childs[2].childs[i])]
      fields  == FieldsOfAll(objects, tree.childs[1].childs)
      where   == [i \in 3 .. Len(tree.childs) |-> tree.childs[i].childs[1]]
  IN  IF ~SourcesAccepted(objects) THEN Refused
      ELSE IF \E i \in DOMAIN fields : fields[i] = Refused THEN Refused
      ELSE IF \E i \in DOMAIN where : ~IdsMapped(objects, where[i]) THEN Refused
      ELSE [kind |-> "Prepared", m_objects |-> objects, m_fields |-> fields, m_params |-> ParamsOf(tree), where |-> where]

\* SqlCursor::prepare()
PrepareSql(text) ==
  LET tree == Load(text) IN IF tree \in {Refused, NullToken} THEN tree ELSE Prepared(tree)

-----------------------------------------------------------------------------
(* Expressions                                                             *)

\* No count of halves: another fraction, a zero with a sign, and what operator% makes
\* of a divisor that is not positive: any number, or none because its loop has no end.
NotFollowed == <<"not followed">>

\* The TNumeric of a number of halves.
NumericOf(h) ==
  LET a == IF h < 0 THEN -h ELSE h
  IN  Number(DigitsOf(a \div 2) \o (IF a % 2 = 0 THEN <<>> ELSE <<5>>), a % 2, h >= 0)

\* What a TNumeric is in halves, right or wrong.
InHalves(m) ==
  LET a == (2 * AsInteger(m.m_nibbles)) \div 10 ^ m.m_scale
      h == IF m.m_sign THEN a ELSE -a
  IN  IF m # Aborted /\ NumericOf(h) = m THEN AnyNumber(h) ELSE NotFollowed

Calculated(result) == Typed("NUMERIC", InHalves(result))

\* operator%: counts up to the number from a multiple that is not far below.
Modulus(a, b) ==
  CASE a = b -> AnyNumber(0) [] b > a -> AnyNumber(a) [] a > b /\ b > 0 -> AnyNumber(a % b)
    [] OTHER -> NotFollowed

\* What an operator of TNumeric gives; DIV multiplies as MUL does.
Numerically(op, a, b, m, n) ==
  CASE op = "PLUS" -> Calculated(Plus(m, n))
    [] op = "MINUS" -> Calculated(Minus(m, n))
    [] op \in {"MUL", "DIV"} -> Calculated(Times(m, n))
    [] op = "MOD" -> Typed("NUMERIC", Modulus(a, b))
    [] op = "LOWER" -> Typed("BOOL", Truth(Less(m, n)))
    [] op = "GREATER" -> Typed("BOOL", Truth(Greater(m, n)))
    [] op = "LOWEREQUAL" -> Typed("BOOL", Truth(AtMost(m, n)))
    [] op = "GREATEREQUAL" -> Typed("BOOL", Truth(AtLeast(m, n)))
    [] op = "NOTEQUAL" -> Typed("BOOL", Truth(~Equal(m, n)))

Calculate(op, a, b) == Numerically(op, a, b, NumericOf(a), NumericOf(b))

\* Two texts one behind the other: digits are digits again.
Joined(x, y) ==
  IF IsNumber(x) /\ IsNumber(y) /\ x[2] % 2 = 0 /\ y[2] % 2 = 0 /\ x[2] >= 0 /\ y[2] >= 0
    THEN AnyNumber(x[2] * 10 ^ Len(DigitsOf(y[2] \div 2)) + y[2])
  ELSE <<"joined", x, y>>

\* The logical operators, of two truth values; the exclusive or is an integer.
Connected(op, a, b) ==
  CASE op = "AND" -> Typed("BOOL", Truth(a /\ b)) [] op = "OR" -> Typed("BOOL", Truth(a \/ b))
    [] op = "XOR" -> Typed("INT", Truth(a # b))

LogicOps      == {"AND", "OR", "XOR"}
CalculatedOps == {"PLUS", "MINUS", "MUL", "DIV", "MOD", "LOWER", "GREATER", "LOWEREQUAL", "GREATEREQUAL", "NOTEQUAL"}

\* What both operands of an operator are converted to.
OperandType(op) ==
  IF op \in LogicOps \union {"NOT"} THEN "BOOL" ELSE IF op = "CONCAT" THEN "STRING" ELSE "NUMERIC"

Operand(op, x) == GetValue(x.type, x.value, OperandType(op))

Failed(why) == Typed("UNKNOWN", why)

\* The second operand of OR and AND is converted where the first one does not decide.
Connect(op, a, b) ==
  CASE a = Throws -> Failed(Throws)
    [] op = "OR" /\ a[2] # 0 -> Typed("BOOL", Truth(TRUE))
    [] op = "AND" /\ a[2] = 0 -> Typed("BOOL", Truth(FALSE))
    [] OTHER ->
         (CASE b = Throws -> Failed(Throws)
            [] op \in CalculatedOps -> Calculate(op, a[2], b[2])
            [] op \in LogicOps -> Connected(op, a[2] # 0, b[2] # 0)
            [] op = "CONCAT" -> Typed("STRING", TextOfA(Joined(a[2], b[2]))))

AsTruth(equal) == IF equal = Throws THEN Failed(Throws) ELSE Typed("BOOL", equal)

\* A binary operator of the operands' values: both are evaluated, and an
\* exception or a number that is not followed passes through.
Binary(op, x, y) ==
  CASE Throws \in {x.value, y.value} -> Failed(Throws)
    [] NotFollowed \in {x.value, y.value} -> Failed(NotFollowed)
    [] op = "EQUAL" -> AsTruth(CompareTyped("equal", x, y))
    [] OTHER -> Connect(op, Operand(op, x), Operand(op, y))

Negated(op, a) ==
  CASE a = Throws -> Failed(Throws)
    [] op = "NOT" -> Typed("BOOL", Truth(a[2] = 0))
    [] op = "POSITIVE" -> Typed("NUMERIC", a)
    [] op = "NEGATIVE" -> Calculated([NumericOf(a[2]) EXCEPT !.m_sign = ~@])

Unary(op, x) ==
  CASE x.value \in {Throws, NotFollowed} -> x
    [] op = "ISNULL" -> Typed("BOOL", Truth(x.value = NoValue))
    [] op = "ISNOTNULL" -> Typed("BOOL", Truth(x.value # NoValue))
    [] OTHER -> Negated(op, Operand(op, x))

\* What a literal is the text of, and the number of digits that may have a point.
LiteralOf(data) == IF Len(data) = 1 /\ IsDigits(data[1]) THEN AnyNumber(2 * Numerals[data[1]]) ELSE <<"words", data>>
NumberOf(data) ==
  CASE Len(data) < 3 -> AnyNumber(2 * Numerals[data[1]])
    [] data[3] = "5" -> AnyNumber(2 * Numerals[data[1]] + 1)
    [] OTHER -> NotFollowed

\* DataField, StaticField, ParamField, ComputedField and getUserParam().
UserParam(user, k) == IF k \in DOMAIN user THEN user[k] ELSE NullVariant

ColumnValue(cur, f) == TablesOf[cur.m_objects[f.source].table][f.column].value

\* ExprEvalVisitor
RECURSIVE Eval(_, _, _)
Eval(cur, user, node) ==
  CASE node.kind = "IdGroup" -> ColumnValue(cur, DataField(cur.m_objects, node.data))
    [] node.kind = "Null" -> NullVariant
    [] node.kind = "Param" -> UserParam(user, ParamNum(cur.m_params, node))
    [] node.kind = "Literal" -> Typed("STRING", TextOfA(LiteralOf(node.data)))
    [] node.kind = "Number" -> Typed("NUMERIC", NumberOf(node.data))
    [] node.kind = "FuncCall" -> Typed("UNKNOWN", Throws)
    [] Len(node.childs) = 1 -> Unary(node.data, Eval(cur, user, node.childs[1]))
    [] OTHER -> Binary(node.data, Eval(cur, user, node.childs[1]), Eval(cur, user, node.childs[2]))

\* Field::getValue()
FieldValue(cur, user, f) ==
  IF f.kind = "DataField" THEN ColumnValue(cur, f) ELSE Eval(cur, user, f.node)

\* matchCondition(): a condition on the current rows.
Truthful(x) == IF x.value \in {Throws, NotFollowed} THEN x.value ELSE GetValue(x.type, x.value, "BOOL")

Matches(cur, user) ==
  IF 3 \notin DOMAIN cur.where THEN Truth(TRUE) ELSE Truthful(Eval(cur, user, cur.where[3]))

-----------------------------------------------------------------------------
(* How a query is written: its tree is like that of the parser, with the   *)
(* parameters numbered.                                                    *)

Lexeme(id, data) == [id |-> id, data |-> data]

Spelling ==
  [NOTEQUAL |-> <<"!", "=">>, CONCAT |-> <<"|", "|">>, LOWEREQUAL |-> <<"<", "=">>, GREATEREQUAL |-> <<">", "=">>,
   EQUAL |-> <<"=">>, LOWER |-> <<"<">>, GREATER |-> <<">">>, PLUS |-> <<"+">>, MINUS |-> <<"-">>, MUL |-> <<"*">>,
   DIV |-> <<"/">>, POSITIVE |-> <<"+">>, NEGATIVE |-> <<"-">>, LP |-> <<"(">>, RP |-> <<")">>, COMMA |-> <<",">>,
   DOT |-> <<".">>, QMARK |-> <<"?">>]

Sign(id) == <<Lexeme(id, IF id \in DOMAIN Spelling THEN Spelling[id] ELSE <<id>>)>>

\* How tight the operators of SQL bind.
Tightness ==
  [XOR |-> 0, OR |-> 1, AND |-> 2, NOT |-> 3, EQUAL |-> 4, NOTEQUAL |-> 4, LOWER |-> 4, GREATER |-> 4,
   LOWEREQUAL |-> 4, GREATEREQUAL |-> 4, ISNULL |-> 4, ISNOTNULL |-> 4, PLUS |-> 5, MINUS |-> 5, CONCAT |-> 5,
   MUL |-> 6, DIV |-> 6, MOD |-> 6, POSITIVE |-> 7, NEGATIVE |-> 7]

TightnessOf(node) == IF node.kind = "Expr" THEN Tightness[node.data] ELSE 8

\* An operand that binds looser stands in parentheses.  There is no agreement
\* about the exclusive or, and in this grammar NOT binds tighter than a
\* comparison: they get more of them.
OperandTightness(op, side) ==
  CASE op = "XOR" -> 4 [] op = "NOT" -> 8 [] Tightness[op] = 4 -> 5 [] Tightness[op] = 7 -> 7
    [] OTHER -> Tightness[op] + side - 1

Separated(lists, id) ==
  Seqs!FlattenSeq([i \in DOMAIN lists |-> (IF i = 1 THEN <<>> ELSE Sign(id)) \o lists[i]])

RECURSIVE Unparse(_)
Unparse(node) ==
  LET childs == [i \in DOMAIN node.childs |-> Unparse(node.childs[i])]
      Arg(i) == IF TightnessOf(node.childs[i]) >= OperandTightness(node.data, i) THEN childs[i]
                ELSE Sign("LP") \o childs[i] \o Sign("RP")
  IN  CASE node.kind = "Select" -> Seqs!FlattenSeq(childs)
        [] node.kind = "AttrList" -> Sign("SELECT") \o Separated(childs, "COMMA")
        [] node.kind = "From" -> Sign("FROM") \o Separated(childs, "COMMA")
        [] node.kind = "Where" -> Sign("WHERE") \o childs[1]
        [] node.kind = "AllAttr" -> Sign("MUL")
        [] node.kind = "Alias" ->
             childs[1] \o (IF node.childs[1].kind = "IdGroup" THEN <<>> ELSE Sign("AS")) \o <<Lexeme("ID", node.data)>>
        [] node.kind = "IdGroup" -> Separated([i \in DOMAIN node.data |-> <<Lexeme("ID", node.data[i])>>], "DOT")
        [] node.kind = "Literal" -> <<Lexeme("LITERAL", node.data)>>
        [] node.kind = "Number" -> <<Lexeme("NUMBER", node.data)>>
        [] node.kind = "Null" -> Sign("NULL")
        [] node.kind = "Param" -> Sign("QMARK")
        [] node.kind = "FuncCall" ->
             <<Lexeme("ID", node.data)>> \o Sign("LP") \o Separated(childs, "COMMA") \o Sign("RP")
        [] node.data = "ISNULL" -> Arg(1) \o Sign("IS") \o Sign("NULL")
        [] node.data = "ISNOTNULL" -> Arg(1) \o Sign("IS") \o Sign("NOT") \o Sign("NULL")
        [] Len(childs) = 1 -> Sign(node.data) \o Arg(1)
        [] OTHER -> Arg(1) \o Sign(node.data) \o Arg(2)

\* Three ways to write lexemes: with blanks; with as little as possible; with line
\* breaks and comments, keywords in small letters and quoted names.
Layouts == {"blank", "tight", "mixed"}

Gaps == <<<<" ", "LF">>, <<"CR", "LF">>, <<"TAB", "/", "*", "a", "*", "/">>, <<" ", "/", "/", "a", "LF">>>>

TextOfQuery(lexemes, layout) ==
  LET Letters(i) == lexemes[i].id \in Keywords \union {"ID", "NUMBER"}
      Gap(i) == CASE i = 1 -> <<>> [] layout = "mixed" -> Gaps[(i % 4) + 1]
                  [] OTHER -> IF layout = "blank" \/ (Letters(i - 1) /\ Letters(i)) THEN <<" ">> ELSE <<>>
      Small(word) == CHOOSE w \in DOMAIN Capitals : Capitals[w] = word
      Spelled(i) ==
        CASE lexemes[i].id = "LITERAL" -> <<"'">> \o lexemes[i].data \o <<"'">>
          [] lexemes[i].id = "ID" /\ layout = "mixed" ->
               IF i % 2 = 0 THEN <<"[">> \o lexemes[i].data \o <<"]">> ELSE <<"\"">> \o lexemes[i].data \o <<"\"">>
          [] lexemes[i].id \in Keywords /\ layout = "mixed" -> <<Small(lexemes[i].id)>>
          [] OTHER -> lexemes[i].data
  IN  Seqs!FlattenSeq([i \in DOMAIN lexemes |-> Gap(i) \o Spelled(i)])

-----------------------------------------------------------------------------
VARIABLES
  query,     \* what the client prepares: a tree or a text
  prepared,  \* what the cursor made of it
  params     \* of the execution

queryVars == <<query, prepared, params>>

Unprepared == [kind |-> "Unprepared"]

QueryInit ==
  /\ query \in Queries
  /\ prepared = Unprepared
  /\ params = <<>>

\* prepare() of a text of the query.
prepareSql(layout) ==
  /\ prepared = Unprepared
  /\ prepared' = PrepareSql(IF query.kind = "Text" THEN query.data ELSE TextOfQuery(Unparse(query), layout))
  /\ UNCHANGED <<query, params>>

\* execute(params); what the client does not set is NULL.
executeWith(user) ==
  /\ prepared.kind = "Prepared" /\ Len(user) <= Len(prepared.m_params)
  /\ params' = user
  /\ UNCHANGED <<query, prepared>>

QueryNext ==
  \/ \E layout \in Layouts : prepareSql(layout)
  \/ \E user \in UserParams : executeWith(user)

-----------------------------------------------------------------------------
(* What a query means, where SQL leaves no doubt                           *)

Unclear == Typed("UNKNOWN", <<"unclear">>)

Arithmetic == ValueTypes \intersect {t \in ValueTypes : IsNumeric(t) /\ t # "BOOL"}

\* Does Decimal calculate it?  Not every difference of numbers of different signs, or
\* with zero.
Exactly(h, result) == result = NumericOf(h)

\* Of numbers, in halves.  A division is left out, which the cursor takes for a
\* product, and the modulus of numbers that are not positive.
MeantOfNumbers(op, a, b) ==
  CASE op = "PLUS" /\ Exactly(a + b, Plus(NumericOf(a), NumericOf(b))) -> Typed("NUMERIC", AnyNumber(a + b))
    [] op = "MINUS" /\ Exactly(a - b, Minus(NumericOf(a), NumericOf(b))) -> Typed("NUMERIC", AnyNumber(a - b))
    [] op = "MUL" /\ (a * b) % 2 = 0 -> Typed("NUMERIC", AnyNumber((a * b) \div 2))
    [] op = "MOD" /\ a > 0 /\ b > 0 -> Typed("NUMERIC", AnyNumber(a % b))
    [] op = "EQUAL" -> Typed("BOOL", Truth(a = b)) [] op = "NOTEQUAL" -> Typed("BOOL", Truth(a # b))
    [] op = "LOWER" -> Typed("BOOL", Truth(a < b)) [] op = "GREATER" -> Typed("BOOL", Truth(a > b))
    [] op = "LOWEREQUAL" -> Typed("BOOL", Truth(a <= b)) [] op = "GREATEREQUAL" -> Typed("BOOL", Truth(a >= b))
    [] OTHER -> Unclear

\* A NULL is a truth that is not known.
TruthsOf(x) == IF x.value = NoValue THEN BOOLEAN ELSE {x.value[2] # 0}

MeantOfTruths(op, xs, ys) ==
  LET all == {CASE op = "AND" -> a /\ b [] op = "OR" -> a \/ b [] op = "XOR" -> a # b : a \in xs, b \in ys}
  IN  IF Cardinality(all) = 1 THEN Typed("BOOL", Truth(TRUE \in all)) ELSE NullVariant

\* The pairs of types that are compared as a type that lacks values of the first
\* one: a fraction is compared as an int.
ComparedAsLess(t, u) == <<t, u>> \in Miscompared \/ (t \in {"FLOAT", "DOUBLE"} /\ u \in Types)

MeantBinary(op, x, y) ==
  CASE Unclear \in {x, y} \/ (op = "EQUAL" /\ ComparedAsLess(x.type, y.type)) -> Unclear
    [] op \in LogicOps /\ {x.type, y.type} \subseteq {"BOOL", NullVariant.type} -> MeantOfTruths(op, TruthsOf(x), TruthsOf(y))
    [] NoValue \in {x.value, y.value} -> NullVariant
    [] {x.type, y.type} = {"STRING"} /\ op = "CONCAT" -> Typed("STRING", TextOfA(Joined(x.value[2], y.value[2])))
    [] x.type = y.type /\ op = "EQUAL" -> Typed("BOOL", Truth(x.value = y.value))
    [] {x.type, y.type} \subseteq Arithmetic -> MeantOfNumbers(op, x.value[2], y.value[2])
    [] OTHER -> Unclear

MeantUnary(op, x) ==
  CASE x = Unclear -> x
    [] op = "ISNULL" -> Typed("BOOL", Truth(x.value = NoValue))
    [] op = "ISNOTNULL" -> Typed("BOOL", Truth(x.value # NoValue))
    [] x.value = NoValue -> x
    [] op = "NOT" /\ x.type = "BOOL" -> Typed("BOOL", Truth(x.value[2] = 0))
    [] op = "POSITIVE" /\ x.type \in Arithmetic -> Typed("NUMERIC", x.value)
    [] op = "NEGATIVE" /\ x.type \in Arithmetic /\ x.value[2] # 0 -> Typed("NUMERIC", AnyNumber(-x.value[2]))
    [] OTHER -> Unclear

\* The columns of the sources in order: the name of the source, that of the
\* column and the value.
ColumnsFrom(from) ==
  Seqs!FlattenSeq([i \in DOMAIN from |->
    LET names == IF from[i].kind = "Alias" THEN from[i].childs[1].data ELSE from[i].data
        table == TablesOf[names[Len(names)]]
    IN  [c \in DOMAIN table |->
           [source |-> IF from[i].kind = "Alias" THEN from[i].data ELSE names[Len(names)],
            name |-> table[c].name, value |-> table[c].value]]])

RECURSIVE Meaning(_, _, _)
Meaning(columns, user, node) ==
  LET Arg(i) == Meaning(columns, user, node.childs[i])
      names  == node.data
  IN  CASE node.kind = "IdGroup" ->
             (CHOOSE v \in {columns[c] : c \in DOMAIN columns} :
                v.name = names[Len(names)] /\ (Len(names) = 2 => v.source = names[1])).value
        [] node.kind = "Null" -> NullVariant
        [] node.kind = "Param" -> UserParam(user, node.data[1])
        [] node.kind = "Literal" -> Typed("STRING", TextOfA(LiteralOf(node.data)))
        [] node.kind = "Number" ->
             IF NumberOf(node.data) = NotFollowed THEN Unclear ELSE Typed("NUMERIC", NumberOf(node.data))
        [] node.kind = "FuncCall" -> Unclear
        [] Len(node.childs) = 1 -> MeantUnary(node.data, Arg(1))
        [] OTHER -> MeantBinary(node.data, Arg(1), Arg(2))

Kinds == {"IdGroup", "Null", "Param", "Literal", "Number", "FuncCall", "Expr"}

\* A value that is clear all the way: no NULL, no number that is not positive, none
\* of the 64 bits that do not convert to TNumeric, no two types that are compared.
Sure(columns, user, node) ==
  LET nodes == NodesOf(node, Kinds)
      all   == {nodes[i] : i \in DOMAIN nodes}
      meant[n \in all] == Meaning(columns, user, n)
  IN  \A n \in all :
        /\ meant[n] # Unclear /\ meant[n].value # NoValue /\ meant[n].type \notin {"BIGINT", "UBIGINT"}
        /\ meant[n].type \in Arithmetic => meant[n].value[2] > 0
        /\ n.kind = "Expr" /\ n.data = "EQUAL" =>
             /\ meant[n.childs[1]].type = meant[n.childs[2]].type
             /\ meant[n.childs[1]].type \in Types \union {"NUMERIC", "STRING", "DATE"}

\* What the cursor has for an expression, and what is meant.
AsMeant(result, types, columns, user, node) ==
  LET m == Meaning(columns, user, node)
  IN  m # Unclear /\ m.type \in types =>
        /\ result \in {Throws, m.value}
        /\ Sure(columns, user, node) => result = m.value

\* How many fields the first items of the list have.
FieldsUpTo(items, columns) ==
  LET upTo[k \in 0 .. Len(items)] ==
        IF k = 0 THEN 0 ELSE upTo[k - 1] + (IF items[k].kind = "AllAttr" THEN Len(columns) ELSE 1)
  IN  upTo

\* The columns that a star stands for are in their places.
ColumnsInPlace(items, columns, got, upTo) ==
  \A k \in DOMAIN items :
    items[k].kind = "AllAttr" => \A c \in DOMAIN columns : got[upTo[k - 1] + c] = columns[c].value.value

Unnamed(item) == IF item.kind = "Alias" THEN item.childs[1] ELSE item

\* The expressions of the list and the condition, each with what the cursor has
\* for it and the types whose values it keeps.
Evaluated(items, got, upTo, matched) ==
  {<<got[upTo[k]], Unnamed(items[k]), ValueTypes \union {NullVariant.type}>> : k \in {i \in DOMAIN items : items[i].kind # "AllAttr"}}
  \union (IF Len(query.childs) = 2 THEN {} ELSE {<<matched, query.childs[3].childs[1], {"BOOL"}>>})

\* With the values of all fields and of the condition.
ValuesMeant(items, columns, got, upTo, matched) ==
  /\ Len(got) = upTo[Len(items)] /\ ColumnsInPlace(items, columns, got, upTo)
  /\ \A e \in Evaluated(items, got, upTo, matched) : AsMeant(e[1], e[3], columns, params, e[2])
  /\ Len(query.childs) = 2 => matched = Truth(TRUE)

\* However a query is written, with no more parentheses than SQL asks for, with
\* comments, quotes and line breaks: the cursor has the fields of its list in their
\* order, and its condition and its expressions have the values that are meant, each
\* question mark being the parameter of its number, or their evaluation throws;
\* where all is clear it does not.  Variants of any two types are equal if their
\* values are, or cannot be compared.  A text that is no query is refused.
QueryMeant ==
  prepared # Unprepared =>
    IF query.kind = "Text" THEN prepared = Refused
    ELSE /\ prepared.kind = "Prepared"
         /\ LET items   == query.childs[1].childs
                columns == ColumnsFrom(query.childs[2].childs)
            IN  ValuesMeant(items, columns,
                            [i \in DOMAIN prepared.m_fields |-> FieldValue(prepared, params, prepared.m_fields[i]).value],
                            FieldsUpTo(items, columns), Matches(prepared, params))
=============================================================================
