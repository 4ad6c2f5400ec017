----------------------------- MODULE SqlCursor -----------------------------
(***************************************************************************)
(* SqlCursor (sqlcursor.cc), the resultset of SELECT ... FROM t1, ..., tn  *)
(* WHERE ... over data providers.  It walks through the product of its     *)
(* sources as nested loops do, the last source innermost.                  *)
(*                                                                         *)
(* The parsed text is known by its sources, tables, and by its condition,  *)
(* where: the combinations of rows it holds for, and whether it also asks  *)
(* for a parameter.  Column i of the result is the column of source i.     *)
(*                                                                         *)
(* The sources are tables of a plug-in: SDIDataProvider_libsdi             *)
(* (sdi_libsdi.cc) over the functions of an SDI driver (sdi.h).  A table   *)
(* has a number of rows, and the value of a column is the number of its    *)
(* row.  The driver of a faulty table may refuse to open it and may fail   *)
(* to fetch a row; failed remembers that it did.                           *)
(*                                                                         *)
(* The methods are sets of outcomes.  They are called by the client of an  *)
(* SDI statement (SDIStmt_libsdi), who prepares a query, executes it, runs *)
(*   for(rs.first(); !rs.eof(); rs.next()) body                            *)
(* and closes the statement.  The body reads every column.  next() is a    *)
(* loop of its own, do internalNext() while the condition does not hold,   *)
(* and each turn of it is a step here.                                     *)
(***************************************************************************)
EXTENDS Naturals, FiniteSets, Returns, CursorState, SequencesExt

CONSTANTS
  Null,        \* the value of a parameter that was not bound
  Queries,     \* records of the tables, the condition and the parameter bound
  MaxVisited   \* the visits that are told apart

Rows(table) == 1 .. table.rows

\* The combinations of rows of the tables.
Combinations(tables) ==
  {row \in [DOMAIN tables -> UNION {Rows(tables[i]) : i \in DOMAIN tables}] :
     \A i \in DOMAIN tables : row[i] \in Rows(tables[i])}

\* A query has a source, and no more combinations than are told apart.
ASSUME QueriesAssumption ==
  /\ MaxVisited \in Nat
  /\ \A q \in Queries :
       /\ q.tables \in Seq([rows : Nat, faulty : BOOLEAN]) /\ q.tables # <<>>
       /\ IsFiniteSet(Combinations(q.tables)) /\ Cardinality(Combinations(q.tables)) <= MaxVisited

-----------------------------------------------------------------------------
(* The rows of one table                                                   *)

NPOS  == 0   \* DAL_TYPE_ROWID_NPOS
NoRow == 0   \* the column was asked for where the driver is on no row

ProvOutcome(p, r) == [prov |-> p, ret |-> r]

ProviderInit(table) ==
  [table |-> table, m_handle |-> FALSE, at |-> 0, failed |-> FALSE,
   m_current_tuple |-> NPOS, m_last_row_status |-> "SUCCESS", m_isopen |-> FALSE]

\* SDIFetch with an open handle: the next row, none left, or an error.
Fetched(p) ==
  {IF p.at < p.table.rows
     THEN [p EXCEPT !.at = @ + 1, !.m_last_row_status = "SUCCESS"]
     ELSE [p EXCEPT !.m_last_row_status = "DONE"]}
  \union {[q EXCEPT !.m_last_row_status = "ERROR", !.failed = TRUE] :
            q \in IF p.table.faulty THEN {p} ELSE {}}

\* The row SDIGetData reads from.
RowOf(p) ==
  IF p.m_handle /\ p.m_last_row_status = "SUCCESS" THEN p.at ELSE NoRow

\* close(): the provider stays open in its own eyes.
ProvClose(p) == [p EXCEPT !.m_handle = FALSE]

\* open(): runs up to the first row; a refused table leaves no handle.
ProvOpen(p) ==
  LET closed == IF p.m_isopen THEN ProvClose(p) ELSE p
      opened == [closed EXCEPT !.m_handle = TRUE, !.at = 0, !.m_isopen = TRUE]
  IN  {ProvOutcome([f EXCEPT !.m_current_tuple = 1], Ok) : f \in Fetched(opened)}
      \union {ProvOutcome(q, Throw) :
                q \in IF p.table.faulty THEN {[closed EXCEPT !.failed = TRUE]} ELSE {}}

\* first(): there is no way back to the first row.
ProvFirst(p) == IF p.m_isopen /\ p.m_current_tuple = 1 THEN Ok ELSE Throw

ProvEof(p) == p.m_last_row_status # "SUCCESS"

\* next(): an error is the end of the rows, and nobody is told of it.
ProvNext(p) ==
  IF ~p.m_isopen THEN {ProvOutcome(p, Throw)}
  ELSE IF ~p.m_handle THEN {ProvOutcome(p, Undefined)}
  ELSE {IF ProvEof(f) THEN ProvOutcome(f, No)
        ELSE ProvOutcome([f EXCEPT !.m_current_tuple = @ + 1], Yes) : f \in Fetched(p)}

\* column(num) of a provider with one column, and the value read from it.
ProvColumn(p, num) ==
  IF ~p.m_isopen \/ num > 1 THEN Throw ELSE Value(RowOf(p))

-----------------------------------------------------------------------------
(* The resultset                                                           *)

NoCondition == [none |-> TRUE]

CurOutcome(cur, r) == [cur |-> cur, ret |-> r]
Just(cur, r)       == {CurOutcome(cur, r)}

IsOpen(cur) == "OPEN" \in cur.m_cursorstate

SetState(cur, s) == [cur EXCEPT !.m_cursorstate = SetCursorState(@, s)]

\* provs has the providers of m_objects_vector, as far as they were created.
CursorInit ==
  [m_cursorstate |-> CLOSED, m_objects_vector |-> <<>>, provs |-> <<>>,
   m_where_node |-> NoCondition, m_user_params |-> FALSE]

\* The combination of rows the sources are on.
Combination(cur) == [i \in DOMAIN cur.provs |-> RowOf(cur.provs[i])]

-----------------------------------------------------------------------------
(* prepare() and execute()                                                 *)

\* ParserAdaptor::createProviders: a provider for each source, in their
\* order, up to one that cannot be opened.
WithProvider(cur, table) ==
  {CurOutcome([cur EXCEPT !.provs = Append(@, q.prov)], q.ret) : q \in ProvOpen(ProviderInit(table))}

CreateProviders(cur) ==
  LET n == Len(cur.m_objects_vector)
      created[k \in 0 .. n] ==
        IF k = 0 THEN Just(cur, Ok)
        ELSE UNION {IF o.ret = Ok THEN WithProvider(o.cur, cur.m_objects_vector[k]) ELSE {o} :
                      o \in created[k - 1]}
  IN  created[n]

CurPrepare(cur, tables, where) ==
  {IF o.ret # Ok THEN o
   ELSE CurOutcome(SetState([o.cur EXCEPT !.m_where_node = where], "PREPARED"), Ok) :
     o \in CreateProviders([cur EXCEPT !.m_objects_vector = tables])}

\* execute() rewinds no source.
CurExecute(cur) == Just(SetState([cur EXCEPT !.m_user_params = TRUE], "OPEN"), Ok)

-----------------------------------------------------------------------------
(* The condition                                                           *)

GetUserParam(cur, params) == IF cur.m_user_params THEN params ELSE Null

\* matchCondition(): Yes, No, or an exception: there is no arithmetic on null.
\* What the condition is where a source has no row is the driver's choice.
MatchCondition(cur, params) ==
  LET where == cur.m_where_node
      rows  == Combination(cur)
  IN  IF where = NoCondition THEN {Yes}
      ELSE IF where.param /\ GetUserParam(cur, params) = Null THEN {Throw}
      ELSE IF \E i \in DOMAIN rows : rows[i] = NoRow THEN {Yes, No, Throw}
      ELSE {Bool(rows \in where.holds)}

-----------------------------------------------------------------------------
(* first(), next() and eof()                                               *)

\* Every source goes to its first row; the end is set where all have none.
CurFirst(cur) ==
  IF ~IsOpen(cur) \/ \E i \in DOMAIN cur.provs : ProvFirst(cur.provs[i]) = Throw
    THEN Just(cur, Throw)
  ELSE IF \A i \in DOMAIN cur.provs : ProvEof(cur.provs[i])
    THEN Just(SetState(cur, "EOF"), Ok)
  ELSE Just(SetState(cur, "POSITIONED"), Ok)

\* close(), open() and first() of the source p that came to its end.
Reopened(cur, p) ==
  {CurOutcome([cur EXCEPT !.provs[p] = q.prov],
              IF q.ret = Ok THEN ProvFirst(q.prov) ELSE q.ret) :
     q \in ProvOpen(ProvClose(cur.provs[p]))}

\* Bugs: the source is left at its end; it is taken for the found record.
Restart_Not(cur, p)   == Just(cur, Ok)
Restart_Found(cur, p) == {[o EXCEPT !.ret = Yes] : o \in Reopened(cur, p)}

Restart(cur, p) == Reopened(cur, p)

\* next() of source p: Yes is a next row and ends the search, a source at its
\* end starts over (Ok), and the end of the first source is the end of all.
Turn(cur, p) ==
  UNION {LET moved == [cur EXCEPT !.provs[p] = q.prov]
         IN  IF q.ret = No /\ p > 1 THEN Restart(moved, p) ELSE Just(moved, q.ret) :
           q \in ProvNext(cur.provs[p])}

\* internalNext(): the last source moves first, the one before it when it
\* started over.
InternalNext(cur) ==
  LET n == Len(cur.provs)
      turned[k \in 0 .. n] ==
        IF k = 0 THEN Just(cur, Ok)
        ELSE UNION {IF o.ret = Ok THEN Turn(o.cur, n + 1 - k) ELSE {o} : o \in turned[k - 1]}
  IN  IF ~IsOpen(cur) THEN Just(cur, Throw)
      ELSE {IF o.ret \in {Ok, No} THEN CurOutcome(SetState(o.cur, "EOF"), No) ELSE o : o \in turned[n]}

CurEof(cur) ==
  IF ~IsOpen(cur) THEN Throw ELSE Bool("EOF" \in cur.m_cursorstate)

\* column(num)
CurColumn(cur, num) ==
  IF num \notin DOMAIN cur.provs THEN Throw ELSE ProvColumn(cur.provs[num], 1)

-----------------------------------------------------------------------------
(* The statement and its client                                            *)

VARIABLES
  query,      \* what the client asks
  rs,         \* the resultset of the statement, or NoResult
  pc,         \* the call the client makes next
  visited,    \* the combinations of rows the body has read
  tableFailed \* the driver refused a table or could not fetch one of its rows

vars == <<query, rs, pc, visited, tableFailed>>

NoResult == [none |-> TRUE]

Init ==
  /\ query \in Queries
  /\ rs = NoResult /\ pc = "prepare" /\ visited = <<>> /\ tableFailed = FALSE

\* The call comes to o: the client goes on at to, unless there was an exception.
Goto(o, to) ==
  /\ rs' = o.cur
  /\ pc' = IF GoesOn(o.ret) /\ o.ret # Throw THEN to ELSE "failed"
  /\ tableFailed' = (tableFailed \/ \E i \in DOMAIN o.cur.provs : o.cur.provs[i].failed)
  /\ UNCHANGED query

\* SDIStmt_libsdi::prepare: a resultset of its own for the query.
prepare ==
  /\ pc = "prepare"
  /\ \E o \in CurPrepare(CursorInit, query.tables, query.where) : Goto(o, "execute")
  /\ UNCHANGED visited

\* SDIStmt_libsdi::execute
execute ==
  /\ pc = "execute"
  /\ \E o \in CurExecute(rs) : Goto(o, "first")
  /\ UNCHANGED visited

\* first() up to the condition, which decides if it goes on as next().
first ==
  /\ pc = "first"
  /\ \E o \in CurFirst(rs) : Goto(o, "match")
  /\ UNCHANGED visited

match ==
  /\ pc = "match"
  /\ \E holds \in MatchCondition(rs, query.params) :
       Goto(CurOutcome(rs, holds), IF holds = Yes THEN "eof" ELSE "next")
  /\ UNCHANGED visited

\* A turn of the loop in next().
next ==
  /\ pc = "next"
  /\ \E o \in InternalNext(rs) : Goto(o, IF o.ret = Yes THEN "match" ELSE "eof")
  /\ UNCHANGED visited

eof ==
  /\ pc = "eof"
  /\ Goto(CurOutcome(rs, CurEof(rs)), IF CurEof(rs) = Yes THEN "close" ELSE "body")
  /\ UNCHANGED visited

\* A combination of rows: what column(1), column(2), ... give.
body ==
  LET row == [i \in DOMAIN rs.provs |-> CurColumn(rs, i)[2]]
  IN  /\ pc = "body"
      /\ Goto(CurOutcome(rs, Ok), "next")
      /\ visited' = IF Len(visited) < MaxVisited THEN Append(visited, row) ELSE visited

\* SDIStmt_libsdi::close: the resultset and its providers are gone.
close ==
  /\ pc \in {"close", "failed"}
  /\ rs' = NoResult /\ pc' = "prepare" /\ visited' = <<>> /\ tableFailed' = FALSE
  /\ UNCHANGED query

Next == prepare \/ execute \/ first \/ match \/ next \/ eof \/ body \/ close

\* The client runs its loop to the end: it does not stop half way.
Spec == Init /\ [][Next]_vars /\ WF_vars(Next)

-----------------------------------------------------------------------------
\* Does a come before b, where the last source is the innermost loop?
Before(a, b) ==
  \E i \in DOMAIN a : a[i] < b[i] /\ \A j \in 1 .. i - 1 : a[j] = b[j]

\* No source of the combination is without a row.
Whole(row) == \A i \in DOMAIN row : row[i] # NoRow

Holds(row) ==
  query.where = NoCondition \/ (row \in query.where.holds /\ (query.where.param => query.params # Null))

\* The combinations of rows of the sources that the condition holds for.
Matching == {row \in Combinations(query.tables) : Holds(row)}

EmptySource == \E i \in DOMAIN query.tables : query.tables[i].rows = 0

\* No combination of rows is seen twice and they come in the order of nested
\* loops, whatever source is empty and whatever fetch fails.  The body sees the
\* matching rows of the product, none is left out on the way and all are seen
\* when the loop is done, unless a source has no rows or the driver failed: a
\* fetch that fails looks like the end of its source.
VisitsEachMatch ==
  /\ \A i, j \in DOMAIN visited :
       i < j /\ Whole(visited[i]) /\ Whole(visited[j]) => Before(visited[i], visited[j])
  /\ ~EmptySource /\ ~tableFailed =>
       /\ Range(visited) \subseteq Matching
       /\ \A row \in Matching \ Range(visited) :
            pc # "close" /\ \A i \in DOMAIN visited : Before(visited[i], row)
       /\ pc = "failed" => query.where # NoCondition /\ query.where.param /\ query.params = Null

\* A query always comes to an end: its loop is done or a call failed.
Terminates == (pc = "execute") ~> (pc \in {"close", "failed"})
=============================================================================
