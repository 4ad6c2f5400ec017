----------------------------- MODULE RecordSet -----------------------------
(***************************************************************************)
(* A RecordSet and a client that calls its methods in any order.           *)
(* RecordSetOps says what each method does; here are the calls, what the   *)
(* class keeps true whatever the client does, and what it promises to a    *)
(* client that follows the protocol the tests follow.                      *)
(***************************************************************************)
EXTENDS RecordSetOps

CONSTANTS
  Values,    \* field values
  Rows,      \* the rows the client inserts
  Names,     \* column names the client sets
  MaxRows,   \* bound of the model: rows in the set
  MaxCols    \* bound of the model: columns, and column numbers asked for

ASSUME RowsAssumption   == Rows \subseteq Seq(Values)
ASSUME NamesAssumption  == Names \cap Int = {}
ASSUME BoundsAssumption == MaxRows \in Nat /\ MaxCols \in Nat

VARIABLES
  rs,         \* the object
  op,         \* the last call: its name and its argument
  ret,        \* what it gave to the client
  disturbed   \* history: were rows inserted under a positioned cursor?

vars == <<rs, op, ret, disturbed>>

RowNumbers    == -1 .. MaxRows + 1
ColumnNumbers == 0 .. MaxCols + 1
ColumnNames   == Names \union (1 .. MaxCols)

Init ==
  /\ rs = RecordSetInit
  /\ op = <<"none">>
  /\ ret = None
  /\ disturbed = FALSE

\* Nothing follows a failed assert or the use of dead memory.
Running == GoesOn(ret)

\* The client makes the call o, which has these outcomes.
Call(o, outcomes) ==
  /\ Running
  /\ op' = o
  /\ \E out \in outcomes : rs' = out.rs /\ ret' = out.ret

Quietly(o, outcomes) == Call(o, outcomes) /\ UNCHANGED disturbed

\* A call after which m_cursor no longer depends on its earlier value.
Afresh(o, outcomes) == Call(o, outcomes) /\ disturbed' = FALSE

OnRow == IsPositioned(rs) /\ ~IsEof(rs)

open  == Afresh(<<"open">>, RsOpen(rs))
first == Afresh(<<"first">>, RsFirst(rs))
next  == Quietly(<<"next">>, RsNext(rs))
prev  == Quietly(<<"prev">>, RsPrev(rs))
last  == Quietly(<<"last">>, RsLast(rs))
eof   == Quietly(<<"eof">>, RsEof(rs))
close == Quietly(<<"close">>, RsClose(rs))
clear == Afresh(<<"clear">>, RsClear(rs))
reset == Afresh(<<"reset">>, RsReset(rs))

setpos(row) ==
  /\ Call(<<"setpos", row>>, RsSetpos(rs, row))
  /\ disturbed' = (disturbed /\ ret' = No)

insert(row) ==
  /\ RowCount(rs) < MaxRows
  /\ Call(<<"insert", row>>, RsInsert(rs, row))
  /\ disturbed' = (disturbed \/ (OnRow /\ ret' = Ok))

column(num)         == Quietly(<<"column", num>>, RsColumn(rs, num))
columnID(name)      == Quietly(<<"columnID">>, RsColumnID(rs, name))
describeColumn(num) == Quietly(<<"describeColumn">>, RsDescribeColumn(rs, num))
setColumnCount(num) == Quietly(<<"setColumnCount">>, RsSetColumnCount(rs, num))
modifyColumnDesc(num, name) ==
  Quietly(<<"modifyColumnDesc">>, RsModifyColumnDesc(rs, num, name))

Next ==
  \/ open \/ first \/ next \/ prev \/ last \/ eof \/ close \/ clear \/ reset
  \/ \E row \in RowNumbers : setpos(row)
  \/ \E row \in Rows : insert(row)
  \/ \E num \in ColumnNumbers : column(num)
  \/ \E num \in ColumnNumbers : describeColumn(num)
  \/ \E name \in ColumnNames : columnID(name)
  \/ \E num \in 0 .. MaxCols : setColumnCount(num)
  \/ \E num \in ColumnNumbers, name \in Names : modifyColumnDesc(num, name)

Spec == Init /\ [][Next]_vars

\* The protocol: rows are inserted while no row is the current one ("insert()
\* may work if not positioned", tests/common/common-recordset.cc), columns are
\* declared before rows exist and described once they are declared, and next(),
\* eof(), prev() and last() start from a position.
Protocol ==
  \/ open \/ first \/ close \/ clear \/ reset
  \/ IsPositioned(rs) /\ next
  \/ IsPositioned(rs) /\ eof
  \/ OnRow /\ prev
  \/ OnRow /\ last
  \/ \E row \in RowNumbers : setpos(row)
  \/ ~OnRow /\ \E row \in Rows : insert(row)
  \/ \E num \in ColumnNumbers : column(num)
  \/ \E num \in ColumnNumbers : describeColumn(num)
  \/ \E name \in ColumnNames : columnID(name)
  \/ RowCount(rs) = 0 /\ \E num \in 0 .. MaxCols : setColumnCount(num)
  \/ \E num \in DOMAIN rs.m_column_descriptors, name \in Names :
       modifyColumnDesc(num, name)

ProtocolSpec == Init /\ [][Protocol]_vars

-----------------------------------------------------------------------------
\* The members hold what the class can hold.
TypeOK ==
  /\ rs.m_records \in Seq(Rows) /\ RowCount(rs) <= MaxRows
  /\ rs.m_count \in Nat
  /\ rs.m_column_descriptors \in Seq(Names \union Nat)
  /\ rs.m_cursorstate \in CursorStates /\ "BAD" \notin rs.m_cursorstate
  /\ rs.m_cursor \in 0 .. RowCount(rs) \union {Dangling}
  /\ disturbed \in BOOLEAN

\* There is one descriptor per column whatever grew, shrank or forgot the
\* columns, so describeColumn() never indexes past the descriptors: setColumnCount(),
\* insert() and reset() each keep m_count and the vector in step.
DescriptorsMatch == Len(rs.m_column_descriptors) = rs.m_count

\* A positioned set that is not at its end has its iterator on a row, unless
\* rows were inserted under the cursor: column() then reads a live row.
CursorOnRow ==
  OnRow /\ ~disturbed => rs.m_cursor \in 0 .. RowCount(rs) - 1

\* For a client that keeps the protocol no call ends in a failed assert or
\* reads through an invalid iterator.
Defined == Running

\* Every row has as many fields as the set has columns.
RowsUniform == \A i \in 1 .. RowCount(rs) : Len(rs.m_records[i]) = rs.m_count

\* To a client that keeps the protocol the iterator and the flags are a
\* position in a ScrollableDataset: RecordSet implements its interface.
position ==
  IF ~IsPositioned(rs) THEN 0
  ELSE IF IsEof(rs) THEN RowCount(rs) + 1 ELSE rs.m_cursor + 1

Dataset ==
  INSTANCE ScrollableDataset WITH
    rows <- rs.m_records, pos <- position, Contents <- {}, Ends <- TRUE,
    Questions <- {<<"close">>, <<"columnID">>, <<"describeColumn">>,
                  <<"setColumnCount">>, <<"modifyColumnDesc">>}

ImplementsDataset == Dataset!Spec
=============================================================================
