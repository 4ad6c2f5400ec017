------------------------- MODULE ScrollableDataset -------------------------
(***************************************************************************)
(* What the interface ScrollableDataset (db_objects.hh) promises, free of  *)
(* iterators, flags and memory: rows in an order and one position among    *)
(* them.  Position 0 is "not positioned", 1 .. Len(rows) is a row and      *)
(* Len(rows) + 1 is the end.                                               *)
(***************************************************************************)
EXTENDS Integers, Sequences, Returns

CONSTANTS
  Rows,            \* the rows a client may add
  RowNumbers,      \* the row numbers it may ask for
  ColumnNumbers,   \* the column numbers it may ask for
  Contents,        \* the rows it may be opened with, when it loads them itself
  Questions,       \* the calls that are not about rows
  Ends             \* does next() from the last row move to the end?

VARIABLES
  rows,   \* the rows of the dataset
  pos,    \* the current position
  op,     \* the last call: its name and its argument
  ret     \* what it gave to the caller

vars == <<rows, pos, op, ret>>

OnRow == pos \in 1 .. Len(rows)
End   == Len(rows) + 1

Init == rows = <<>> /\ pos = 0 /\ op = <<"none">> /\ ret = None

\* The call o moves to position p and returns r.
MoveTo(o, p, r) == op' = o /\ pos' = p /\ ret' = r /\ UNCHANGED rows

\* The call o leaves the position alone.
Answer(o, r) == MoveTo(o, pos, r)

\* open() loses the position, and may load the rows.
Open ==
  /\ op' = <<"open">> /\ pos' = 0 /\ ret' = Ok
  /\ rows' = rows \/ (rows = <<>> /\ rows' \in Contents)

First ==
  \/ (Ends \/ rows # <<>>) /\ MoveTo(<<"first">>, 1, Ok)
  \/ ~Ends /\ rows = <<>> /\ Answer(<<"first">>, Ok)

Next ==
  \/ pos < Len(rows) /\ MoveTo(<<"next">>, pos + 1, Yes)
  \/ pos = Len(rows) /\ MoveTo(<<"next">>, IF Ends THEN End ELSE pos, No)
  \/ pos = End /\ Answer(<<"next">>, No)

Prev ==
  \/ OnRow /\ pos > 1 /\ MoveTo(<<"prev">>, pos - 1, Yes)
  \/ OnRow /\ pos = 1 /\ Answer(<<"prev">>, No)

Last ==
  \/ rows # <<>> /\ MoveTo(<<"last">>, Len(rows), Yes)
  \/ rows = <<>> /\ Answer(<<"last">>, No)

Setpos(r) ==
  \/ r \in 1 .. Len(rows) /\ MoveTo(<<"setpos", r>>, r, Yes)
  \/ r \notin 1 .. Len(rows) /\ Answer(<<"setpos", r>>, No)

Eof == pos # 0 /\ Answer(<<"eof">>, Bool(pos = End))

\* A value is read from the current row and from no other.
Column(num) ==
  LET there == OnRow /\ num \in DOMAIN rows[pos]
  IN  \/ there /\ Answer(<<"column", num>>, Value(rows[pos][num]))
      \/ ~there /\ Answer(<<"column", num>>, Throw)

\* A row is added at the end while no row is the current one, or refused.
Insert(row) ==
  \/ /\ ~OnRow
     /\ op' = <<"insert", row>>
     /\ rows' = Append(rows, row)
     /\ pos' = IF pos = 0 THEN 0 ELSE Len(rows) + 2
     /\ ret' = Ok
  \/ Answer(<<"insert", row>>, Throw)

Clear ==
  /\ op' \in {<<"clear">>, <<"reset">>, <<"close">>}
  /\ rows' = <<>> /\ pos' = 0 /\ ret' = Ok

\* Rows behind the current one are lost, with an exception or because the
\* client let go of where they come from.
Truncate ==
  /\ \E k \in pos .. Len(rows) : rows' = SubSeq(rows, 1, k)
  /\ pos' = pos
  /\ ret' = Throw \/ (op' = <<"detach">> /\ ret' = Ok)

\* A question about the columns, or a change of their description.
Ask == op' \in Questions /\ UNCHANGED <<rows, pos>>

Step ==
  \/ Open \/ First \/ Next \/ Prev \/ Last \/ Eof \/ Clear \/ Truncate \/ Ask
  \/ \E r \in RowNumbers : Setpos(r)
  \/ \E num \in ColumnNumbers : Column(num)
  \/ \E row \in Rows : Insert(row)

Spec == Init /\ [][Step]_vars
=============================================================================
