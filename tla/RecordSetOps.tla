---------------------------- MODULE RecordSetOps ----------------------------
(***************************************************************************)
(* The operations of class RecordSet (recordset.cc) as functions of the    *)
(* object's state.  An operation yields the set of its outcomes: the       *)
(* object afterwards and what the caller gets.  There is more than one     *)
(* outcome where the C++ program depends on the allocator (does push_back  *)
(* move the rows?) or uses an iterator that is no longer valid.            *)
(*                                                                         *)
(* A row is a sequence of field values.  m_cursor is a vector iterator: an *)
(* index from begin(), or Dangling once the vector operations invalidate   *)
(* it.  No operation of a RecordSet makes it BAD, so the BAD tests of the  *)
(* code are left out.                                                      *)
(***************************************************************************)
EXTENDS Integers, Sequences, CursorState, Returns

CONSTANTS
  Dangling,   \* an iterator that designates no row of the vector, nor end()
  NDEBUG      \* are the asserts compiled out, as in the Release build?

ASSUME DanglingAssumption == Dangling \notin Int
ASSUME NDEBUGAssumption   == NDEBUG \in BOOLEAN

Outcome(rs, r) == [rs |-> rs, ret |-> r]
Only(rs, r)    == {Outcome(rs, r)}

\* assert(!"...") on object rs: what the call returns where it is compiled out.
Asserting(rs, released) == Only(rs, IF NDEBUG THEN released ELSE Abort)

IsOpen(rs)       == "OPEN" \in rs.m_cursorstate
IsPositioned(rs) == "POSITIONED" \in rs.m_cursorstate
IsEof(rs)        == "EOF" \in rs.m_cursorstate
RowCount(rs)     == Len(rs.m_records)

RecordSetInit ==
  [m_records |-> <<>>, m_count |-> 0, m_column_descriptors |-> <<>>,
   m_cursorstate |-> CLOSED, m_cursor |-> Dangling]

SetState(rs, s) ==
  [rs EXCEPT !.m_cursorstate = SetCursorState(rs.m_cursorstate, s)]

-----------------------------------------------------------------------------
(* Bugs the properties have to tell from the code, each named for what it  *)
(* forgets.                                                                *)

RsSetpos_UpperBound(rs, row) ==
  IF row < 1 THEN Only(rs, No)
  ELSE Only(SetState([rs EXCEPT !.m_cursor = row - 1], "POSITIONED"), Yes)

RsSetpos_State(rs, row) ==
  IF row > RowCount(rs) \/ row < 1 THEN Only(rs, No)
  ELSE Only([rs EXCEPT !.m_cursor = row - 1], Yes)

RsFirst_EmptySet(rs) == Only(SetState([rs EXCEPT !.m_cursor = 0], "POSITIONED"), Ok)

RsClear_State(rs) ==
  Only([rs EXCEPT !.m_records = <<>>, !.m_cursor = Dangling], Ok)

RsSetColumnCount_Descriptors(rs, n) == Only([rs EXCEPT !.m_count = n], Ok)

\* insert() takes rows of any width.
Accepts_AnyWidth(rs, width) == IsOpen(rs)

-----------------------------------------------------------------------------
(* The methods                                                             *)

RsOpen(rs) == Only(SetState(rs, "OPEN"), Ok)

RsFirst(rs) ==
  LET at == [rs EXCEPT !.m_cursor = 0]
  IN  Only(SetState(at, IF RowCount(rs) = 0 THEN "EOF" ELSE "POSITIONED"), Ok)

RsEof(rs) ==
  IF IsPositioned(rs) THEN Only(rs, Bool(IsEof(rs)))
                      ELSE Asserting(rs, No)

\* ++m_cursor.  One step beyond end() the iterator means nothing.
Forward(rs) ==
  IF rs.m_cursor # Dangling /\ rs.m_cursor < RowCount(rs)
    THEN rs.m_cursor + 1 ELSE Dangling

\* The part of next() that moves.  An iterator that means nothing may or may
\* not compare equal to end().
Advance(rs) ==
  LET to   == Forward(rs)
      at   == [rs EXCEPT !.m_cursor = to]
      more == Outcome(at, Yes)
      done == Outcome(SetState(at, "EOF"), No)
  IN  IF to = Dangling THEN {more, done}
      ELSE IF to = RowCount(rs) THEN {done} ELSE {more}

RsNext(rs) ==
  IF ~IsPositioned(rs) /\ ~NDEBUG THEN Only(rs, Abort)
  ELSE IF IsEof(rs) THEN Only(rs, No) ELSE Advance(rs)

\* The cursor state is left as it was: at EOF the set stays at EOF.
RsPrev(rs) ==
  LET moved == Outcome([rs EXCEPT !.m_cursor = IF @ = Dangling THEN @ ELSE @ - 1],
                       Yes)
      front == Outcome(rs, No)
  IN  IF rs.m_cursor = Dangling THEN {moved, front}
      ELSE IF rs.m_cursor = 0 THEN {front} ELSE {moved}

\* end()-1, which is no row of an empty set.
RsLast(rs) ==
  Only([rs EXCEPT !.m_cursor = IF RowCount(rs) = 0 THEN Dangling
                                                   ELSE RowCount(rs) - 1],
       Yes)

RsSetpos(rs, row) ==
  IF row > RowCount(rs) \/ row < 1 THEN Only(rs, No)
  ELSE Only(SetState([rs EXCEPT !.m_cursor = row - 1], "POSITIONED"), Yes)

\* column(num): the number of the column is tested at its lower end by the
\* code and at its upper end by std::vector::at().
RsColumn(rs, num) ==
  IF ~IsPositioned(rs) \/ IsEof(rs) \/ num < 1 THEN Only(rs, Throw)
  ELSE IF rs.m_cursor \notin 0 .. RowCount(rs) - 1 THEN Only(rs, Undefined)
  ELSE LET row == rs.m_records[rs.m_cursor + 1]
       IN  Only(rs, IF num > Len(row) THEN Throw ELSE Value(row[num]))

\* The numbers of the columns called name, and columnID(): the first of them.
ColumnsNamed(rs, name) ==
  {i \in 1 .. rs.m_count : rs.m_column_descriptors[i] = name}

RsColumnID(rs, name) ==
  LET ids == ColumnsNamed(rs, name)
  IN  IF ~IsOpen(rs) \/ ids = {} THEN Only(rs, Throw)
      ELSE Only(rs, Value(CHOOSE i \in ids : \A j \in ids : i <= j))

RsDescribeColumn(rs, num) ==
  IF num \notin 1 .. rs.m_count THEN Only(rs, Throw)
  ELSE IF num > Len(rs.m_column_descriptors) THEN Only(rs, Undefined)
  ELSE Only(rs, Value(rs.m_column_descriptors[num]))

\* updateDescriptors() for n columns: the name of a new column is its number
\* ("column1", ...), dropped columns are forgotten.
UpdateDescriptors(descs, n) ==
  [i \in 1 .. n |-> IF i <= Len(descs) THEN descs[i] ELSE i]

\* The set has n columns from now on.
WithColumns(rs, n) ==
  [rs EXCEPT !.m_count = n, !.m_column_descriptors = UpdateDescriptors(@, n)]

RsSetColumnCount(rs, n) == Only(WithColumns(rs, n), Ok)

\* modifyColumnDesc() with DBWTL_COLUMNDESC_NAME; setDatatype() tests num in
\* the same way.
RsModifyColumnDesc(rs, num, name) ==
  IF num <= 0 THEN Only(rs, Throw)
  ELSE IF num > Len(rs.m_column_descriptors) THEN Asserting(rs, Undefined)
  ELSE Only([rs EXCEPT !.m_column_descriptors[num] = name], Ok)

\* clear() empties the vector, which invalidates every iterator.
RsClear(rs) ==
  Only([rs EXCEPT !.m_records = <<>>, !.m_cursorstate = CLOSED,
                  !.m_cursor = Dangling], Ok)

RsReset(rs) ==
  {Outcome([o.rs EXCEPT !.m_count = 0, !.m_column_descriptors = <<>>], o.ret) :
     o \in RsClear(rs)}

RsClose(rs) == Only(rs, Ok)

\* push_back() of rows: it invalidates every iterator when the vector grows
\* into new memory, the one at end() always.
PushBack(rs, rows) ==
  LET grown == [rs EXCEPT !.m_records = @ \o rows]
      loose == [grown EXCEPT !.m_cursor = Dangling]
  IN  IF rs.m_cursor \in 0 .. RowCount(rs) - 1 THEN {grown, loose} ELSE {loose}

\* The number of columns is fixed: rows with other field counts are refused.
HasColumns(rs) == RowCount(rs) > 0 \/ rs.m_count > 0

Accepts(rs, width) == IsOpen(rs) /\ (HasColumns(rs) => rs.m_count = width)

\* insert() of rows of one width, one after the other.  The first row of a set
\* without columns fixes their number.
RsInsertRows(rs, rows) ==
  LET width == Len(rows[1])
      wide  == IF HasColumns(rs) THEN rs ELSE WithColumns(rs, width)
  IN  IF ~Accepts(rs, width) THEN Only(rs, Throw)
      ELSE {Outcome(after, Ok) : after \in PushBack(wide, rows)}

RsInsert(rs, row) == RsInsertRows(rs, <<row>>)
=============================================================================
