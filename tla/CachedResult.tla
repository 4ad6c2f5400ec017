---------------------------- MODULE CachedResult ----------------------------
(***************************************************************************)
(* CachedResultBase (cachedresult.cc): a scrollable dataset over the       *)
(* forward-only resultset of a statement.  Rows are copied into a          *)
(* RecordSet when they are first asked for.  The cache holds a plain       *)
(* pointer to the resultset, which belongs to the statement, so the        *)
(* statement's own life is part of the model: it may be executed again,    *)
(* closed, or its resultset moved, while the cache is attached to it.      *)
(***************************************************************************)
EXTENDS RecordSetOps

CONSTANTS
  Sources,      \* the resultsets of the client's statements
  NoSource,     \* m_source == 0
  SourceRows,   \* the rows each of them returns when executed
  SourceNames,  \* the names of its columns
  Faulty,       \* the sources whose next(), or the reading of a column, may fail
  RowsetSize,   \* ROWSET_SIZE: the rows fetchMore() copies
  RowNumbers,   \* the row numbers clients ask for
  MaxCached     \* bound of the model: rows in the cache

\* A row, or a list of names, is a sequence: it can be read by number.
IsList(x) == x \in Seq({x[i] : i \in DOMAIN x})

ASSUME SourcesAssumption ==
  /\ NoSource \notin Sources
  /\ Faulty \subseteq Sources
  /\ \A s \in Sources :
       /\ IsList(SourceNames[s]) /\ IsList(SourceRows[s])
       /\ \A i \in DOMAIN SourceRows[s] :
            IsList(SourceRows[s][i]) /\ Len(SourceRows[s][i]) = Len(SourceNames[s])
ASSUME RowsetSizeAssumption == RowsetSize \in Nat \ {0}
ASSUME RowNumbersAssumption == RowNumbers \subseteq Int /\ MaxCached \in Nat

VARIABLES
  m_source,        \* the resultset the cache is attached to
  m_rscache,       \* the RecordSet with the rows copied so far
  m_current_row,   \* the row of the last successful move, from 1
  src,             \* the resultsets
  op, ret,         \* the last call on the cache and what it gave
  settled          \* history: nothing was copied since the last successful move

cache == <<m_source, m_rscache, m_current_row>>
vars  == <<m_source, m_rscache, m_current_row, src, op, ret, settled>>

\* A resultset: does it exist, its row (0: not positioned), did next() fail?
NewSource == [alive |-> TRUE, pos |-> 0, failed |-> FALSE]

Init ==
  /\ m_source = NoSource
  /\ m_rscache = RecordSetInit
  /\ m_current_row = 0
  /\ src = [s \in Sources |-> NewSource]
  /\ op = <<"none">>
  /\ ret = None
  /\ settled = FALSE

Running == GoesOn(ret)

Width(s) == Len(SourceNames[s])

\* The rows a source still has to give; none after an error.
Remaining(s) ==
  IF src[s].pos = 0 \/ src[s].failed THEN <<>>
  ELSE SubSeq(SourceRows[s], src[s].pos, Len(SourceRows[s]))

-----------------------------------------------------------------------------
(* The copying loops                                                       *)

Least(i, j) == IF i < j THEN i ELSE j

\* A bug: the loop skips every other row.
Fetched_NextTwice(s, rs, n, thrower) ==
  [rs |-> rs, ret |-> IF thrower = "none" THEN Ok ELSE Throw,
   src |-> [src EXCEPT ![s].pos = Least(@ + n + 1, Len(SourceRows[s]) + 1),
                       ![s].failed = (thrower = "next")]]

\* n rows were copied and passed; then the next() that left the last one threw, or
\* the copyRecord() of the row after it, which stays to be copied.
Fetched(s, rs, n, thrower) ==
  [rs |-> rs, ret |-> IF thrower = "none" THEN Ok ELSE Throw,
   src |-> [src EXCEPT ![s].pos = @ + n, ![s].failed = (thrower = "next")]]

Unfetched(r) == {[rs |-> m_rscache, ret |-> r, src |-> src]}

\* At most n >= 1 times: while the source is not at its end, copyRecord() and
\* next().  A dead source is read all the same; eof() throws on a source that
\* is not positioned; insert() may refuse the first row; a column may be
\* unreadable, then its row is not copied and not left; next() may fail after
\* the row it leaves was copied.
Fetch(n) ==
  LET s    == m_source
      rest == Remaining(s)
      most == Least(n, Len(rest))
      Copies(k) == RsInsertRows(m_rscache, SubSeq(rest, 1, k))
  IN  IF ~src[s].alive THEN Unfetched(Undefined)
      ELSE IF src[s].pos = 0 THEN Unfetched(Throw)
      ELSE IF rest = <<>> THEN Unfetched(Ok)
      ELSE IF ~Accepts(m_rscache, Width(s)) THEN Unfetched(Throw)
      ELSE {Fetched(s, c.rs, most, "none") : c \in Copies(most)}
           \union (IF s \in Faulty THEN Unfetched(Throw) ELSE {})
           \union
           UNION {{Fetched(s, c.rs, k, thrower) :
                     c \in Copies(k), thrower \in {"next"} \union (IF k < most THEN {"copy"} ELSE {})} :
                    k \in IF s \in Faulty THEN 1 .. most ELSE {}}

\* The loop of setpos(): it asks the source only for rows that are not cached.
FetchUpTo(row) ==
  IF m_source = NoSource \/ row <= RowCount(m_rscache) THEN Unfetched(Ok)
  ELSE Fetch(row - RowCount(m_rscache))

\* The loops that end with the source only.
All == Len(Remaining(m_source)) + 1

FetchRest == IF m_source = NoSource THEN Unfetched(Ok) ELSE Fetch(All)

-----------------------------------------------------------------------------
(* The outcomes of a move: f is what the copying loop left.                *)

Stay(f, r) ==
  [rs |-> f.rs, src |-> f.src, row |-> m_current_row, ret |-> r, moved |-> FALSE]

\* Bugs: the cursor is placed the first time only.
Place_Again(f, row) ==
  [rs |-> IF IsPositioned(f.rs) THEN f.rs
          ELSE (CHOOSE o \in RsSetpos(f.rs, row) : TRUE).rs,
   src |-> f.src, row |-> row, ret |-> Yes, moved |-> TRUE]

\* m_rscache.setpos(row), assert(!m_rscache.eof()), m_current_row = row.  The
\* assert fails too when setpos() refused the row and there is no position.
Place(f, row) ==
  LET moved == CHOOSE o \in RsSetpos(f.rs, row) : TRUE
  IN  IF ~NDEBUG /\ (IsEof(moved.rs) \/ ~IsPositioned(moved.rs))
        THEN Stay(f, Abort)
        ELSE [rs |-> moved.rs, src |-> f.src, row |-> row, ret |-> Yes,
              moved |-> moved.ret = Yes]

\* Bugs: setpos() answers true for a row that does not exist, prev() moves
\* the cursor and not m_current_row.
SetposOutcomes_False(row) ==
  {IF f.ret # Ok THEN Stay(f, f.ret)
   ELSE IF row > RowCount(f.rs) THEN Stay(f, Yes)
   ELSE Place(f, row) : f \in FetchUpTo(row)}

PrevOutcomes_Count ==
  {IF m_current_row > 1
     THEN [Place(f, m_current_row - 1) EXCEPT !.row = m_current_row]
     ELSE Stay(f, No) : f \in Unfetched(Ok)}

SetposOutcomes(row) ==
  {IF f.ret # Ok THEN Stay(f, f.ret)
   ELSE IF row > RowCount(f.rs) THEN Stay(f, No)
   ELSE Place(f, row) : f \in FetchUpTo(row)}

\* first() is void: whether there is a first row is not told.
FirstOutcomes ==
  {[out EXCEPT !.ret = IF @ \in {Yes, No} THEN Ok ELSE @] :
     out \in SetposOutcomes(1)}

LastOutcomes ==
  {IF f.ret # Ok THEN Stay(f, f.ret)
   ELSE IF RowCount(f.rs) = 0 THEN Stay(f, No)
   ELSE Place(f, RowCount(f.rs)) : f \in FetchRest}

PrevOutcomes ==
  {IF m_current_row > 1 THEN Place(f, m_current_row - 1) ELSE Stay(f, No) :
     f \in Unfetched(Ok)}

\* The call o on the cache has these outcomes.
Move(o, outcomes) ==
  /\ Running
  /\ op' = o
  /\ \E out \in outcomes :
       /\ m_rscache' = out.rs
       /\ src' = out.src
       /\ m_current_row' = out.row
       /\ ret' = out.ret
       /\ settled' = (out.moved
                      \/ (settled /\ RowCount(out.rs) = RowCount(m_rscache)))
  /\ UNCHANGED m_source

first       == Move(<<"first">>, FirstOutcomes)
next        == Move(<<"next">>, SetposOutcomes(m_current_row + 1))
prev        == Move(<<"prev">>, PrevOutcomes)
last        == Move(<<"last">>, LastOutcomes)
setpos(row) == Move(<<"setpos", row>>, SetposOutcomes(row))

-----------------------------------------------------------------------------
(* The other methods                                                       *)

\* fetchMore() and fetchAll() copy rows and leave the cursor where it was.
Copy(o, fetched) == Move(o, {Stay(f, f.ret) : f \in fetched})

fetchMore ==
  Copy(<<"fetchMore">>,
       IF m_source = NoSource THEN Unfetched(Ok) ELSE Fetch(RowsetSize))

fetchAll ==
  Copy(<<"fetchAll">>, IF m_source = NoSource THEN Unfetched(Throw) ELSE FetchRest)

\* The call o answers r, or any of a set of outcomes of the RecordSet, and
\* changes nothing.
Answer(o, r) ==
  Running /\ op' = o /\ ret' = r /\ UNCHANGED <<cache, src, settled>>

Ask(o, outcomes) == \E out \in outcomes : Answer(o, out.ret)

moreAvail ==
  Answer(<<"moreAvail">>,
         IF m_source = NoSource THEN No
         ELSE IF ~src[m_source].alive THEN Undefined
         ELSE IF src[m_source].pos = 0 THEN Throw
         ELSE Bool(Remaining(m_source) # <<>>))

eof            == Ask(<<"eof">>, RsEof(m_rscache))
column(num)    == Ask(<<"column", num>>, RsColumn(m_rscache, num))
columnID(name) == Ask(<<"columnID">>, RsColumnID(m_rscache, name))

\* attach(): a plain pointer to the statement's resultset.
attach(s) ==
  /\ Running /\ src[s].alive
  /\ RowCount(m_rscache) + Len(SourceRows[s]) <= MaxCached
  /\ m_source' = s
  /\ op' = <<"attach">> /\ ret' = Ok
  /\ UNCHANGED <<m_rscache, m_current_row, src, settled>>

detach ==
  /\ Running
  /\ m_source' = NoSource
  /\ op' = <<"detach">> /\ ret' = Ok
  /\ UNCHANGED <<m_rscache, m_current_row, src, settled>>

\* close(): resetInternal() forgets source and rows, but not m_current_row.
close ==
  /\ Running
  /\ m_source' = NoSource
  /\ \E o \in RsReset(m_rscache) : m_rscache' = o.rs
  /\ op' = <<"close">> /\ ret' = Ok
  /\ UNCHANGED <<m_current_row, src, settled>>

\* A bug: the columns get their number and not their names.
WithMetadata_Names(rs, s) ==
  [rs EXCEPT !.m_count = Width(s),
             !.m_column_descriptors = UpdateDescriptors(@, Width(s))]

\* copyMetadata() on an open cache: column count and names.
WithMetadata(rs, s) ==
  [rs EXCEPT !.m_count = Width(s), !.m_column_descriptors = SourceNames[s]]

\* open() opens the RecordSet before it looks at the source: where the
\* source's first() throws, the cache stays open without metadata.
Opened(rs, sources, r) ==
  /\ op' = <<"open">>
  /\ m_rscache' = rs /\ src' = sources /\ ret' = r
  /\ UNCHANGED <<m_source, m_current_row, settled>>

open ==
  LET s  == m_source
      rs == SetState(m_rscache, "OPEN")
      at == IF src[s].pos = 0 THEN [src EXCEPT ![s].pos = 1] ELSE src
  IN  /\ Running
      /\ \/ IsOpen(m_rscache) /\ Answer(<<"open">>, Ok)
         \/ /\ ~IsOpen(m_rscache) /\ s = NoSource
            /\ Answer(<<"open">>, Throw)
         \/ /\ ~IsOpen(m_rscache) /\ s # NoSource
            /\ \/ ~src[s].alive /\ Opened(rs, src, Undefined)
               \/ src[s].alive /\ src[s].pos = 0 /\ Opened(rs, src, Throw)
               \/ /\ src[s].alive /\ Width(s) = 0 /\ ~NDEBUG
                  /\ Opened(rs, at, Abort)
               \/ /\ src[s].alive /\ (Width(s) > 0 \/ NDEBUG)
                  /\ Opened(WithMetadata(rs, s), at, Ok)

-----------------------------------------------------------------------------
(* What happens to the sources                                             *)

Elsewhere(sources) ==
  Running /\ src' = sources /\ UNCHANGED <<cache, op, ret, settled>>

\* The statement is executed (again): its resultset is on its first row.
execute(s) ==
  /\ src[s].alive
  /\ m_source = s => RowCount(m_rscache) + Len(SourceRows[s]) <= MaxCached
  /\ Elsewhere([src EXCEPT ![s].pos = 1, ![s].failed = FALSE])

\* The statement is closed: it deletes its resultset.
closeStatement(s) == src[s].alive /\ Elsewhere([src EXCEPT ![s].alive = FALSE])

\* The client moves the resultset itself.
advance(s) ==
  /\ src[s].alive /\ Remaining(s) # <<>>
  /\ Elsewhere([src EXCEPT ![s].pos = @ + 1])

Columns == 1 .. 2

ColumnNames == UNION {{SourceNames[s][i] : i \in 1 .. Width(s)} : s \in Sources}

\* The cache is open and knows its columns.
Ready == IsOpen(m_rscache) /\ m_rscache.m_count > 0

Positioned == IsPositioned(m_rscache)

\* The protocol: one source from open() to close(), which nobody else moves,
\* executes or closes while the cache is attached to it; no call but close()
\* after an open() that failed; row numbers from 1; next(), prev() and eof()
\* from a position; no column() after a call that copied rows without moving
\* the cursor.
ClientStep ==
  \/ Ready /\ (first \/ last \/ fetchMore \/ fetchAll \/ moreAvail)
  \/ Ready /\ Positioned /\ (next \/ prev \/ eof)
  \/ Ready /\ \E row \in RowNumbers : row >= 1 /\ setpos(row)
  \/ Ready /\ (settled \/ ~Positioned) /\ \E num \in Columns : column(num)
  \/ Ready /\ \E name \in ColumnNames : columnID(name)
  \/ ~IsOpen(m_rscache) /\ m_source # NoSource /\ open
  \/ Ready /\ detach
  \/ close
  \/ ~IsOpen(m_rscache) /\ \E s \in Sources : Width(s) > 0 /\ attach(s)

SourceStep ==
  \E s \in Sources \ {m_source} : execute(s) \/ closeStatement(s) \/ advance(s)

Protocol == ClientStep \/ SourceStep

ProtocolSpec == Init /\ [][Protocol]_vars

-----------------------------------------------------------------------------
\* The two positions the class keeps agree whatever the client does: a cursor
\* that designates a row designates the row numbered m_current_row.  (Row
\* numbers below 1 are accepted and leave the cursor where it was.)
PositionsAgree ==
  Positioned /\ m_current_row >= 1 =>
    m_rscache.m_cursor \in {m_current_row - 1, Dangling}

\* After a successful move, and until rows are copied without one, the cursor
\* is on a live row.
SettledOnRow ==
  Positioned /\ settled => m_rscache.m_cursor \in 0 .. RowCount(m_rscache) - 1

\* No call aborts in an assert or uses dead memory.
Defined == Running

\* The cached columns are those of the source the rows come from, and every
\* cached row has all of them.
MetadataMatches ==
  Ready =>
    /\ m_source # NoSource => m_rscache.m_column_descriptors = SourceNames[m_source]
    /\ \A i \in 1 .. RowCount(m_rscache) : Len(m_rscache.m_records[i]) = m_rscache.m_count

\* Caching is invisible: the rows fetched so far followed by those the source
\* still has are the rows of a ScrollableDataset, none lost, repeated or out of
\* order, and m_current_row is the position among them.  It has no end behind
\* the last row; an error of the source costs the rows it did not deliver.
VisibleRows ==
  IF ~IsOpen(m_rscache) THEN <<>>
  ELSE m_rscache.m_records \o
       (IF m_source = NoSource THEN <<>> ELSE Remaining(m_source))

Dataset ==
  INSTANCE ScrollableDataset WITH
    rows <- VisibleRows,
    pos <- IF Positioned THEN m_current_row ELSE 0,
    Rows <- {},
    ColumnNumbers <- Columns,
    Contents <- UNION {{SubSeq(SourceRows[s], i, Len(SourceRows[s])) :
                          i \in 1 .. Len(SourceRows[s]) + 1} : s \in Sources},
    Questions <- {<<"attach">>, <<"detach">>, <<"fetchMore">>, <<"fetchAll">>,
                  <<"moreAvail">>, <<"columnID">>},
    Ends <- FALSE

ImplementsDataset == Dataset!Spec
=============================================================================
