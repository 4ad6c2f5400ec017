---------------------------- MODULE SqliteResult ----------------------------
(***************************************************************************)
(* One SqliteResult_libsqlite and a client that calls its methods, from    *)
(* prepare() to the destructor.  SqliteResultOps says what each does; here *)
(* are the calls, and what the class keeps and promises.                   *)
(***************************************************************************)
EXTENDS SqliteResultOps

CONSTANTS
  Conn,       \* the connection of the statement
  MaxHandles, \* bound of the model: machines made
  MaxTuple    \* bound of the model: m_current_tuple

VARIABLES
  rs,      \* the object
  lib,     \* the library's machines
  gone,    \* was the object deleted?
  op, ret  \* the last call and what it gave

vars == <<rs, lib, gone, op, ret>>

Init ==
  /\ rs = ResultInit
  /\ lib = <<>>
  /\ gone = FALSE
  /\ op = <<"none">>
  /\ ret = None

Running == GoesOn(ret)

\* The parameter maps a statement may have.
Params == UNION {[S -> Values] : S \in SUBSET Numbers}

\* The client makes the call o, which has these outcomes.
Call(o, outcomes) ==
  /\ Running /\ ~gone
  /\ op' = o
  /\ \E out \in outcomes : rs' = out.rs /\ lib' = out.lib /\ ret' = out.ret

Alive(o, outcomes) == Call(o, outcomes) /\ UNCHANGED gone

prepare(sql) ==
  /\ Len(lib) < MaxHandles
  /\ \E connected \in BOOLEAN :
       Alive(<<"prepare">>, RsPrepare(rs, lib, Conn, connected, sql))

execute(params)     == Alive(<<"execute">>, RsExecute(rs, lib, params))
first               == Alive(<<"first">>, RsFirst(rs, lib))
next                == rs.m_current_tuple < MaxTuple /\ Alive(<<"next">>, RsNext(rs, lib))
eof                 == Alive(<<"eof">>, RsEof(rs, lib))
column(num)         == Alive(<<"column", num>>, RsColumn(rs, lib, num))
columnID(name)      == Alive(<<"columnID">>, RsColumnID(rs, lib, name))
describeColumn(num) == Alive(<<"describeColumn">>, RsDescribeColumn(rs, lib, num))
getBlob(num)        == Alive(<<"getBlob", num>>, RsGetBlob(rs, lib, num))
getCurrentRowID     == Alive(<<"getCurrentRowID">>, RsRowID(rs, lib))
paramCount          == Alive(<<"paramCount">>, RsParamCount(rs, lib))
lastInsertRowId     == Alive(<<"lastInsertRowId">>, RsLastInsertRowId(rs, lib))

\* The client reads from a stream buffer that getBlob() gave it.
readBuffer(num) ==
  /\ rs.blobbuf[num] # "unset"
  /\ Alive(<<"readBuffer", num>>, RsReadBuffer(rs, lib, num))

\* The statement deletes the object.
destroy == Call(<<"destroy">>, RsDestroy(rs, lib)) /\ gone' = TRUE

ColumnNumbers == 0 .. Width + 1

-----------------------------------------------------------------------------
(* The protocol of the tests and the guide.                                *)

OnLiveRow == ~Unusable(rs) /\ ~IsEof(rs)

CanMove == OnLiveRow /\ ~HasDead(lib, rs.m_handle)

\* The parameters of an earlier execution are given again.
Grown(params) ==
  rs.m_handle # NoHandle => DOMAIN lib[rs.m_handle].bound \subseteq DOMAIN params

\* What needs no position, or answers from the object.
Question ==
  \/ eof \/ getCurrentRowID \/ paramCount \/ lastInsertRowId
  \/ \E num \in ColumnNumbers : columnID(num) \/ describeColumn(num)

\* SqliteStmt_libsqlite prepares each object once and then executes it any
\* number of times, with parameters that are only added or replaced.  The client
\* asks for values on a row, and has no buffer when it executes again; it binds no BLOB to
\* a query of several rows; it does not call next() at the end; the resultset is
\* closed by its statement only.
Protocol ==
  \/ ~IsPrepared(rs) /\ \E sql \in Queries : prepare(sql)
  \/ /\ \A c \in Columns : rs.blobbuf[c] = "unset"
     /\ \E params \in Params : Grown(params) /\ execute(params)
  \/ first
  \/ CanMove /\ next
  \/ OnLiveRow /\ \E num \in 1 .. Width + 1 : column(num) \/ getBlob(num)
  \/ OnLiveRow /\ \E num \in Columns : readBuffer(num)
  \/ Question
  \/ destroy

ProtocolSpec == Init /\ [][Protocol]_vars

-----------------------------------------------------------------------------
\* No call uses a finalized machine or freed bytes, or fails in an assert.
Defined == Running

\* eof() tells the truth about the machine, and the tuple counts its rows.
EofIsTrue ==
  ~gone /\ ~Unusable(rs) =>
    /\ IsEof(rs) <=> ~OnRow(lib, rs.m_handle)
    /\ ~IsEof(rs) => rs.m_current_tuple = lib[rs.m_handle].at

\* The class implements a forward-only dataset.
position == IF gone \/ Unusable(rs) THEN 0 ELSE rs.m_current_tuple
atEnd    == ~gone /\ ~Unusable(rs) /\ IsEof(rs)

Dataset ==
  INSTANCE ForwardDataset WITH
    pos <- position, ended <- atEnd,
    ColumnNumbers <- ColumnNumbers,
    Questions <- {<<"prepare">>, <<"columnID">>, <<"describeColumn">>, <<"paramCount">>,
                  <<"lastInsertRowId">>}

ImplementsDataset == Dataset!Spec
=============================================================================
