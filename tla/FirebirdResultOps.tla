------------------------- MODULE FirebirdResultOps -------------------------
(***************************************************************************)
(* The methods of FirebirdResult_libfbclient (firebird_libfbclient.cc) and *)
(* of its column accessors as the sets of their outcomes: the object       *)
(* afterwards, and what the caller gets.  Every exception is Throw.        *)
(*                                                                         *)
(* m_handle is the attachment the statement handle was allocated for;      *)
(* m_osqlda says whether there are output variables, and buf which row     *)
(* they hold.  The BLOB column has a stream (m_blobbuf) that the library   *)
(* keeps open in a transaction.                                            *)
(*                                                                         *)
(* The Firebird client library is not part of the repository: what it does *)
(* is taken from the calls in firebird_libfbclient.cc, the errors they     *)
(* handle and the engine's tests.                                          *)
(*                                                                         *)
(* The server's transactions are numbered in the order they were started,  *)
(* and numbers are never used again.  A transaction handle is a variable   *)
(* of the engine's that holds such a number, or 0; the library writes it.  *)
(* How many rows a query gives is up to the database, and almost every     *)
(* call may fail.                                                          *)
(***************************************************************************)
EXTENDS Integers, Sequences, FiniteSets, CursorState, Returns

CONSTANTS
  Queries,  \* the SQL texts
  Kind,     \* what each is
  MaxRows,  \* bound of the model: the rows of a query
  MaxTrx,   \* bound of the model: the transactions that are started
  Width,    \* the number of columns of every query that has some
  NDEBUG    \* are the asserts compiled out?

Kinds == {"select", "change", "start", "commit", "rollback"}

ASSUME LibraryAssumption ==
  /\ Kind \in [Queries -> Kinds]
  /\ MaxRows \in Nat
  /\ MaxTrx \in Nat

ASSUME WidthAssumption  == Width \in Nat
ASSUME NDEBUGAssumption == NDEBUG \in BOOLEAN

-----------------------------------------------------------------------------
(* The library                                                             *)

NoTrx == 0

Active(trx, t) == t \in DOMAIN trx /\ trx[t] = "active"

ActiveTrx(trx) == {t \in DOMAIN trx : trx[t] = "active"}

\* isc_start_transaction: the transactions and the handle afterwards.
Starts(trx) ==
  {[trx |-> Append(trx, "active"), handle |-> Len(trx) + 1] :
     x \in {i \in {0} : Len(trx) < MaxTrx}}

\* isc_commit_transaction and isc_rollback_transaction that succeed.
Ended(trx, t, how) == [trx EXCEPT ![t] = how]

\* isc_dsql_prepare without a transaction compiles SET TRANSACTION only.
Compiles(sql, handle) == handle # NoTrx \/ Kind[sql] = "start"

Execution(trx, handle, cursor, code) ==
  [trx |-> trx, handle |-> handle, cursor |-> cursor, code |-> code]

\* isc_dsql_execute2 of a statement that has the given cursor open, in the
\* transaction of handle: SET TRANSACTION wants none, everything else wants
\* one, and COMMIT and ROLLBACK end it.
Executions(trx, handle, cursor, sql) ==
  {Execution(trx, handle, cursor, "ERROR")}
  \union
  CASE Kind[sql] = "start" ->
         {Execution(s.trx, s.handle, cursor, "OK") :
            s \in IF handle = NoTrx THEN Starts(trx) ELSE {}}
    [] Kind[sql] = "select" ->
         {Execution(trx, handle, t, "OK") : t \in {handle} \ {NoTrx}}
    [] Kind[sql] = "change" ->
         {Execution(trx, handle, cursor, "OK") : t \in {handle} \ {NoTrx}}
    [] OTHER ->
         {Execution(Ended(trx, t, IF Kind[sql] = "commit" THEN "committed" ELSE "rolled back"),
                    NoTrx, cursor, "OK") : t \in {handle} \ {NoTrx}}

\* Behind the last row of a cursor.
Behind == MaxRows + 1

\* isc_dsql_fetch by a cursor at row k of transaction t: the row and the code.
Fetches(trx, t, k) ==
  {<<k, "ERROR">>}
    \union {f \in {<<k + 1, "ROW">>} : Active(trx, t) /\ k < MaxRows}
    \union {f \in {<<Behind, "END">>} : Active(trx, t)}

-----------------------------------------------------------------------------
(* The object                                                              *)

NoHandle == 0
NoRow    == 0
NoBlob   == [trx |-> NoTrx, at |-> NoRow]

Outcome(rs, r) == [rs |-> rs, ret |-> r]
Only(rs, r)    == {Outcome(rs, r)}
Failing(rs)    == Only(rs, Throw)

IsBad(rs)      == "BAD" \in rs.m_cursorstate
IsPrepared(rs) == "PREPARED" \in rs.m_cursorstate
IsOpen(rs)     == "OPEN" \in rs.m_cursorstate
Positioned(rs) == "POSITIONED" \in rs.m_cursorstate
IsEof(rs)      == "EOF" \in rs.m_cursorstate
Unusable(rs)   == IsBad(rs) \/ ~IsOpen(rs)

SetState(rs, s) == [rs EXCEPT !.m_cursorstate = SetCursorState(@, s)]

\* A failed assert.
Asserted(rs, otherwise) == Only(rs, IF NDEBUG THEN otherwise ELSE Abort)

ResultInit(sql) ==
  [m_cursorstate |-> CLOSED, m_handle |-> NoHandle, m_sql |-> sql,
   m_osqlda |-> FALSE, m_column_desc |-> {}, m_current_tuple |-> -1, cursor |-> NoTrx, at |-> NoRow,
   buf |-> NoRow, blob |-> NoBlob]

\* close(): isc_dsql_free_statement refuses a handle of another attachment;
\* otherwise the variables are freed.  The state is not reset.
RsClose(rs, dbh) ==
  IF rs.m_handle \notin {NoHandle, dbh} THEN Failing(rs)
  ELSE Only([rs EXCEPT !.m_handle = NoHandle, !.m_osqlda = FALSE, !.cursor = NoTrx,
                       !.at = NoRow, !.buf = NoRow], Ok)

\* The library closes a stream in a transaction that is active.
BlobCloses(rs, trx) == rs.blob = NoBlob \/ Active(trx, rs.blob.trx)

\* The destructor: the accessors close their streams, and close().  Neither may
\* throw.
RsDestroy(rs, trx, dbh) ==
  IF ~BlobCloses(rs, trx) THEN Only(rs, Abort)
  ELSE {Outcome(o.rs, IF o.ret = Throw THEN Abort ELSE o.ret) :
          o \in RsClose([rs EXCEPT !.blob = NoBlob], dbh)}

-----------------------------------------------------------------------------
(* prepare()                                                               *)

\* The query is compiled with the transaction handle; it may fail, and so may
\* the description of the columns, which drops the output variables, and that
\* of the parameters, which does not.  The statement handle stays.
Compiled(rs, handle) ==
  LET Described == [rs EXCEPT !.m_osqlda = Kind[rs.m_sql] = "select"]
  IN  Failing([rs EXCEPT !.m_osqlda = FALSE])
        \union {o \in Failing(Described) \union Only(SetState(Described, "PREPARED"), Ok) :
                  Compiles(rs.m_sql, handle)}

RsPrepare(rs, dbc, known, handle) ==
  IF IsBad(rs) \/ ~dbc.m_isConnected THEN Failing(rs)
  ELSE UNION {LET allocated == [c.rs EXCEPT !.m_handle = dbc.m_dbh]
              IN  IF c.ret # Ok THEN {c}
                  ELSE Failing(c.rs)
                         \union (IF known THEN Compiled(allocated, handle)
                                 ELSE Failing(allocated)) :
                c \in IF IsPrepared(rs) THEN RsClose(rs, dbc.m_dbh) ELSE Only(rs, Ok)}

-----------------------------------------------------------------------------
(* Moving                                                                  *)

RsEof(rs) ==
  IF Unusable(rs) \/ ~Positioned(rs) THEN Failing(rs) ELSE Only(rs, Bool(IsEof(rs)))

\* A bug: the accessors are not refreshed, and go on with the last row's stream.
Arrived_Stale(rs, k) ==
  [SetState(rs, "POSITIONED") EXCEPT !.m_current_tuple = @ + 1, !.at = k, !.buf = k]

\* A row was fetched into the variables; every accessor is refreshed.
Arrived(rs, k) ==
  [SetState(rs, "POSITIONED") EXCEPT !.m_current_tuple = @ + 1, !.at = k, !.buf = k,
                                     !.blob = NoBlob]

\* next(): the refresh of an accessor closes its stream.  An error makes the
\* object BAD.  A query without columns has no row and is never positioned.
RsNext(rs, trx) ==
  IF Unusable(rs) THEN Failing(rs)
  ELSE IF rs.m_handle = NoHandle THEN Asserted(rs, No)
  ELSE IF ~rs.m_osqlda THEN Only(rs, No)
  ELSE {CASE f[2] = "ROW" ->
               IF BlobCloses(rs, trx) THEN Outcome(Arrived(rs, f[1]), Yes)
               ELSE Outcome(rs, Abort)
          [] f[2] = "END"   -> Outcome([SetState(rs, "EOF") EXCEPT !.at = f[1]], No)
          [] f[2] = "ERROR" -> Outcome(SetState(rs, "BAD"), Throw) :
          f \in Fetches(trx, rs.cursor, rs.at)}

\* first() fetches the first row, and later only answers whether it is still
\* the current one.
RsFirst(rs, trx) ==
  IF Unusable(rs) THEN Failing(rs)
  ELSE IF ~Positioned(rs)
    THEN {Outcome(o.rs, IF o.ret \in {Yes, No} THEN Ok ELSE o.ret) : o \in RsNext(rs, trx)}
  ELSE Only(rs, IF IsEof(rs) \/ rs.m_current_tuple # 1 THEN Throw ELSE Ok)

-----------------------------------------------------------------------------
(* Values                                                                  *)

ColumnCount(rs) == IF rs.m_osqlda THEN Width ELSE 0

\* column(num) and a getter of its accessor, with the getter's outcomes.  A
\* NULL, or a type the getter does not have, throws; number 0 passes the test
\* and meets an assert of the accessor.
Reading(rs, num, getter) ==
  IF Unusable(rs) \/ num > ColumnCount(rs) THEN Failing(rs)
  ELSE IF num = 0 THEN Asserted(rs, Undefined)
  ELSE Failing(rs) \union getter

\* The variables hold the row fetched last, also at the end; before the first
\* fetch they were never written.
RsColumn(rs, num) ==
  Reading(rs, num, Only(rs, IF rs.buf = NoRow THEN Undefined ELSE Value(rs.buf)))

\* A stream is opened once for a row, in the statement's transaction of then.
RsGetBlobStream(rs, num, handle) ==
  Reading(rs, num,
          IF rs.buf = NoRow THEN Only(rs, Undefined)
          ELSE IF rs.blob # NoBlob THEN Only(rs, Value(rs.blob.at))
          ELSE {Outcome([rs EXCEPT !.blob = [trx |-> t, at |-> rs.buf]], Value(rs.buf)) :
                  t \in {handle} \ {NoTrx}})

\* The client reads from a stream it was given: the accessor may have deleted
\* it, and its transaction may be over.
RsReadStream(rs, trx) ==
  IF rs.blob = NoBlob THEN Only(rs, Undefined)
  ELSE Failing(rs) \union {o \in Only(rs, Value(rs.blob.at)) : Active(trx, rs.blob.trx)}

-----------------------------------------------------------------------------
(* Questions                                                               *)

RsRowID(rs) ==
  Only(rs, IF Unusable(rs) THEN Throw ELSE Value(rs.m_current_tuple))

RsColumnCount(rs) ==
  Only(rs, IF Unusable(rs) THEN Throw ELSE Value(ColumnCount(rs)))

\* The descriptors of the last execute(), the bookmark's included, stay when
\* the variables are freed.
RefreshMetadata(rs) == [rs EXCEPT !.m_column_desc = 0 .. ColumnCount(rs)]

RsDescribeColumn(rs, num) ==
  Only(rs, IF Unusable(rs) \/ num \notin rs.m_column_desc THEN Throw ELSE Value(num))

\* columnID() compares the names of the columns there are.
RsColumnID(rs, name) ==
  Only(rs, IF Unusable(rs) \/ name \notin 1 .. ColumnCount(rs) THEN Throw ELSE Value(name))

\* affectedRows() asks the library with a buffer that is doubled until the
\* answer fits; how many rows of which kind were changed is up to the database.
RsAffectedRows(rs) ==
  IF IsBad(rs) \/ ~IsPrepared(rs) THEN Failing(rs) ELSE Failing(rs) \union Only(rs, Ok)

RsParamCount(rs) == Only(rs, IF IsBad(rs) \/ ~IsPrepared(rs) THEN Throw ELSE Ok)

\* Firebird has no row ids, whatever the state.
RsLastInsertRowId(rs) == Failing(rs)
=============================================================================
