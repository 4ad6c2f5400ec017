--------------------------- MODULE OdbcConnection ---------------------------
(***************************************************************************)
(* An OdbcDbc_libodbc with a statement and its resultsets                  *)
(* (odbc_libodbc.cc, the base classes in dal_interface.cc).  All           *)
(* resultsets of a statement use its one driver handle; what the driver    *)
(* can do is found out when the connection is made.  Transactions are the  *)
(* driver's: without autocommit every change waits for an end.             *)
(***************************************************************************)
EXTENDS OdbcResultOps, Sequences

CONSTANTS
  Drivers,  \* the extensions of the drivers there are
  MaxSets   \* bound of the model: resultsets of the statement

ASSUME ConnectionAssumption ==
  /\ Drivers \subseteq SUBSET Extensions
  /\ MaxSets \in Nat

VARIABLES
  dbc,   \* the connection object
  conn,  \* the driver's side of it
  h,     \* the statement's handle at the driver
  st,    \* the statement object
  ret    \* Ok, or how the program ended

vars == <<dbc, conn, h, st, ret>>

\* m_params is what the LOB parameter is: no LOB, a stream with data, one that was
\* read to its end, or one that throws when it is read.
Params == {"none", "fresh", "spent", "broken"}

NewStmt == [alive |-> TRUE, m_cursorstate |-> CLOSED, m_resultsets |-> <<>>, m_params |-> "none"]

NoStmt   == [NewStmt EXCEPT !.alive = FALSE]
NoHandle == [NewHandle EXCEPT !.live = FALSE]

\* needLength is the driver's SQL_NEED_LONG_DATA_LEN.
Init ==
  /\ dbc = [alive |-> TRUE, m_isConnected |-> FALSE, deferred |-> FALSE, ext |-> {},
            needLength |-> FALSE]
  /\ conn = NewConn
  /\ h = NoHandle
  /\ st = NoStmt
  /\ ret = Ok

Running == GoesOn(ret)

\* Of what a call gives only matters here whether the program goes on.
Answer(r) == Running /\ ret' = IF GoesOn(r) THEN Ok ELSE r

-----------------------------------------------------------------------------
(* A method of the statement changes a part w of the world: the driver's   *)
(* connection and handle, and the statement.                               *)

World == [conn |-> conn, h |-> h, st |-> st]

Gives(w, r) == {[w |-> w, ret |-> r]}

Then(outcomes, Step(_)) == UNION {IF o.ret = Ok THEN Step(o.w) ELSE {o} : o \in outcomes}

\* What a method of resultset i gives, in the world.
Of(w, i, outcomes) ==
  {[w |-> [w EXCEPT !.h = o.h, !.st.m_resultsets[i] = o.rs], ret |-> o.ret] : o \in outcomes}

Added(w) == [w EXCEPT !.st.m_resultsets = Append(@, ResultInit)]

SetStmtState(w, s) == [w EXCEPT !.st.m_cursorstate = SetCursorState(@, s)]

\* prepare() makes a new resultset, which stays when it throws.
StmtPrepare(w, sql) ==
  LET n == Len(w.st.m_resultsets) + 1
  IN  Then(Of(Added(w), n, RsPrepare(ResultInit, w.h, dbc.m_isConnected, sql)),
           LAMBDA v : Gives(SetStmtState(v, "PREPARED"), Ok))

\* A resultset that is open is reset before it is executed again.
Rewound(w, i) ==
  LET rs == w.st.m_resultsets[i]
  IN  IF IsOpen(rs)
        THEN Then(Of(w, i, RsReset(rs, w.h)),
                  LAMBDA v : Gives([v EXCEPT !.st.m_resultsets[i] = SetState(@, "PREPARED")], Ok))
      ELSE Gives(w, Ok)

\* The parameters are bound, which may fail: a driver that wants the length of
\* a LOB gets it by reading all of the client's stream, which must not be empty.
BindParams(w) ==
  Gives(w, Throw) \union
    IF w.st.m_params = "none" \/ ~dbc.needLength THEN Gives(w, Ok)
    ELSE CASE w.st.m_params = "fresh"  -> Gives([w EXCEPT !.st.m_params = "spent"], Ok)
           [] w.st.m_params = "spent"  -> IF NDEBUG THEN Gives(w, Ok) ELSE Gives(w, Abort)
           [] w.st.m_params = "broken" -> Gives(w, Throw)

Executed(w, e) == [w EXCEPT !.conn = e.conn, !.h = e.h]

\* Opens resultset i of what was executed: the metadata may fail, and then the
\* row number stays.  A change of no row is at its end.
Opened(w, i, code) ==
  Then(Of(w, i, RefreshMetadata(SetState(w.st.m_resultsets[i], "OPEN"), w.h, dbc)),
       LAMBDA v : Gives([v EXCEPT !.st.m_resultsets[i].m_current_tuple = 0,
                                  !.st.m_resultsets[i].m_cursorstate =
                                    IF code = "NO_DATA" THEN SetCursorState(@, "EOF") ELSE @], Ok))

\* The data of the LOB are put: those read when it was bound, or the client's
\* stream, which may throw and leave the driver waiting.  The state stays.
PutData(w, had) ==
  IF w.st.m_params = "broken" THEN Gives(w, Throw)
  ELSE LET spent == [w EXCEPT !.st.m_params = "spent"]
       IN  {[w |-> Executed(spent, e), ret |-> IF e.code = "OK" THEN Ok ELSE Throw] :
              e \in PutsData(w.conn, w.h, had)}

\* The driver executes the query, and asks for the data of a LOB.
Run(w, i, had) ==
  UNION {LET v == Executed(w, e)
         IN  CASE e.code = "ERROR"     -> Gives(v, Throw)
               [] e.code = "NEED_DATA" -> PutData(v, had)
               [] OTHER                -> Opened(v, i, e.code) :
         e \in Executes(w.conn, w.h, w.st.m_params # "none")}

\* A bug: the data are taken from the client's stream even if they were read
\* when it was bound.
ResultExecute_Stream(w, i) ==
  LET rs == w.st.m_resultsets[i]
  IN  IF IsBad(rs) \/ ~IsPrepared(rs) THEN Gives(w, Throw)
      ELSE Then(Then(Rewound(w, i), BindParams),
                LAMBDA v : Run(v, i, v.st.m_params = "fresh"))

\* execute() of a resultset: what was read when it was bound is put.
ResultExecute(w, i) ==
  LET rs == w.st.m_resultsets[i]
  IN  IF IsBad(rs) \/ ~IsPrepared(rs) THEN Gives(w, Throw)
      ELSE Then(Then(Rewound(w, i), BindParams),
                LAMBDA v : Run(v, i, w.st.m_params = "fresh"))

\* Every resultset is executed, the oldest first; the statement's state stays.
StmtExecute(w) ==
  LET n == Len(w.st.m_resultsets)
      upTo[i \in 0 .. n] ==
        IF i = 0 THEN Gives(w, Ok) ELSE Then(upTo[i - 1], LAMBDA v : ResultExecute(v, i))
  IN  upTo[n]

\* The catalog functions open a resultset without preparing it.
StmtOpen(w) ==
  LET n == Len(w.st.m_resultsets) + 1
      set == SetCursorState(CLOSED, "OPEN")
  IN  UNION {LET v == [Added(w) EXCEPT !.h = c[1]]
             IN  IF c[2] = "ERROR" THEN Gives(v, Throw)
                 ELSE LET opened == [SetStmtState(v, "OPEN") EXCEPT
                                       !.st.m_resultsets[n].m_cursorstate = set]
                      IN  Of(opened, n, RefreshMetadata(opened.st.m_resultsets[n], opened.h, dbc)) :
             c \in OpensCatalog(w.h)}

\* close() deletes the resultsets and the parameters.
StmtClose(w) ==
  LET n == Len(w.st.m_resultsets)
      upTo[i \in 0 .. n] ==
        IF i = 0 THEN Gives(w, Ok)
        ELSE Then(upTo[i - 1], LAMBDA v : Of(v, i, RsDestroy(v.st.m_resultsets[i], v.h)))
  IN  Then(upTo[n], LAMBDA v : Gives([v EXCEPT !.st.m_resultsets = <<>>, !.st.m_params = "none",
                                               !.st.m_cursorstate = CLOSED], Ok))

\* The destructor closes and frees the handle: an assert wants that to succeed.
StmtDestroy(w) ==
  Then(StmtClose(w),
       LAMBDA v : Gives([v EXCEPT !.st = NoStmt, !.h = NoHandle],
                        IF Freeable(v.h) THEN Ok ELSE Asserted(Ok)))

-----------------------------------------------------------------------------
(* The client and the connection                                           *)

DbcCall(r) == dbc.alive /\ Answer(r)

\* connect(options); connect(database, user, password) gives options that this
\* one does not know, and always throws.
connect ==
  /\ ~dbc.m_isConnected
  /\ \/ DbcCall(Throw) /\ UNCHANGED dbc
     \/ \E ext \in Drivers, needLength \in BOOLEAN :
          /\ DbcCall(Ok)
          /\ dbc' = [dbc EXCEPT !.m_isConnected = TRUE, !.ext = ext, !.needLength = needLength,
                                !.deferred = Extensions \subseteq ext]
  /\ conn' = NewConn
  /\ UNCHANGED <<h, st>>

\* The option DBWTL_ODBC_DEFERRED_LOB_FETCH.
setOption(deferred) ==
  /\ DbcCall(Ok)
  /\ dbc' = [dbc EXCEPT !.deferred = deferred]
  /\ UNCHANGED <<conn, h, st>>

\* The driver frees the statement's handle with the connection.
Disconnected(object) ==
  /\ dbc' = [object EXCEPT !.m_isConnected = FALSE]
  /\ h' = NoHandle

disconnect ==
  /\ \/ DbcCall(Ok) /\ dbc.m_isConnected /\ "OK" \in Disconnects(conn) /\ Disconnected(dbc)
     \/ DbcCall(IF dbc.m_isConnected THEN Throw ELSE Ok) /\ UNCHANGED <<dbc, h>>
  /\ UNCHANGED <<conn, st>>

\* The destructor disconnects and may not throw; a driver that merely loses the
\* connection is not blamed on the client.
deleteConnection ==
  /\ DbcCall(IF dbc.m_isConnected /\ "OK" \notin Disconnects(conn) THEN Abort ELSE Ok)
  /\ Disconnected([dbc EXCEPT !.alive = FALSE])
  /\ UNCHANGED <<conn, st>>

\* A failing isolation level leaves autocommit off.
beginTrans ==
  /\ \E s \in Switches(conn, FALSE) :
       /\ conn' = s[1]
       /\ IF s[2] = "ERROR" THEN DbcCall(Throw)
          ELSE \E code \in Isolates(s[1]) : DbcCall(IF code = "OK" THEN Ok ELSE Throw)
  /\ UNCHANGED <<dbc, h, st>>

Asking(how) == IF conn.work = "pending" THEN [conn EXCEPT !.asked = how] ELSE conn

\* A bug: autocommit is switched on before the end is asked for.
EndTrans_Switch(how) ==
  /\ \E s \in Switches(Asking(how), TRUE) :
       IF s[2] = "ERROR" THEN DbcCall(Throw) /\ conn' = s[1] /\ UNCHANGED h
       ELSE \E e \in Ends(s[1], h, how) :
              /\ DbcCall(IF e.code = "OK" THEN Ok ELSE Throw)
              /\ conn' = e.conn /\ h' = e.h
  /\ UNCHANGED <<dbc, st>>

\* The transaction is ended, and then autocommit is switched on; either may fail.
EndTrans(how) ==
  /\ \E e \in Ends(Asking(how), h, how) :
       /\ h' = e.h
       /\ IF e.code = "ERROR" THEN DbcCall(Throw) /\ conn' = e.conn
          ELSE \E s \in Switches(e.conn, TRUE) :
                 /\ DbcCall(IF s[2] = "OK" THEN Ok ELSE Throw)
                 /\ conn' = s[1]
  /\ UNCHANGED <<dbc, st>>

commit   == EndTrans("kept")
rollback == EndTrans("undone")

\* savepoint(name) and rollback(name) are not supported.
savepoint == DbcCall(Throw) /\ UNCHANGED <<dbc, conn, h, st>>

-----------------------------------------------------------------------------
(* The client and the statement                                            *)

\* A call of the statement; when its connection was deleted it holds a dead
\* reference.
StmtCall(outcomes) ==
  /\ st.alive
  /\ \E out \in IF dbc.alive THEN outcomes ELSE Gives(World, Undefined) :
       /\ conn' = out.w.conn /\ h' = out.w.h /\ st' = out.w.st
       /\ Answer(out.ret)
  /\ UNCHANGED dbc

\* Without a connection the driver gives no handle, and an assert fails.
Fresh == IF dbc.m_isConnected THEN Gives([World EXCEPT !.st = NewStmt, !.h = NewHandle], Ok)
         ELSE Gives([World EXCEPT !.st = NewStmt], Asserted(Ok))

Made(outcomes) ==
  /\ dbc.alive /\ ~st.alive
  /\ \E out \in outcomes :
       /\ conn' = out.w.conn /\ h' = out.w.h /\ st' = out.w.st
       /\ Answer(out.ret)
  /\ UNCHANGED dbc

newStatement == Made(Fresh)

\* getOdbcTables() and the like: a statement that could not be opened is lost.
getOdbcTables ==
  Made({IF o.ret = Throw THEN [o EXCEPT !.w = World] ELSE o : o \in Then(Fresh, StmtOpen)})

Room == Len(st.m_resultsets) < MaxSets

prepare(sql)    == Room /\ StmtCall(StmtPrepare(World, sql))
execute         == StmtCall(StmtExecute(World))
execDirect(sql) == Room /\ StmtCall(Then(StmtPrepare(World, sql), StmtExecute))
close           == StmtCall(StmtClose(World))
deleteStatement == StmtCall(StmtDestroy(World))
setParam(p)     == StmtCall(Gives([World EXCEPT !.st.m_params = p], Ok))

\* A call of resultset(), which throws if the statement has none.
ResultCall(Method(_)) ==
  StmtCall(IF st.m_resultsets = <<>> THEN Gives(World, Throw)
           ELSE Of(World, 1, Method(st.m_resultsets[1])))

first         == ResultCall(LAMBDA rs : RsFirst(rs, h, dbc))
next          == ResultCall(LAMBDA rs : RsNext(rs, h, dbc))
column(num)   == ResultCall(LAMBDA rs : RsColumn(rs, h, num))
getBlob       == ResultCall(LAMBDA rs : RsGetBlob(rs, h, dbc))
getBlobStream == ResultCall(LAMBDA rs : RsGetBlobStream(rs, h))
readStream    == ResultCall(LAMBDA rs : RsReadStream(rs, h, dbc))

\* What moves nothing.
ask ==
  \/ ResultCall(LAMBDA rs : RsEof(rs, h))
  \/ ResultCall(LAMBDA rs : RsRowID(rs, h))
  \/ ResultCall(LAMBDA rs : RsColumnCount(rs, h))
  \/ ResultCall(LAMBDA rs : RsColumnID(rs, h))
  \/ ResultCall(LAMBDA rs : RsParamCount(rs, h))
  \/ ResultCall(LAMBDA rs : RsAffectedRows(rs, h))
  \/ ResultCall(LAMBDA rs : RsLastInsertRowId(rs, h))
  \/ ResultCall(LAMBDA rs : RsRowCount(rs, h))
  \/ \E num \in 0 .. Width + 1 : ResultCall(LAMBDA rs : RsDescribeColumn(rs, h, num))

Next ==
  \/ connect \/ disconnect \/ deleteConnection \/ beginTrans \/ commit \/ rollback
  \/ savepoint \/ newStatement \/ getOdbcTables \/ execute \/ close \/ deleteStatement
  \/ first \/ next \/ getBlob \/ getBlobStream \/ readStream \/ ask
  \/ \E deferred \in BOOLEAN : setOption(deferred)
  \/ \E sql \in Queries : prepare(sql) \/ execDirect(sql)
  \/ \E p \in Params : setParam(p)
  \/ \E num \in 0 .. Width + 1 : column(num)

Spec == Init /\ [][Next]_vars

-----------------------------------------------------------------------------
(* The protocol of the tests.                                              *)

NoResults == st.m_resultsets = <<>>
Result    == st.m_resultsets[1]

LiveRow == ~NoResults /\ ~Unusable(Result) /\ Positioned(Result) /\ ~IsEof(Result)

\* The client deletes its statement before it disconnects, and ends what it
\* began before that.  It closes the statement before it prepares another
\* query, gives a parameter anew for every execute(), with a stream that has
\* data and does not throw, and changes the option only without a resultset and
\* to what the driver can do.  It calls first() before next(), reads on a row,
\* and reads a LOB either as a value or as a stream.
Protocol ==
  \/ connect \/ beginTrans \/ commit \/ rollback \/ savepoint
  \/ conn.work # "pending" /\ ~st.alive /\ (disconnect \/ deleteConnection)
  \/ dbc.m_isConnected /\ (newStatement \/ getOdbcTables)
  \/ NoResults /\ \/ setOption(FALSE)
                  \/ Extensions \subseteq dbc.ext /\ setOption(TRUE)
                  \/ \E sql \in Queries : prepare(sql) \/ execDirect(sql)
  \/ \E p \in {"none", "fresh"} : setParam(p)
  \/ st.m_params \in {"none", "fresh"} /\ execute
  \/ close \/ deleteStatement \/ first \/ ask
  \/ ~NoResults /\ Positioned(Result) /\ next
  \/ LiveRow /\ \/ \E num \in 1 .. Width : num # Lob /\ Result.buf[num] # NoRow /\ column(num)
                \/ h.part = 0 /\ getBlob
                \/ getBlobStream
                \/ Result.lob # NoLob /\ readStream

ProtocolSpec == Init /\ [][Protocol]_vars

-----------------------------------------------------------------------------
\* No call uses a deleted connection or stream, fails in an assert, or throws
\* out of a destructor.
Defined == Running

\* On a row that the driver delivered, the row number and the buffer of every
\* column are those of the row its cursor is at, bound or not, and so are the
\* stream and the cache of the LOB; the end is the driver's (first(), next(),
\* OdbcData_libodbc::refresh()).
RowsInStep ==
  Running /\ LiveRow /\ ~h.failed =>
    /\ Result.m_current_tuple = h.at
    /\ \A c \in Result.m_column_accessors \ {0, Lob} : Result.buf[c] = h.at
    /\ {Result.lob.stream, Result.lob.cache} \subseteq {NoRow, h.at}

\* A LOB that is read whole has all its parts: the driver refuses no part of it
\* for what it cannot do, since operator<< would take that for the end
\* (bindcol(), getdata(), connect()).
LobsWhole ==
  Running /\ LiveRow /\ ~h.failed /\ Result.lob.cache # NoRow =>
    Result.lob.has = LobParts[Result.lob.cache]

\* What was changed without autocommit becomes permanent by commit() only, and
\* is undone by rollback() only (OdbcDbc_libodbc::commit(), rollback()).
SettledAsAsked == conn.work \in {"kept", "undone"} => conn.asked = conn.work
=============================================================================
