------------------------- MODULE FirebirdConnection -------------------------
(***************************************************************************)
(* A FirebirdDbc_libfbclient with its statements and their resultsets      *)
(* (firebird_libfbclient.cc, the base classes in dal_interface.cc): which  *)
(* transaction a statement runs in and who ends it.  A Transaction is an   *)
(* id, its place in the connection's map m_trx_map; the map has the        *)
(* handle.  Id 1 is the connection's own transaction, a statement that     *)
(* finds none makes a local one, and the client makes others.              *)
(***************************************************************************)
EXTENDS FirebirdResultOps

CONSTANTS
  Stmts,    \* the client's statement objects
  MaxIds,   \* bound of the model: the ids in the map
  MaxSets,  \* bound of the model: resultsets of a statement
  MaxConns  \* bound of the model: attachments made

ASSUME ConnectionAssumption == {MaxIds, MaxSets, MaxConns} \subseteq Nat

VARIABLES
  dbc,     \* the connection object, its map included
  trx,     \* the server's transactions
  opened,  \* the attachments made so far
  stmts,   \* the statement objects
  mine,    \* the ids of the transactions the client made
  ret      \* Ok, or how the program ended

vars == <<dbc, trx, opened, stmts, mine, ret>>

Invalid == 0   \* the id of Transaction()
Own     == 1   \* m_dbc_trx

\* owing is history: the last close() could not commit the local transaction.
NewStmt ==
  [alive |-> TRUE, m_cursorstate |-> CLOSED, m_resultsets |-> <<>>,
   m_localTrx |-> Invalid, m_currentTrx |-> Invalid, owing |-> FALSE]

Init ==
  /\ dbc = [alive |-> TRUE, m_dbh |-> NoHandle, m_isConnected |-> FALSE,
            m_trx_map |-> <<NoTrx>>]
  /\ trx = <<>>
  /\ opened = 0
  /\ stmts = [s \in Stmts |-> [NewStmt EXCEPT !.alive = FALSE]]
  /\ mine = {}
  /\ ret = Ok

\* What a destructor gives when the server refuses the rollback it asks for: the
\* exception ends the process.
Terminated == <<"terminated">>

Running == GoesOn(ret) /\ ret # Terminated

\* Of what a call gives only matters here whether the program goes on.
Answer(r) == Running /\ ret' = IF GoesOn(r) /\ r # Terminated THEN Ok ELSE r

-----------------------------------------------------------------------------
(* A method of the connection or of a statement changes a part w of the    *)
(* world: the map, the server's transactions, and the statement.           *)

World(map, t, st) == [map |-> map, trx |-> t, st |-> st]

Gives(w, r) == {[w |-> w, ret |-> r]}

\* A step that is made when the step before it did not throw.
Then(outcomes, Step(_)) == UNION {IF o.ret = Ok THEN Step(o.w) ELSE {o} : o \in outcomes}

Known(w, id)  == id \in DOMAIN w.map
Handle(w, id) == w.map[id]

HasActiveTrx(w) == Handle(w, Own) # NoTrx

HasLocalTrx(st) == st.m_localTrx # Invalid

\* A bug: the handle is kept when the transaction has ended.
EndTrx_Handle(w, id, how) == [w EXCEPT !.trx = Ended(@, Handle(w, id), how)]

EndTrx(w, id, how) ==
  [w EXCEPT !.trx = Ended(@, Handle(w, id), how), !.map[id] = NoTrx]

\* Ending a transaction that has ended does nothing.  The server may refuse to
\* end one, and then the transaction goes on.
Commit(w, id) ==
  IF ~Known(w, id) THEN Gives(w, Throw)
  ELSE IF Handle(w, id) = NoTrx THEN Gives(w, Ok)
  ELSE Gives(w, Throw) \union Gives(EndTrx(w, id, "committed"), Ok)

Rollback(w, id) ==
  IF ~Known(w, id) THEN Gives(w, Throw)
  ELSE IF Handle(w, id) = NoTrx THEN Gives(w, Ok)
  ELSE Gives(w, Throw) \union Gives(EndTrx(w, id, "rolled back"), Ok)

\* Rollback in a destructor.
Discard(w, id) ==
  {[o EXCEPT !.ret = IF @ # Throw THEN @ ELSE IF Known(w, id) THEN Terminated ELSE Abort] : o \in Rollback(w, id)}

\* makeTrxInternal(): the new handle becomes the one of id.  Without an
\* attachment an assert fails, or the library refuses.
MakeTrxInternal(w, id) ==
  IF dbc.m_dbh = NoHandle THEN Gives(w, IF NDEBUG THEN Throw ELSE Abort)
  ELSE Gives(w, Throw)
         \union {[w |-> [w EXCEPT !.trx = s.trx,
                                  !.map = [i \in DOMAIN @ \union {id} |->
                                             IF i = id THEN s.handle ELSE @[i]]],
                  ret |-> Ok] : s \in Starts(w.trx)}

MakeTrx(w) == MakeTrxInternal(w, Len(w.map) + 1)

BeginTrans(w) ==
  IF HasActiveTrx(w) THEN Gives(w, Throw) ELSE MakeTrxInternal(w, Own)

-----------------------------------------------------------------------------
(* The methods of a statement                                              *)

IsStmtPrepared(st) == "PREPARED" \in st.m_cursorstate

SetStmtState(w, s) ==
  [w EXCEPT !.st.m_cursorstate = SetCursorState(@, s)]

\* prepare(sql, trx): the new resultset is kept whatever its prepare() comes
\* to, and so is the transaction.  A statement that already has a transaction
\* fails a BUGCHECK.
StmtPrepareIn(w, sql, id) ==
  LET n == Len(w.st.m_resultsets) + 1
      added == [w EXCEPT !.st.m_resultsets = Append(@, ResultInit(sql))]
      bound == [added EXCEPT !.st.m_currentTrx = id]
      known == Known(w, id)
  IN  IF IsStmtPrepared(w.st) THEN Gives(w, Throw)
      ELSE IF w.st.m_currentTrx # Invalid THEN Gives(added, Throw)
      ELSE Then({[w |-> [bound EXCEPT !.st.m_resultsets[n] = o.rs], ret |-> o.ret] :
                   o \in RsPrepare(bound.st.m_resultsets[n], dbc, known,
                                   IF known THEN Handle(w, id) ELSE NoTrx)},
                LAMBDA v : Gives(SetStmtState(v, "PREPARED"), Ok))

\* prepare(sql): in the connection's transaction, if it has one, or else in a
\* local one that is made first.
StmtPrepare(w, sql) ==
  IF IsStmtPrepared(w.st) \/ w.st.m_currentTrx # Invalid THEN Gives(w, Throw)
  ELSE IF HasActiveTrx(w) THEN StmtPrepareIn(w, sql, Own)
  ELSE Then(MakeTrx(w),
            LAMBDA v : StmtPrepareIn([v EXCEPT !.st.m_localTrx = Len(v.map)], sql, Len(v.map)))

\* relinquishLocalTrx(): the local transaction is committed and forgotten, the
\* connection's is used.
Relinquish(w) ==
  Then(Commit(w, w.st.m_localTrx),
       LAMBDA v : Gives([v EXCEPT !.st.m_localTrx = Invalid, !.st.m_currentTrx = Own], Ok))

\* SET TRANSACTION in a statement that has a local transaction, or had one, is
\* for the connection's transaction.
ForOwn(w, rs) ==
  /\ Kind[rs.m_sql] = "start"
  /\ Handle(w, w.st.m_currentTrx) # NoTrx
  /\ HasLocalTrx(w.st)

\* The parameters are bound, which may fail, and the query is executed in the
\* transaction of the statement.
RunResult(w, i) ==
  LET rs == w.st.m_resultsets[i]
      id == w.st.m_currentTrx
  IN  Gives(w, Throw)
        \union {[w |-> [w EXCEPT !.trx = e.trx, !.map[id] = e.handle,
                         !.st.m_resultsets[i] =
                           [RefreshMetadata(SetState(rs, "OPEN")) EXCEPT
                              !.m_current_tuple = 0, !.cursor = e.cursor,
                              !.at = NoRow]],
                 ret |-> Ok] :
                e \in {x \in Executions(w.trx, Handle(w, id), rs.cursor, rs.m_sql) :
                         x.code = "OK"}}

\* execute() of a resultset.
ResultExecute(w, i) ==
  LET rs == w.st.m_resultsets[i]
  IN  IF IsBad(rs) \/ ~IsPrepared(rs) \/ ~Known(w, w.st.m_currentTrx) THEN Gives(w, Throw)
      ELSE IF ~ForOwn(w, rs) THEN RunResult(w, i)
      ELSE IF HasActiveTrx(w) THEN Gives(w, Throw)
      ELSE Then(Relinquish(w), LAMBDA v : RunResult(v, i))

\* Every resultset is executed, the oldest first, until one throws.
StmtExecute(w) ==
  LET n == Len(w.st.m_resultsets)
      upTo[i \in 0 .. n] ==
        IF i = 0 THEN Gives(w, Ok) ELSE Then(upTo[i - 1], LAMBDA v : ResultExecute(v, i))
  IN  IF ~IsStmtPrepared(w.st) THEN Gives(w, Throw)
      ELSE Then(upTo[n], LAMBDA v : Gives(SetStmtState(v, "OPEN"), Ok))

\* The resultsets are deleted; the first that cannot be ends the process.
Deleted(w) ==
  LET n == Len(w.st.m_resultsets)
      upTo[i \in 0 .. n] ==
        IF i = 0 THEN Gives(w, Ok)
        ELSE Then(upTo[i - 1],
                  LAMBDA v : {[w |-> v, ret |-> o.ret] :
                                o \in RsDestroy(v.st.m_resultsets[i], v.trx, dbc.m_dbh)})
  IN  Then(upTo[n], LAMBDA v : Gives([v EXCEPT !.st.m_resultsets = <<>>,
                                               !.st.m_currentTrx = Invalid], Ok))

\* Bugs: a local transaction is left to the next prepare(), or ended before the
\* resultsets that read in it are deleted.
StmtClose_Leave(w) ==
  Then(Deleted(w), LAMBDA v : Gives([v EXCEPT !.st.m_cursorstate = CLOSED], Ok))
StmtClose_First(w) ==
  Then(Then(IF HasLocalTrx(w.st) THEN Commit(w, w.st.m_localTrx) ELSE Gives(w, Ok), Deleted),
       LAMBDA v : Gives([v EXCEPT !.st.m_cursorstate = CLOSED], Ok))

EndLocal(w) ==
  IF ~HasLocalTrx(w.st) THEN Gives(w, Ok)
  ELSE IF "BAD" \in w.st.m_cursorstate THEN Rollback(w, w.st.m_localTrx)
  ELSE Commit(w, w.st.m_localTrx)

\* close(): the local transaction is committed, also when the statement failed:
\* nothing makes a statement BAD.  Its id stays.  When the commit fails, the
\* statement stays prepared without a resultset.
StmtClose(w) ==
  {[o EXCEPT !.w.st.m_cursorstate = IF o.ret = Ok THEN CLOSED ELSE @,
             !.w.st.owing = o.ret = Throw] : o \in Then(Deleted(w), EndLocal)}

\* A bug: the destructor only closes, which commits.
StmtDestroy_Close(w) ==
  {[o EXCEPT !.w.st.alive = FALSE, !.ret = IF @ = Throw THEN Abort ELSE @] : o \in StmtClose(w)}

\* The destructor rolls a local transaction back and closes.
StmtDestroy(w) ==
  Then(IF HasLocalTrx(w.st) THEN Discard(w, w.st.m_localTrx) ELSE Gives(w, Ok),
       LAMBDA v : {[o EXCEPT !.w.st.alive = FALSE, !.ret = IF @ = Throw THEN Abort ELSE @] : o \in StmtClose(v)})

\* execDirect(), and a command in a statement of its own, which is closed when
\* it succeeds and deleted in any case.
ExecDirect(prepared) == Then(prepared, StmtExecute)

Commanded(prepared) ==
  UNION {{[w |-> d.w, ret |-> IF d.ret = Ok THEN o.ret ELSE d.ret] : d \in StmtDestroy(o.w)} :
           o \in Then(ExecDirect(prepared), StmtClose)}

-----------------------------------------------------------------------------
(* The client and the connection                                           *)

DbcCall(outcomes) ==
  /\ dbc.alive
  /\ \E out \in outcomes :
       /\ dbc' = [dbc EXCEPT !.m_trx_map = out.w.map]
       /\ trx' = out.w.trx
       /\ Answer(out.ret)
  /\ UNCHANGED <<opened, stmts>>

\* The connection, and a statement object of its own.
World0 == World(dbc.m_trx_map, trx, NewStmt)

Disconnected == [dbc EXCEPT !.m_dbh = NoHandle, !.m_isConnected = FALSE]

\* isc_detach_database refuses while a transaction is active.
Release ==
  IF dbc.m_dbh = NoHandle THEN [dbc |-> dbc, ret |-> Ok]
  ELSE IF ActiveTrx(trx) # {} THEN [dbc |-> dbc, ret |-> Throw]
  ELSE [dbc |-> Disconnected, ret |-> Ok]

connect ==
  /\ dbc.alive /\ opened < MaxConns
  /\ \/ /\ Answer(Throw)
        /\ UNCHANGED <<dbc, opened>>
     \/ /\ ~dbc.m_isConnected
        /\ opened' = opened + 1
        /\ dbc' = [dbc EXCEPT !.m_dbh = opened + 1, !.m_isConnected = TRUE]
        /\ Answer(Ok)
  /\ UNCHANGED <<trx, stmts, mine>>

disconnect ==
  /\ dbc.alive
  /\ dbc' = Release.dbc
  /\ Answer(Release.ret)
  /\ UNCHANGED <<trx, opened, stmts, mine>>

\* The server's transactions and the map when those of ids were rolled back.
TrxWithout(ids) ==
  [t \in DOMAIN trx |->
     IF trx[t] = "active" /\ \E id \in ids : dbc.m_trx_map[id] = t THEN "rolled back" ELSE trx[t]]
MapWithout(ids) == [id \in DOMAIN dbc.m_trx_map |-> IF id \in ids THEN NoTrx ELSE dbc.m_trx_map[id]]

\* The destructor rolls back every transaction in the map, the connection's first, and
\* disconnects.
deleteConnection ==
  /\ dbc.alive
  /\ \/ /\ trx' = TrxWithout(DOMAIN dbc.m_trx_map)
        /\ dbc' = [Disconnected EXCEPT !.alive = FALSE, !.m_trx_map = MapWithout(DOMAIN @)]
        /\ Answer(IF dbc.m_dbh # NoHandle /\ ActiveTrx(trx') # {} THEN Abort ELSE Ok)
     \/ \E refused \in DOMAIN dbc.m_trx_map :
          /\ dbc.m_trx_map[refused] # NoTrx
          /\ trx' = TrxWithout(1 .. refused - 1)
          /\ dbc' = [dbc EXCEPT !.m_trx_map = MapWithout(1 .. refused - 1)]
          /\ Answer(Terminated)
  /\ UNCHANGED <<opened, stmts, mine>>

makeTrx ==
  /\ Len(dbc.m_trx_map) < MaxIds
  /\ DbcCall(MakeTrx(World0))
  /\ mine' = mine \union (DOMAIN dbc'.m_trx_map \ DOMAIN dbc.m_trx_map)

beginTrans == DbcCall(BeginTrans(World0)) /\ UNCHANGED mine

\* commit() and rollback() are for the connection's transaction; the client may
\* name one of its own, or none.
commit(id)   == DbcCall(Commit(World0, id)) /\ UNCHANGED mine
rollback(id) == DbcCall(Rollback(World0, id)) /\ UNCHANGED mine

directCmd(sql) ==
  /\ Len(dbc.m_trx_map) < MaxIds
  /\ DbcCall(Commanded(StmtPrepare(World0, sql)))
  /\ UNCHANGED mine

\* savepoint(name) wants a transaction; rollback(name) finds out that there is
\* none when its command is compiled.
savepoint(sql) ==
  /\ DbcCall(IF HasActiveTrx(World0) THEN Commanded(StmtPrepareIn(World0, sql, Own))
             ELSE Gives(World0, Throw))
  /\ UNCHANGED mine

rollbackTo(sql) ==
  /\ DbcCall(Commanded(StmtPrepareIn(World0, sql, Own)))
  /\ UNCHANGED mine

-----------------------------------------------------------------------------
(* The client and a statement                                              *)

\* A call of statement s; when its connection was deleted it holds a dead
\* reference.
StmtCall(s, outcomes) ==
  /\ stmts[s].alive
  /\ \E out \in IF dbc.alive THEN outcomes
                ELSE Gives(World(dbc.m_trx_map, trx, stmts[s]), Undefined) :
       /\ dbc' = [dbc EXCEPT !.m_trx_map = out.w.map]
       /\ trx' = out.w.trx
       /\ stmts' = [stmts EXCEPT ![s] = out.w.st]
       /\ Answer(out.ret)
  /\ UNCHANGED <<opened, mine>>

WorldOf(s) == World(dbc.m_trx_map, trx, stmts[s])

newStatement(s) ==
  /\ dbc.alive /\ ~stmts[s].alive
  /\ stmts' = [stmts EXCEPT ![s] = NewStmt]
  /\ Answer(Ok)
  /\ UNCHANGED <<dbc, trx, opened, mine>>

prepare(s, sql) ==
  /\ Len(dbc.m_trx_map) < MaxIds /\ Len(stmts[s].m_resultsets) < MaxSets
  /\ StmtCall(s, StmtPrepare(WorldOf(s), sql))

prepareIn(s, sql, id) ==
  /\ Len(stmts[s].m_resultsets) < MaxSets
  /\ StmtCall(s, StmtPrepareIn(WorldOf(s), sql, id))

execute(s) == StmtCall(s, StmtExecute(WorldOf(s)))
close(s)   == StmtCall(s, StmtClose(WorldOf(s)))
deleteStatement(s) == StmtCall(s, StmtDestroy(WorldOf(s)))

\* A call of resultset(), which throws if the statement has none.
ResultCall(s, Method(_)) ==
  StmtCall(s, IF stmts[s].m_resultsets = <<>> THEN Gives(WorldOf(s), Throw)
           ELSE {[w |-> [WorldOf(s) EXCEPT !.st.m_resultsets[1] = r.rs], ret |-> r.ret] :
                   r \in Method(stmts[s].m_resultsets[1])})

first(s) == ResultCall(s, LAMBDA rs : RsFirst(rs, trx))
next(s)  == ResultCall(s, LAMBDA rs : RsNext(rs, trx))
eof(s)   == ResultCall(s, RsEof)
column(s, num) == ResultCall(s, LAMBDA rs : RsColumn(rs, num))

\* A stream is opened in the transaction the statement has now.
getBlobStream(s, num) ==
  ResultCall(s, LAMBDA rs : RsGetBlobStream(rs, num,
               IF Known(WorldOf(s), stmts[s].m_currentTrx)
                 THEN dbc.m_trx_map[stmts[s].m_currentTrx] ELSE NoTrx))

readStream(s) == ResultCall(s, LAMBDA rs : RsReadStream(rs, trx))

ColumnNumbers == 0 .. Width + 1

\* What moves nothing.
ask(s) ==
  \/ \E num \in ColumnNumbers :
       \/ ResultCall(s, LAMBDA rs : RsDescribeColumn(rs, num))
       \/ ResultCall(s, LAMBDA rs : RsColumnID(rs, num))
  \/ ResultCall(s, RsRowID)
  \/ ResultCall(s, RsColumnCount)
  \/ ResultCall(s, RsAffectedRows)
  \/ ResultCall(s, RsParamCount)
  \/ ResultCall(s, RsLastInsertRowId)

\* The ids a client can name.
Ids == {Invalid, Own} \union mine

Changes == {sql \in Queries : Kind[sql] = "change"}

Next ==
  \/ connect \/ disconnect \/ deleteConnection \/ makeTrx \/ beginTrans
  \/ \E id \in Ids : commit(id) \/ rollback(id)
  \/ \E sql \in Queries : directCmd(sql)
  \/ \E sql \in Changes : savepoint(sql) \/ rollbackTo(sql)
  \/ \E s \in Stmts :
       \/ newStatement(s) \/ execute(s) \/ close(s) \/ deleteStatement(s)
       \/ first(s) \/ next(s) \/ eof(s) \/ readStream(s) \/ ask(s)
       \/ \E sql \in Queries :
            prepare(s, sql) \/ \E id \in Ids : prepareIn(s, sql, id)
       \/ \E num \in ColumnNumbers : column(s, num) \/ getBlobStream(s, num)

Spec == Init /\ [][Next]_vars

-----------------------------------------------------------------------------
(* The protocol of the tests.                                              *)

\* Streams that are open in transaction t.
Reads(s, t) ==
  \E i \in DOMAIN stmts[s].m_resultsets :
    stmts[s].m_resultsets[i].blob # NoBlob /\ stmts[s].m_resultsets[i].blob.trx = t

Unread(id) == id \in DOMAIN dbc.m_trx_map =>
                \A s \in Stmts : ~Reads(s, dbc.m_trx_map[id])

NoResults(s) == stmts[s].m_resultsets = <<>>

LiveRow(s) ==
  ~NoResults(s) /\ LET rs == stmts[s].m_resultsets[1]
                   IN  ~Unusable(rs) /\ Positioned(rs) /\ ~IsEof(rs)

HasStream(s) == ~NoResults(s) /\ stmts[s].m_resultsets[1].blob # NoBlob

\* The client uses a connection that is connected; it closes its statements
\* before it disconnects, and deletes them before the connection; it ends no
\* transaction, and deletes no statement, whose streams it has open; it closes
\* a statement again whose close() failed; it reads on a row, and from a stream
\* of that row.
Protocol ==
  \/ connect \/ \E id \in Ids : Unread(id) /\ (commit(id) \/ rollback(id))
  \/ (\A s \in Stmts : NoResults(s)) /\ disconnect
  \/ (\A s \in Stmts : ~stmts[s].alive) /\ deleteConnection
  \/ /\ dbc.m_isConnected
     /\ \/ makeTrx \/ beginTrans
        \/ \E sql \in Changes : savepoint(sql) \/ rollbackTo(sql)
        \/ Unread(Own) /\ \E sql \in Queries : directCmd(sql)
  \/ \E s \in Stmts :
       \/ newStatement(s) \/ close(s) \/ first(s) \/ next(s) \/ eof(s) \/ ask(s)
       \/ Unread(stmts[s].m_currentTrx) /\ execute(s)
       \/ Unread(stmts[s].m_localTrx) /\ deleteStatement(s)
       \/ /\ dbc.m_isConnected /\ ~stmts[s].owing
          /\ \E sql \in Queries : prepare(s, sql) \/ \E id \in Ids : prepareIn(s, sql, id)
       \/ LiveRow(s) /\ \E num \in 1 .. Width + 1 : column(s, num) \/ getBlobStream(s, num)
       \/ HasStream(s) /\ readStream(s)

ProtocolSpec == Init /\ [][Protocol]_vars

-----------------------------------------------------------------------------
\* Who may end the transaction of id.
Owned(id) ==
  \/ id = Own \/ id \in mine
  \/ \E s \in Stmts :
       /\ stmts[s].alive /\ stmts[s].m_localTrx = id
       /\ ~NoResults(s) \/ stmts[s].owing
       /\ \A r \in Stmts \ {s} : stmts[r].alive => stmts[r].m_localTrx # id

\* No transaction is lost or shared: each that is active on the server has one
\* place in the map, and that place is the connection's, one of the client's,
\* or the local one of one living statement that is not closed; no handle outlives its transaction
\* (m_trx_map, m_localTrx, the destructors and close()).
TransactionsOwned ==
  Running =>
    /\ \A id \in DOMAIN dbc.m_trx_map :
         dbc.m_trx_map[id] # NoTrx => Active(trx, dbc.m_trx_map[id]) /\ Owned(id)
    /\ \A t \in ActiveTrx(trx) :
         Cardinality({id \in DOMAIN dbc.m_trx_map : dbc.m_trx_map[id] = t}) = 1

\* Who ends transaction t, and how.
Ends(id, t, how) == id \in DOMAIN dbc.m_trx_map /\ dbc.m_trx_map[id] = t /\ trx'[t] = how

EndsByText(kinds, id, t) ==
  \/ "commit" \in kinds /\ Ends(id, t, "committed")
  \/ "rollback" \in kinds /\ Ends(id, t, "rolled back")

Texts(s) == {Kind[stmts[s].m_resultsets[i].m_sql] : i \in DOMAIN stmts[s].m_resultsets}

AskedFor(t) ==
  \/ \E s \in Stmts :
       LET local == stmts[s].m_localTrx
       IN  \/ Ends(local, t, "committed") /\ close(s)
           \/ Ends(local, t, "rolled back") /\ deleteStatement(s)
           \/ Ends(local, t, "committed") /\ "start" \in Texts(s) /\ execute(s)
           \/ EndsByText(Texts(s), stmts[s].m_currentTrx, t) /\ execute(s)
  \/ \E sql \in Queries : EndsByText({Kind[sql]}, Own, t) /\ directCmd(sql)
  \/ \E id \in Ids : Ends(id, t, "committed") /\ commit(id)
  \/ \E id \in Ids : Ends(id, t, "rolled back") /\ rollback(id)
  \/ trx'[t] = "rolled back" /\ deleteConnection

\* A transaction is ended by nobody but its owner, and as he asked: close()
\* commits the local transaction of the statement, its destructor rolls it
\* back, a COMMIT or ROLLBACK text ends the one it is executed in, SET
\* TRANSACTION commits the local one; nothing else that happens on a statement
\* ends a transaction (prepare(), execute(), close(), ~FirebirdStmt_libfbclient).
EndsAsAsked == [][\A t \in ActiveTrx(trx) : trx'[t] # "active" => AskedFor(t)]_vars

\* No call uses a deleted connection or stream, fails in an assert, or throws
\* out of a destructor, but for what the server refuses to roll back there.
Defined == Running \/ ret = Terminated

\* On a row the fetched variables, the row number, and an open stream are those
\* of the row the server's cursor is at, and the end is where the cursor is
\* (next(), first(), eof(), FirebirdData_libfbclient::refresh()).
RowsInStep ==
  Running => \A s \in Stmts : \A i \in DOMAIN stmts[s].m_resultsets :
    LET rs == stmts[s].m_resultsets[i]
    IN  Positioned(rs) /\ ~IsBad(rs) =>
          IF IsEof(rs) THEN rs.at = Behind
          ELSE /\ rs.at = rs.buf /\ rs.at = rs.m_current_tuple
               /\ rs.blob # NoBlob => rs.blob.at = rs.at
=============================================================================
