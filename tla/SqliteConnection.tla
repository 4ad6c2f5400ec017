-------------------------- MODULE SqliteConnection --------------------------
(***************************************************************************)
(* A SqliteDbc_libsqlite with its statements (sqlite_libsqlite.cc, the     *)
(* base classes in dal_interface.cc): who owns the connections and the     *)
(* machines of the library, from connect() to the destructors.  A          *)
(* statement keeps every resultset it prepared until it is closed.  Moving *)
(* in a resultset is the subject of SqliteResult.                          *)
(***************************************************************************)
EXTENDS SqliteResultOps

CONSTANTS
  Stmts,       \* the client's statement objects
  MaxConns,    \* bound of the model: connections opened
  MaxHandles,  \* bound of the model: machines made
  MaxSets,     \* bound of the model: resultsets of a statement
  MaxTemps     \* bound of the model: values bound between two close()

ASSUME ConnectionAssumption ==
  {MaxConns, MaxHandles, MaxSets, MaxTemps} \subseteq Nat

VARIABLES
  dbc,     \* the connection object
  conns,   \* the library's connections: is it open?
  lib,     \* its machines
  stmts,   \* the statement objects
  asked,   \* history: the values bound since the last close()
  done,    \* history: was it executed with them?
  op, ret  \* the last call and what it gave

vars == <<dbc, conns, lib, stmts, asked, done, op, ret>>

NoConn == 0

NewStmt ==
  [alive |-> TRUE, m_cursorstate |-> CLOSED, m_resultsets |-> <<>>,
   m_params |-> <<>>, m_temp_params |-> <<>>]

Init ==
  /\ dbc = [alive |-> TRUE, m_dbh |-> NoConn, m_isConnected |-> FALSE]
  /\ conns = <<>>
  /\ lib = <<>>
  /\ stmts = [s \in Stmts |-> [NewStmt EXCEPT !.alive = FALSE]]
  /\ asked = [s \in Stmts |-> <<>>]
  /\ done = [s \in Stmts |-> FALSE]
  /\ op = <<"none">>
  /\ ret = None

Running == GoesOn(ret)

Answer(o, r) == Running /\ op' = o /\ ret' = r

-----------------------------------------------------------------------------
(* The connection                                                          *)

\* The library gives a handle, also where it cannot open the database, or it
\* has no memory.  The handle of an earlier connect() is written over.
Opened(r) ==
  /\ conns' = Append(conns, TRUE)
  /\ dbc' = [dbc EXCEPT !.m_dbh = Len(conns) + 1, !.m_isConnected = @ \/ r = Ok]
  /\ Answer(<<"connect">>, r)

connect ==
  /\ dbc.alive /\ Len(conns) < MaxConns
  /\ \/ Opened(Ok)
     \/ Opened(Throw)
     \/ /\ dbc' = [dbc EXCEPT !.m_dbh = NoConn]
        /\ Answer(<<"connect">>, Throw)
        /\ UNCHANGED conns
  /\ UNCHANGED <<lib, stmts, asked, done>>

\* SQLITE_BUSY: the connection has machines that are not finalized.
Busy == \E h \in LiveHandles(lib) : lib[h].conn = dbc.m_dbh

Disconnected == [dbc EXCEPT !.m_dbh = NoConn, !.m_isConnected = FALSE]

\* A bug: the object forgets the connection it could not close.
Release_Forget ==
  IF dbc.m_dbh = NoConn THEN [dbc |-> dbc, conns |-> conns, ret |-> Ok]
  ELSE IF Busy THEN [dbc |-> Disconnected, conns |-> conns, ret |-> Throw]
  ELSE [dbc |-> Disconnected, conns |-> [conns EXCEPT ![dbc.m_dbh] = FALSE], ret |-> Ok]

\* What disconnect() comes to: nothing to do, refused, or done.
Release ==
  IF dbc.m_dbh = NoConn THEN [dbc |-> dbc, conns |-> conns, ret |-> Ok]
  ELSE IF Busy THEN [dbc |-> dbc, conns |-> conns, ret |-> Throw]
  ELSE [dbc |-> Disconnected, conns |-> [conns EXCEPT ![dbc.m_dbh] = FALSE], ret |-> Ok]

disconnect ==
  /\ dbc.alive
  /\ dbc' = Release.dbc
  /\ conns' = Release.conns
  /\ Answer(<<"disconnect">>, Release.ret)
  /\ UNCHANGED <<lib, stmts, asked, done>>

\* The destructor disconnects; an exception it does not let out ends the
\* process.
deleteConnection ==
  /\ dbc.alive
  /\ dbc' = [Release.dbc EXCEPT !.alive = FALSE]
  /\ conns' = Release.conns
  /\ Answer(<<"delete">>, IF Release.ret = Throw THEN Abort ELSE Ok)
  /\ UNCHANGED <<lib, stmts, asked, done>>

-----------------------------------------------------------------------------
(* The methods of a statement as outcomes: the statement and the library   *)
(* afterwards, and what the caller gets.                                   *)

StmtOutcome(st, l, r) == [st |-> st, lib |-> l, ret |-> r]

\* A new resultset is kept whatever its prepare() comes to.  getHandle()
\* asserts that there is a handle where the connection says it is connected.
StmtPrepare(st, l, sql) ==
  LET With(rs) == [st EXCEPT !.m_resultsets = Append(@, rs)]
  IN  IF dbc.m_isConnected /\ dbc.m_dbh = NoConn
        THEN {StmtOutcome(With(ResultInit), l, IF NDEBUG THEN Undefined ELSE Abort)}
        ELSE {StmtOutcome([With(o.rs) EXCEPT !.m_cursorstate =
                              IF o.ret = Ok THEN Mask("PREPARED") ELSE @],
                          o.lib, o.ret) :
                o \in RsPrepare(ResultInit, l, dbc.m_dbh, dbc.m_isConnected, sql)}

\* What m_params points to.
Given(st) == [n \in DOMAIN st.m_params |-> st.m_temp_params[st.m_params[n]]]

DanglingParams(st) ==
  \E n \in DOMAIN st.m_params : st.m_params[n] \notin DOMAIN st.m_temp_params

\* Every resultset is executed, the oldest first, until one throws; the first
\* one is the current one, whatever was prepared since.
StmtExecute(st, l) ==
  LET n == Len(st.m_resultsets)
      upTo[i \in 0 .. n] ==
        IF i = 0 THEN {StmtOutcome(st, l, Ok)}
        ELSE UNION {IF d.ret # Ok THEN {d}
                    ELSE {StmtOutcome([d.st EXCEPT !.m_resultsets[i] = o.rs], o.lib, o.ret) :
                            o \in RsExecute(d.st.m_resultsets[i], d.lib, Given(st))} :
                      d \in upTo[i - 1]}
  IN  IF n > 0 /\ DanglingParams(st) THEN {StmtOutcome(st, l, Undefined)} ELSE upTo[n]

\* bind(): the number is not looked at; the value it had before stays a
\* temporary until close().
Bound(st, n, v) ==
  [st EXCEPT !.m_temp_params = Append(@, v),
             !.m_params = [i \in DOMAIN @ \union {n} |->
                             IF i = n THEN Len(st.m_temp_params) + 1 ELSE @[i]]]

\* Bugs: the deleted resultsets are not removed; parameters survive.
Cleared_Resultsets(st) ==
  [st EXCEPT !.m_cursorstate = CLOSED, !.m_params = <<>>, !.m_temp_params = <<>>]
Cleared_Params(st) ==
  [st EXCEPT !.m_cursorstate = CLOSED, !.m_resultsets = <<>>]

Cleared(st) ==
  [st EXCEPT !.m_cursorstate = CLOSED, !.m_resultsets = <<>>, !.m_params = <<>>,
             !.m_temp_params = <<>>]

\* close(): every resultset is deleted, the parameters are forgotten.
StmtClose(st, l) ==
  LET n == Len(st.m_resultsets)
      upTo[i \in 0 .. n] ==
        IF i = 0 THEN {StmtOutcome(st, l, Ok)}
        ELSE UNION {IF d.ret # Ok THEN {d}
                    ELSE {StmtOutcome(st, o.lib, o.ret) :
                            o \in RsDestroy(st.m_resultsets[i], d.lib)} : d \in upTo[i - 1]}
  IN  {StmtOutcome(Cleared(st), o.lib, o.ret) : o \in upTo[n]}

\* A bug: a statement that throws is not deleted.
Commanded_Leak(sql) ==
  UNION {IF p.ret # Ok THEN {p}
         ELSE UNION {IF e.ret # Ok THEN {e} ELSE StmtClose(e.st, e.lib) :
                       e \in StmtExecute(p.st, p.lib)} :
           p \in StmtPrepare(NewStmt, lib, sql)}

\* directCmd(): a statement of its own executes the command and is deleted,
\* also when it throws.
Commanded(sql) ==
  UNION {UNION {{StmtOutcome(c.st, c.lib, IF c.ret = Ok THEN e.ret ELSE c.ret) :
                   c \in StmtClose(e.st, e.lib)} :
                  e \in IF p.ret = Ok THEN StmtExecute(p.st, p.lib) ELSE {p}} :
           p \in StmtPrepare(NewStmt, lib, sql)}

-----------------------------------------------------------------------------
(* The client                                                              *)

Asks(s, values, executed) ==
  asked' = [asked EXCEPT ![s] = values] /\ done' = [done EXCEPT ![s] = executed]

\* The client calls method o of statement s.  A statement whose connection was
\* deleted holds a dead reference.
Call(s, o, outcomes) ==
  /\ stmts[s].alive
  /\ \E out \in IF dbc.alive THEN outcomes
                ELSE {StmtOutcome(stmts[s], lib, Undefined)} :
       /\ stmts' = [stmts EXCEPT ![s] = out.st]
       /\ lib' = out.lib
       /\ Answer(o, out.ret)
  /\ UNCHANGED <<dbc, conns>>

newStatement(s) ==
  /\ dbc.alive /\ ~stmts[s].alive
  /\ stmts' = [stmts EXCEPT ![s] = NewStmt]
  /\ Answer(<<"newStatement">>, Ok)
  /\ Asks(s, <<>>, FALSE)
  /\ UNCHANGED <<dbc, conns, lib>>

prepare(s, sql) ==
  /\ Len(lib) < MaxHandles /\ Len(stmts[s].m_resultsets) < MaxSets
  /\ Call(s, <<"prepare">>, StmtPrepare(stmts[s], lib, sql))
  /\ Asks(s, asked[s], ret' # Ok /\ done[s])

execute(s) ==
  /\ Call(s, <<"execute">>, StmtExecute(stmts[s], lib))
  /\ Asks(s, asked[s], ret' = Ok /\ stmts[s].m_resultsets # <<>>)

bind(s, n, v) ==
  /\ Len(stmts[s].m_temp_params) < MaxTemps
  /\ stmts[s].alive
  /\ stmts' = [stmts EXCEPT ![s] = Bound(@, n, v)]
  /\ Answer(<<"bind", s, n>>, Ok)
  /\ Asks(s, [i \in DOMAIN asked[s] \union {n} |-> IF i = n THEN v ELSE asked[s][i]],
          FALSE)
  /\ UNCHANGED <<dbc, conns, lib>>

close(s) ==
  /\ Call(s, <<"close">>, StmtClose(stmts[s], lib))
  /\ Asks(s, <<>>, FALSE)

\* The destructor closes.
deleteStatement(s) ==
  /\ Call(s, <<"deleteStatement">>,
          {[o EXCEPT !.st.alive = FALSE] : o \in StmtClose(stmts[s], lib)})
  /\ Asks(s, <<>>, FALSE)

\* A Resultset object is attached to resultset(), which throws if there is none.
attach(s) ==
  /\ Call(s, <<"attach">>,
          {StmtOutcome(stmts[s], lib, IF stmts[s].m_resultsets = <<>> THEN Throw ELSE Ok)})
  /\ UNCHANGED <<asked, done>>

directCmd(sql) ==
  /\ dbc.alive /\ Len(lib) < MaxHandles
  /\ \E out \in Commanded(sql) : lib' = out.lib /\ Answer(<<"directCmd">>, out.ret)
  /\ UNCHANGED <<dbc, conns, stmts, asked, done>>

\* The protocol: the client connects when it is not connected and gives up a
\* failed attempt with disconnect(), deletes its statements before the
\* connection, and closes a statement before it prepares another query.
Careful ==
  \/ dbc.m_dbh = NoConn /\ connect
  \/ disconnect
  \/ (\A s \in Stmts : ~stmts[s].alive) /\ deleteConnection
  \/ \E sql \in Queries : directCmd(sql)
  \/ \E s \in Stmts :
       \/ newStatement(s) \/ execute(s) \/ close(s) \/ deleteStatement(s) \/ attach(s)
       \/ /\ stmts[s].m_resultsets = <<>>
          /\ \E sql \in Queries : prepare(s, sql)
       \/ \E n \in Numbers, v \in Values : bind(s, n, v)

ProtocolSpec == Init /\ [][Careful]_vars

-----------------------------------------------------------------------------
\* The resultsets that hold machine h.
Owners(h) ==
  {p \in Stmts \X (1 .. MaxSets) :
     /\ p[2] \in DOMAIN stmts[p[1]].m_resultsets
     /\ stmts[p[1]].m_resultsets[p[2]].m_handle = h}

\* No machine is lost or shared: each that is not finalized belongs to one
\* resultset of one statement that can still be closed, on an open connection,
\* and a resultset holds no machine that was finalized.
MachinesOwned ==
  Running => \A h \in DOMAIN lib :
    /\ h \in LiveHandles(lib) =>
         /\ conns[lib[h].conn]
         /\ \E p \in Owners(h) : Owners(h) = {p} /\ stmts[p[1]].alive
    /\ h \notin LiveHandles(lib) => Owners(h) = {}

\* No call uses a deleted connection, a finalized machine or a deleted
\* parameter, aborts, or throws out of a destructor.
Defined == Running

\* No connection is lost: disconnect() reaches the only one that is open.
NoConnectionLost == \A c \in DOMAIN conns : conns[c] => c = dbc.m_dbh

Current(s) == stmts[s].m_resultsets[1].m_handle

\* A query is executed with the values that were bound since the statement was
\* last closed, all of them and no others.
BoundAsAsked ==
  Running => \A s \in Stmts :
    done[s] /\ Current(s) # NoHandle =>
      LET bound == lib[Current(s)].bound
      IN  /\ DOMAIN bound = DOMAIN asked[s]
          /\ \A n \in DOMAIN bound :
               bound[n] = IF asked[s][n] \in Blobs THEN Dead ELSE asked[s][n]
=============================================================================
