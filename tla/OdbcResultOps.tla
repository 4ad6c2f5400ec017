--------------------------- MODULE OdbcResultOps ---------------------------
(***************************************************************************)
(* The methods of OdbcResult_libodbc and of its column accessors           *)
(* (odbc_libodbc.cc) as the sets of their outcomes: the object and the     *)
(* driver's statement handle afterwards, and what the caller gets.  Every  *)
(* exception is Throw.                                                     *)
(*                                                                         *)
(* buf says for each plain column which row its buffer holds.  The LOB     *)
(* column has a stream that reads parts from the driver (m_blobbuf), and   *)
(* a cache (m_blob_cache); has counts the parts in the cache.  o gives the *)
(* connection's options: deferred, and the driver's extensions ext.        *)
(*                                                                         *)
(* An ODBC driver and its manager are not part of the repository: what     *)
(* they do is taken from the calls in odbc_libodbc.cc, the codes they      *)
(* handle and the engine's tests.                                          *)
(*                                                                         *)
(* Almost every call may fail.  A statement handle has a compiled text, a  *)
(* cursor that is open or waits for the data of a parameter, the columns   *)
(* that are bound, and how far SQLGetData() came in the row.               *)
(***************************************************************************)
EXTENDS Integers, CursorState, Returns

CONSTANTS
  Queries,   \* the SQL texts
  NoQuery,   \* what a handle has when it has none
  Kind,      \* what each is
  MaxRows,   \* bound of the model: the rows of a query
  Lob,       \* the column that is a LOB
  LobParts,  \* in how many parts the driver gives the LOB of each row
  Width,     \* the number of columns of every query that has some
  NDEBUG     \* are the asserts compiled out?

ASSUME LibraryAssumption ==
  /\ NoQuery \notin Queries
  /\ Kind \in [Queries -> {"select", "change"}]
  /\ MaxRows \in Nat
  /\ Lob \in Nat \ {0}
  /\ LobParts \in [1 .. MaxRows -> Nat]

ASSUME WidthAssumption  == Width \in Nat /\ Lob <= Width
ASSUME NDEBUGAssumption == NDEBUG \in BOOLEAN

-----------------------------------------------------------------------------
(* The library                                                             *)

\* What SQLGetData() of a driver can do beyond the minimum.
Extensions == {"ANY_COLUMN", "ANY_ORDER", "BOUND"}

NoRow   == 0
Behind  == MaxRows + 1

\* failed is history: the driver lost the current row, or could not read it.
NewHandle ==
  [live |-> TRUE, text |-> NoQuery, cursor |-> "none", at |-> NoRow, bound |-> {},
   got |-> 0, part |-> 0, failed |-> FALSE]

\* Autocommit, and what became of the changes made without it.  asked is history:
\* the end the client asked for last while some were pending.
NewConn == [autocommit |-> TRUE, work |-> "none", asked |-> "none"]

Free(h)   == h.live /\ h.cursor = "none"
OnRow(h)  == h.live /\ h.cursor = "open" /\ h.at \in 1 .. MaxRows
Closed(h) == [h EXCEPT !.cursor = "none", !.failed = TRUE]

\* SQLPrepare() wants no open cursor; what fails to compile is not kept.
Prepares(h, sql) ==
  {<<IF Free(h) THEN [h EXCEPT !.text = NoQuery] ELSE h, "ERROR">>}
    \union {x \in {<<[h EXCEPT !.text = sql], "OK">>} : Free(h)}

Execution(conn, h, code) == [conn |-> conn, h |-> h, code |-> code]

\* A query that was run: a change may find no row to change.
Completions(conn, h) ==
  IF Kind[h.text] = "select"
    THEN {Execution(conn, [h EXCEPT !.cursor = "open", !.at = NoRow, !.got = 0,
                                    !.part = 0, !.failed = FALSE], "OK")}
  ELSE {Execution(conn, [h EXCEPT !.cursor = "none"], "NO_DATA"),
        Execution(IF conn.autocommit THEN conn
                  ELSE [conn EXCEPT !.work = "pending", !.asked = "none"],
                  [h EXCEPT !.cursor = "none"], "OK")}

\* SQLExecute(): with a parameter whose data come later the handle waits.
Executes(conn, h, lob) ==
  {Execution(conn, h, "ERROR")}
    \union (IF ~Free(h) \/ h.text = NoQuery THEN {}
            ELSE IF lob THEN {Execution(conn, [h EXCEPT !.cursor = "waits"], "NEED_DATA")}
            ELSE Completions(conn, h))

\* SQLPutData() and the last SQLParamData().  An error ends the waiting, except
\* that of asking for the next parameter when nothing was put.
PutsData(conn, h, put) ==
  LET Failed == Execution(conn, [h EXCEPT !.cursor = "none"], "ERROR")
  IN  {Failed} \union Completions(conn, h)
        \union {x \in {Execution(conn, h, "ERROR")} : ~put}

\* SQLTables() and the other catalog functions open a cursor of their own.
OpensCatalog(h) ==
  {<<h, "ERROR">>}
    \union {x \in {<<[h EXCEPT !.text = NoQuery, !.cursor = "open", !.at = NoRow], "OK">>} :
              Free(h)}

\* SQLFreeStmt() closes the cursor and drops all bindings, unless data are waited for.
Freeable(h) == h.live /\ h.cursor # "waits"
Freed(h)    == [h EXCEPT !.cursor = "none", !.at = NoRow, !.bound = {}]

\* SQLFetch() in a row: the handle and the code.
Fetches(h) ==
  {<<[h EXCEPT !.failed = TRUE], "ERROR">>}
    \union {f \in {<<[h EXCEPT !.at = @ + 1, !.got = 0, !.part = 0, !.failed = FALSE], "OK">>} :
              h.live /\ h.cursor = "open" /\ h.at < MaxRows}
    \union {f \in {<<[h EXCEPT !.at = Behind], "NO_DATA">>} : h.live /\ h.cursor = "open"}

\* What SQLGetData() of a driver with the extensions ext allows.
MayGet(h, ext, c) ==
  /\ OnRow(h)
  /\ c \in h.bound => "BOUND" \in ext
  /\ "ANY_COLUMN" \in ext \/ \A b \in h.bound : b < c
  /\ "ANY_ORDER" \in ext \/ h.got <= c

\* SQLGetData(): the handle and the code.
Gets(h, ext, c) ==
  LET here  == [h EXCEPT !.got = c, !.part = IF h.got = c THEN @ ELSE 0]
      parts == IF c = Lob THEN LobParts[h.at] ELSE 1
  IN  IF ~MayGet(h, ext, c) THEN {<<h, "ERROR">>}
      ELSE {<<[h EXCEPT !.failed = TRUE], "ERROR">>,
            IF here.part = parts THEN <<here, "NO_DATA">>
            ELSE <<[here EXCEPT !.part = @ + 1], "PART">>}

\* SQLEndTran() in the way how: an open cursor may be closed by it.
Ends(conn, h, how) ==
  {Execution(conn, h, "ERROR")}
    \union {Execution([conn EXCEPT !.work = IF @ = "pending" THEN how ELSE @], g, "OK") :
              g \in {h} \union (IF h.cursor = "open" THEN {Closed(h)} ELSE {})}

\* SQLSetConnectAttr(SQL_ATTR_AUTOCOMMIT): switched on, it commits what is pending.
Switches(conn, on) ==
  {<<conn, "ERROR">>,
   <<[conn EXCEPT !.autocommit = on,
                  !.work = IF on /\ @ = "pending" THEN "kept" ELSE @], "OK">>}

\* SQL_ATTR_TXN_ISOLATION is not changed in a transaction.
Isolates(conn) == {"ERROR"} \union {x \in {"OK"} : conn.work # "pending"}

\* SQLDisconnect() is refused in a transaction.
Disconnects(conn) == IF conn.work = "pending" THEN {"ERROR"} ELSE {"ERROR", "OK"}

-----------------------------------------------------------------------------
(* The object                                                              *)

NoLob == [stream |-> NoRow, cache |-> NoRow, has |-> 0]

Outcome(rs, h, r) == [rs |-> rs, h |-> h, ret |-> r]
Only(rs, h, r)    == {Outcome(rs, h, r)}
Failing(rs, h)    == Only(rs, h, Throw)

\* A step that is made when the step before it did not throw.
After(outcomes, Step(_, _)) ==
  UNION {IF o.ret = Ok THEN Step(o.rs, o.h) ELSE {o} : o \in outcomes}

IsBad(rs)      == "BAD" \in rs.m_cursorstate
IsPrepared(rs) == "PREPARED" \in rs.m_cursorstate
IsOpen(rs)     == "OPEN" \in rs.m_cursorstate
Positioned(rs) == "POSITIONED" \in rs.m_cursorstate
IsEof(rs)      == "EOF" \in rs.m_cursorstate
Unusable(rs)   == IsBad(rs) \/ ~IsOpen(rs)

SetState(rs, s) == [rs EXCEPT !.m_cursorstate = SetCursorState(@, s)]

\* A failed assert.
Asserted(otherwise) == IF NDEBUG THEN otherwise ELSE Abort

\* m_column_accessors is the set of their numbers; m_is_bound that of those bound.
ResultInit ==
  [m_cursorstate |-> CLOSED, m_current_tuple |-> 0, m_column_accessors |-> {},
   m_is_bound |-> {}, buf |-> [c \in 1 .. Width |-> NoRow], lob |-> NoLob]

Cleared(rs) == [rs EXCEPT !.m_column_accessors = {}, !.m_is_bound = {}, !.lob = NoLob]

\* reset(), and so close(): the state and the row number stay.
RsReset(rs, h) ==
  IF Freeable(h) THEN Only(Cleared(rs), Freed(h), Ok) ELSE Failing(rs, h)

\* The destructor resets the handle and may not throw.
RsDestroy(rs, h) ==
  {[o EXCEPT !.ret = IF @ = Throw THEN Abort ELSE @] : o \in RsReset(Cleared(rs), h)}

\* prepare() of a new resultset.  What it throws when the text does not compile
\* is no exception of the library.
RsPrepare(rs, h, connected, sql) ==
  IF IsBad(rs) \/ ~connected THEN Failing(rs, h)
  ELSE After(IF IsPrepared(rs) THEN RsReset(rs, h) ELSE Only(rs, h, Ok),
             LAMBDA r, g : {IF p[2] = "OK" THEN Outcome(SetState(r, "PREPARED"), p[1], Ok)
                            ELSE Outcome(r, p[1], Throw) : p \in Prepares(g, sql)})

-----------------------------------------------------------------------------
(* Columns                                                                 *)

\* How many columns the driver says the cursor has.
ColumnCount(h) == IF h.cursor = "open" THEN Width ELSE 0

\* bindcol(): a LOB counts as not bound; the driver has a dummy for it when it
\* is to be read later.
BindCol(rs, h, o, c) ==
  LET bound == [h EXCEPT !.bound = @ \union {c}]
  IN  IF c = Lob
        THEN Only(rs, IF o.deferred THEN bound ELSE h, Ok)
             \union {x \in Failing(rs, h) : o.deferred}
      ELSE Only([rs EXCEPT !.m_is_bound = @ \union {c}], bound, Ok) \union Failing(rs, h)

\* A bug: the columns after a LOB are bound for every driver.
Bindable_All(o, c) == TRUE

\* can_bind: a column after the LOB is bound by a driver that gives any column.
Bindable(o, c) == c <= Lob \/ "ANY_COLUMN" \in o.ext

\* refreshMetadata(): the accessors are made anew and bound where they can be;
\* one that the driver does not bind is not there.
RefreshMetadata(rs, h, o) ==
  LET column[c \in 0 .. ColumnCount(h)] ==
        IF c = 0 THEN Only([Cleared(rs) EXCEPT !.m_column_accessors = {0}], h, Ok)
                        \union Failing(Cleared(rs), h)
        ELSE After(column[c - 1],
                   LAMBDA r, g :
                     Failing(r, g)
                       \union After(IF Bindable(o, c) THEN BindCol(r, g, o, c) ELSE Only(r, g, Ok),
                                    LAMBDA q, k :
                                      Only([q EXCEPT !.m_column_accessors = @ \union {c}], k, Ok)))
  IN  column[ColumnCount(h)]

\* All of the LOB is read into a new cache.  operator<< of the stream keeps an
\* exception of its source to itself: the cache then holds what came before.
FillCache(rs, h, o) ==
  LET put(r, n) == [r EXCEPT !.lob = [stream |-> h.at, cache |-> h.at, has |-> n]]
      left == IF h.at \in 1 .. MaxRows THEN 0 .. LobParts[h.at] ELSE {0}
      read[n \in left] ==   \* after n parts
        LET gs == IF n = 0 THEN {h}
                  ELSE UNION {{x[1] : x \in {y \in Gets(g, o.ext, Lob) : y[2] = "PART"}} :
                                g \in read[n - 1]}
        IN  gs
  IN  UNION {UNION {{Outcome(put(rs, n), x[1], Ok) :
                       x \in {y \in Gets(g, o.ext, Lob) : y[2] # "PART"}} : g \in read[n]} :
               n \in left}

\* refresh() of an accessor when a row was fetched.
Refresh(rs, h, o, c) ==
  LET dropped == IF c = Lob THEN [rs EXCEPT !.lob = NoLob] ELSE rs
  IN  IF c = 0 \/ c \in rs.m_is_bound THEN Only(dropped, h, Ok)
      ELSE IF c = Lob THEN IF o.deferred THEN Only(dropped, h, Ok)
                           ELSE FillCache(dropped, h, o)
      ELSE {IF x[2] = "PART" THEN Outcome([rs EXCEPT !.buf[c] = h.at], x[1], Ok)
            ELSE Outcome(rs, x[1], Throw) : x \in Gets(h, o.ext, c)}

\* A bug: the accessors that are bound are not refreshed, nor is the LOB's.
RefreshAll_Unbound(rs, h, o) ==
  LET column[c \in 0 .. Width] ==
        IF c = 0 THEN Only(rs, h, Ok)
        ELSE After(column[c - 1],
                   LAMBDA r, g : IF c \in r.m_column_accessors /\ c # Lob
                                   THEN Refresh(r, g, o, c) ELSE Only(r, g, Ok))
  IN  column[Width]

\* All accessors in the order of their numbers; the first that throws is the last.
RefreshAll(rs, h, o) ==
  LET column[c \in 0 .. Width] ==
        IF c = 0 THEN Only(rs, h, Ok)
        ELSE After(column[c - 1],
                   LAMBDA r, g : IF c \in r.m_column_accessors THEN Refresh(r, g, o, c)
                                 ELSE Only(r, g, Ok))
  IN  column[Width]

\* The driver wrote the bound columns.
Written(rs, k) ==
  [rs EXCEPT !.buf = [c \in 1 .. Width |-> IF c \in rs.m_is_bound THEN k ELSE @[c]]]

-----------------------------------------------------------------------------
(* Moving                                                                  *)

RsEof(rs, h) ==
  Only(rs, h, IF Unusable(rs) \/ ~Positioned(rs) THEN Throw ELSE Bool(IsEof(rs)))

\* first() fetches the first row, and answers nothing when it is the current one.
RsFirst(rs, h, o) ==
  IF Unusable(rs) \/ rs.m_current_tuple > 1 THEN Failing(rs, h)
  ELSE IF rs.m_current_tuple = 1 THEN Only(rs, h, Ok)
  ELSE IF ~h.live THEN Only(rs, h, Asserted(Throw))
  ELSE UNION {CASE f[2] = "OK" ->
                     RefreshAll([SetState(Written(rs, f[1].at), "POSITIONED")
                                   EXCEPT !.m_current_tuple = 1], f[1], o)
                [] f[2] = "NO_DATA" -> Only(SetState(rs, "EOF"), f[1], Ok)
                [] f[2] = "ERROR"   -> Failing(rs, f[1]) : f \in Fetches(h)}

\* next() positions nothing: without first() it takes a row and throws in eof().
RsNext(rs, h, o) ==
  IF Unusable(rs) THEN Failing(rs, h)
  ELSE IF ~h.live THEN Only(rs, h, Asserted(Throw))
  ELSE UNION {CASE f[2] = "OK" ->
                     After(RefreshAll([Written(rs, f[1].at) EXCEPT !.m_current_tuple = @ + 1],
                                      f[1], o),
                           LAMBDA r, g : {[a EXCEPT !.ret = CASE @ = Yes -> No [] @ = No -> Yes
                                                              [] OTHER -> @] : a \in RsEof(r, g)})
                [] f[2] = "NO_DATA" -> Only(SetState(rs, "EOF"), f[1], No)
                [] f[2] = "ERROR"   -> Failing(rs, f[1]) : f \in Fetches(h)}

-----------------------------------------------------------------------------
(* Values and questions                                                    *)

\* column(num) of an accessor that is there, with the outcomes of its getter.
Reading(rs, h, num, getter) ==
  IF Unusable(rs) \/ num \notin rs.m_column_accessors THEN Failing(rs, h)
  ELSE Failing(rs, h) \union getter

\* A getter of a plain column, whose buffer is not initialised before a fetch.
RsColumn(rs, h, num) ==
  Reading(rs, h, num,
          IF num \in {0, Lob} THEN Failing(rs, h)
          ELSE Only(rs, h, IF rs.buf[num] = NoRow THEN Undefined ELSE Value(rs.buf[num])))

\* The LOB as a value is cached: what its stream has left.
RsGetBlob(rs, h, o) ==
  Reading(rs, h, Lob, IF rs.lob.cache # NoRow THEN Only(rs, h, Ok) ELSE FillCache(rs, h, o))

\* The LOB as a stream: of the cache, or one that reads from the driver.
RsGetBlobStream(rs, h) ==
  Reading(rs, h, Lob,
          Only(IF rs.lob.cache # NoRow \/ rs.lob.stream # NoRow THEN rs
               ELSE [rs EXCEPT !.lob.stream = h.at], h, Ok))

\* The client reads a part from the stream it was given.
RsReadStream(rs, h, o) ==
  IF rs.lob = NoLob THEN Only(rs, h, Undefined)
  ELSE IF rs.lob.cache # NoRow THEN Only(rs, h, Ok)
  ELSE {Outcome(rs, x[1], IF x[2] = "ERROR" THEN Throw ELSE Ok) : x \in Gets(h, o.ext, Lob)}

RsRowID(rs, h) == Only(rs, h, IF Unusable(rs) THEN Throw ELSE Value(rs.m_current_tuple))

RsColumnCount(rs, h) ==
  IF Unusable(rs) THEN Failing(rs, h) ELSE Failing(rs, h) \union Only(rs, h, Ok)

\* The names are asked from the driver, up to the number of columns.
RsColumnID(rs, h) == RsColumnCount(rs, h)

RsDescribeColumn(rs, h, num) ==
  Only(rs, h, IF Unusable(rs) \/ num \notin rs.m_column_accessors THEN Throw ELSE Ok)

RsParamCount(rs, h) ==
  IF IsBad(rs) \/ ~IsPrepared(rs) THEN Failing(rs, h) ELSE Failing(rs, h) \union Only(rs, h, Ok)

\* affectedRows() asks in every state; there are no row ids and no row count.
RsAffectedRows(rs, h)    == Failing(rs, h) \union Only(rs, h, Ok)
RsLastInsertRowId(rs, h) == Failing(rs, h)
RsRowCount(rs, h)        == Only(rs, h, Value(-1))
=============================================================================
