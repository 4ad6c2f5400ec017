-------------------------- MODULE SqliteResultOps --------------------------
(***************************************************************************)
(* The methods of SqliteResult_libsqlite (sqlite_libsqlite.cc) as the sets *)
(* of their outcomes: the object and the library afterwards, and what the  *)
(* caller gets.  Every exception is Throw; a library call with a finalized *)
(* handle is Undefined.                                                    *)
(*                                                                         *)
(* The SQLite C library is not part of the repository: what it does is     *)
(* taken from the calls of the engine and the result codes they handle.  A *)
(* prepared statement is a machine known by its handle, its place in the   *)
(* sequence of all that were made; handles are never used again, so the    *)
(* use of a finalized one shows.  How many rows a query gives is up to the *)
(* database, and every call may fail.                                      *)
(*                                                                         *)
(* A column accessor keeps a stream buffer over the bytes of a BLOB, which *)
(* belong to the library and live until the machine is moved.  A buffer is *)
(* unset (never asked for), null (reset, or empty), current (it points to  *)
(* the bytes of the current row) or stale (to bytes that are gone).        *)
(***************************************************************************)
EXTENDS Integers, Sequences, CursorState, Returns

CONSTANTS
  Queries,     \* the SQL texts
  ParamCount,  \* the number of parameters of each
  Values,      \* the parameter values
  Numbers,     \* the parameter numbers a client binds them to
  Blobs,       \* the values that are BLOBs
  Dead,        \* what a BLOB parameter is when its bytes were freed
  MaxRows,     \* bound of the model: the rows of a query
  Width,       \* the number of columns of every query
  NDEBUG       \* are the asserts compiled out, as in the Release build?

ASSUME LibraryAssumption ==
  /\ ParamCount \in [Queries -> Nat]
  /\ Numbers \subseteq Nat
  /\ Blobs \subseteq Values
  /\ Dead \notin Values
  /\ MaxRows \in Nat

ASSUME WidthAssumption  == Width \in Nat
ASSUME NDEBUGAssumption == NDEBUG \in BOOLEAN

-----------------------------------------------------------------------------
(* The library                                                             *)

NoHandle == 0

MachineStates == {"ready", "row", "done", "failed", "finalized"}

\* A machine made for query sql on connection conn.
NewMachine(conn, sql) ==
  [conn |-> conn, sql |-> sql, status |-> "ready", at |-> 0, bound |-> <<>>]

Finalized(lib, h) == h # NoHandle /\ lib[h].status = "finalized"

\* The handles that still have to be finalized.
LiveHandles(lib) == {h \in DOMAIN lib : ~Finalized(lib, h)}

OnRow(lib, h) == h # NoHandle /\ lib[h].status = "row"

\* A value is bound as long as its bytes live.
HasDead(lib, h) ==
  h # NoHandle /\ \E n \in DOMAIN lib[h].bound : lib[h].bound[n] = Dead

\* sqlite3_finalize, sqlite3_reset: bindings survive a reset.
Finalize(lib, h) ==
  [lib EXCEPT ![h].status = "finalized", ![h].at = 0, ![h].bound = <<>>]
Reset(lib, h) == [lib EXCEPT ![h].status = "ready", ![h].at = 0]

\* sqlite3_bind_*: later values replace earlier ones.
Bind(lib, h, params) ==
  LET b == lib[h].bound
  IN  [lib EXCEPT ![h].bound =
         [n \in DOMAIN b \union DOMAIN params |->
            IF n \in DOMAIN params THEN params[n] ELSE b[n]]]

\* The BLOBs among the bound values were bound without a copy and their bytes
\* are freed.
FreeBlobs(lib, h) ==
  [lib EXCEPT ![h].bound =
     [n \in DOMAIN @ |-> IF @[n] \in Blobs THEN Dead ELSE @[n]]]

\* A step from row k: another row, the end, or an error.
Delivered(lib, h, k) ==
  {[lib |-> [lib EXCEPT ![h].status = "row", ![h].at = k + 1], code |-> "ROW"] :
     x \in {i \in {k} : i < MaxRows}}
  \union
  {[lib |-> [lib EXCEPT ![h].status = "done", ![h].at = k], code |-> "DONE"],
   [lib |-> [lib EXCEPT ![h].status = "failed", ![h].at = k], code |-> "ERROR"]}

\* sqlite3_step.  A machine that is done or has failed starts again from its
\* first row, or refuses in older versions; a null handle is refused.
Steps(lib, h) ==
  IF h = NoHandle THEN {[lib |-> lib, code |-> "ERROR"]}
  ELSE IF lib[h].status \in {"ready", "row"} THEN Delivered(lib, h, lib[h].at)
  ELSE Delivered(lib, h, 0) \union {[lib |-> lib, code |-> "ERROR"]}

-----------------------------------------------------------------------------
(* The object                                                              *)

Columns == 1 .. Width
Buffers == {"unset", "null", "current", "stale"}

\* What a read from a reset or empty buffer, and from a stale one gives.
NoBytes  == <<"no bytes">>
OldBytes == <<"old bytes">>

Outcome(rs, lib, r) == [rs |-> rs, lib |-> lib, ret |-> r]
Only(rs, lib, r)    == {Outcome(rs, lib, r)}

IsBad(rs)      == "BAD" \in rs.m_cursorstate
IsPrepared(rs) == "PREPARED" \in rs.m_cursorstate
IsOpen(rs)     == "OPEN" \in rs.m_cursorstate
IsEof(rs)      == rs.m_last_row_status # "ROW"

\* m_column_desc is known by the columns it describes; 0 is the bookmark.
ResultInit ==
  [m_cursorstate |-> CLOSED, m_handle |-> NoHandle, m_current_tuple |-> -1,
   m_last_row_status |-> "OK", m_column_desc |-> {},
   blobbuf |-> [c \in Columns |-> "unset"]]

SetState(rs, s) == [rs EXCEPT !.m_cursorstate = SetCursorState(@, s)]

\* The library moves the machine: the bytes the buffers point to are gone.
Invalidated(rs) ==
  [rs EXCEPT !.blobbuf = [c \in Columns |-> IF @[c] = "current" THEN "stale" ELSE @[c]]]

\* SqliteData_libsqlite::refresh() of every accessor.
Refreshed(rs) ==
  [rs EXCEPT !.blobbuf = [c \in Columns |-> IF @[c] = "unset" THEN @[c] ELSE "null"]]

\* A step of a machine that has freed bytes among its values.
FreedRead(rs, lib) == {o \in Only(rs, lib, Undefined) : HasDead(lib, rs.m_handle)}

\* close(): neither the handle nor the state is reset.
RsClose(rs, lib) ==
  IF rs.m_handle = NoHandle THEN Only(rs, lib, Ok)
  ELSE IF Finalized(lib, rs.m_handle) THEN Only(rs, lib, Undefined)
  ELSE Only(Invalidated(rs), Finalize(lib, rs.m_handle), Ok)

-----------------------------------------------------------------------------
(* prepare() and execute()                                                 *)

\* sqlite3_prepare_v2 fails, finds no SQL in the text, or makes a machine.
Compiled(rs, lib, conn, sql) ==
  LET prepared == [rs EXCEPT !.m_cursorstate = @ \union {"PREPARED"}]
  IN  {Outcome([rs EXCEPT !.m_handle = NoHandle], lib, Throw),
       Outcome([prepared EXCEPT !.m_handle = NoHandle], lib, Ok),
       Outcome([prepared EXCEPT !.m_handle = Len(lib) + 1],
               Append(lib, NewMachine(conn, sql)), Ok)}

RsPrepare(rs, lib, conn, connected, sql) ==
  IF IsBad(rs) \/ ~connected THEN Only(rs, lib, Throw)
  ELSE UNION {IF c.ret = Ok THEN Compiled(c.rs, c.lib, conn, sql) ELSE {c} :
                c \in IF IsPrepared(rs) THEN RsClose(rs, lib)
                      ELSE Only(rs, lib, Ok)}

\* An open machine is reset.  The accessors are not told.
Rewound(rs, lib) ==
  IF ~IsOpen(rs) THEN Only(rs, lib, Ok)
  ELSE Only(SetState(Invalidated(rs), "PREPARED"),
            IF rs.m_handle = NoHandle THEN lib ELSE Reset(lib, rs.m_handle), Ok)

\* The parameters with numbers below n.
Below(params, n) == [i \in {j \in DOMAIN params : j < n} |-> params[i]]

InRange(sql, n) == n \in 1 .. ParamCount[sql]

\* The loop over the parameters in the order of their numbers: it stops at the
\* first that the library does not take.  A machine between two rows takes none.
Bindings(rs, lib, params) ==
  LET h == rs.m_handle
      Takes(n) == h # NoHandle /\ lib[h].status = "ready" /\ InRange(lib[h].sql, n)
      Stopped(n) ==
        Outcome(rs, IF h = NoHandle THEN lib ELSE Bind(lib, h, Below(params, n)), Throw)
      stops == {n \in DOMAIN params : \A i \in DOMAIN params : i < n => Takes(i)}
      bound == IF h = NoHandle THEN lib ELSE Bind(lib, h, params)
  IN  {Stopped(n) : n \in stops}
      \union {o \in Only(rs, bound, Ok) : \A n \in DOMAIN params : Takes(n)}

\* A bug: the tuple is not reset.
Started_Tuple(rs, lib) ==
  {IF s.code = "ERROR"
     THEN Outcome([SetState(rs, "BAD") EXCEPT !.m_last_row_status = s.code], s.lib, Throw)
     ELSE Outcome([SetState(rs, "POSITIONED") EXCEPT !.m_last_row_status = s.code,
                     !.m_current_tuple = IF @ = -1 THEN 1 ELSE @,
                     !.m_column_desc = 0 .. Width], s.lib, Ok) :
     s \in Steps(lib, rs.m_handle)}

\* The first step decides: positioned, with metadata, or BAD.
Started(rs, lib) ==
  {IF s.code = "ERROR"
     THEN Outcome([SetState(rs, "BAD") EXCEPT !.m_last_row_status = s.code], s.lib, Throw)
     ELSE Outcome([SetState(rs, "POSITIONED") EXCEPT !.m_last_row_status = s.code,
                     !.m_current_tuple = 1, !.m_column_desc = 0 .. Width], s.lib, Ok) :
     s \in Steps(lib, rs.m_handle)}

\* The strings the BLOBs were bound from are locals of execute().
Returned(o) ==
  IF o.rs.m_handle = NoHandle THEN o
  ELSE [o EXCEPT !.lib = FreeBlobs(@, o.rs.m_handle)]

RsExecute(rs, lib, params) ==
  IF IsBad(rs) \/ ~IsPrepared(rs) THEN Only(rs, lib, Throw)
  ELSE IF Finalized(lib, rs.m_handle) THEN Only(rs, lib, Undefined)
  ELSE {Returned(o) :
          o \in UNION {IF b.ret = Ok THEN Started(b.rs, b.lib) \union FreedRead(b.rs, b.lib)
                       ELSE {b} :
            b \in UNION {Bindings(r.rs, r.lib, params) : r \in Rewound(rs, lib)}}}

-----------------------------------------------------------------------------
(* Moving                                                                  *)

Unusable(rs) == IsBad(rs) \/ ~IsOpen(rs)

\* first() moves nothing; it answers whether a second row was never reached.
RsFirst(rs, lib) ==
  Only(rs, lib, IF Unusable(rs) \/ rs.m_current_tuple # 1 THEN Throw ELSE Ok)

RsEof(rs, lib) ==
  Only(rs, lib, IF Unusable(rs) THEN Throw ELSE Bool(IsEof(rs)))

\* A bug: the accessors are not refreshed.
Moved_Stale(rs, code) ==
  IF code = "ROW" THEN [Invalidated(rs) EXCEPT !.m_current_tuple = @ + 1]
  ELSE Invalidated(rs)

\* A step to a row refreshes the accessors and counts the row.
Moved(rs, code) ==
  IF code = "ROW" THEN [Refreshed(rs) EXCEPT !.m_current_tuple = @ + 1]
  ELSE Invalidated(rs)

\* A bug: the row status of the step before is kept when a step fails.
RsNext_Status(rs, lib) ==
  IF Unusable(rs) THEN Only(rs, lib, Throw)
  ELSE IF Finalized(lib, rs.m_handle) THEN Only(rs, lib, Undefined)
  ELSE {Outcome([Moved(rs, s.code) EXCEPT !.m_last_row_status =
                   IF s.code = "ERROR" THEN @ ELSE s.code], s.lib,
                IF s.code = "ERROR" THEN Throw ELSE Bool(s.code = "ROW")) :
          s \in Steps(lib, rs.m_handle)}

\* next(): an error is thrown, but does not make the object BAD.
RsNext(rs, lib) ==
  IF Unusable(rs) THEN Only(rs, lib, Throw)
  ELSE IF Finalized(lib, rs.m_handle) THEN Only(rs, lib, Undefined)
  ELSE {Outcome([Moved(rs, s.code) EXCEPT !.m_last_row_status = s.code], s.lib,
                IF s.code = "ERROR" THEN Throw ELSE Bool(s.code = "ROW")) :
          s \in Steps(lib, rs.m_handle)}
       \union FreedRead(rs, lib)

-----------------------------------------------------------------------------
(* Values                                                                  *)

\* column(num) and a getter of the value it gives: getters, the outcomes where
\* the machine is on a row and the column is not NULL.  Number 0 is let through
\* and left to an assert; without it, the library sees a column that is NULL.
Reading(rs, lib, num, getters) ==
  IF Unusable(rs) THEN Only(rs, lib, Throw)
  ELSE IF Finalized(lib, rs.m_handle) THEN Only(rs, lib, Undefined)
  ELSE IF num > Width THEN Only(rs, lib, Throw)
  ELSE IF num = 0 THEN Only(rs, lib, IF NDEBUG THEN Throw ELSE Abort)
  ELSE Only(rs, lib, Throw) \union {o \in getters : OnRow(lib, rs.m_handle)}

\* A number or a text comes from the machine; a row is known by its number.
ThisRow(rs, lib) == Value(lib[rs.m_handle].at)

RsColumn(rs, lib, num) ==
  Reading(rs, lib, num,
          IF OnRow(lib, rs.m_handle) THEN Only(rs, lib, ThisRow(rs, lib)) ELSE {})

\* getBlob(): a buffer that is null is pointed to the bytes of the row, which
\* leaves it null where there are none; another is left as it is.
Filled(rs, lib, num) ==
  CASE rs.blobbuf[num] \in {"unset", "null"} ->
         {Outcome([rs EXCEPT !.blobbuf[num] = "current"], lib, ThisRow(rs, lib)),
          Outcome([rs EXCEPT !.blobbuf[num] = "null"], lib, NoBytes)}
    [] rs.blobbuf[num] = "current" -> Only(rs, lib, ThisRow(rs, lib))
    [] rs.blobbuf[num] = "stale"   -> Only(rs, lib, OldBytes)

RsGetBlob(rs, lib, num) ==
  Reading(rs, lib, num,
          IF num \in Columns /\ OnRow(lib, rs.m_handle) THEN Filled(rs, lib, num)
          ELSE {})

\* The client reads from a buffer it was given earlier.
RsReadBuffer(rs, lib, num) ==
  Only(rs, lib,
       CASE rs.blobbuf[num] = "null"    -> NoBytes
         [] rs.blobbuf[num] = "current" -> ThisRow(rs, lib)
         [] OTHER                       -> Undefined)

RsRowID(rs, lib) ==
  Only(rs, lib, IF Unusable(rs) THEN Throw ELSE Value(rs.m_current_tuple))

RsDescribeColumn(rs, lib, num) ==
  Only(rs, lib, IF Unusable(rs) \/ num \notin rs.m_column_desc THEN Throw ELSE Ok)

\* columnID(): a column is named by its number.
RsColumnID(rs, lib, name) ==
  Only(rs, lib,
       IF Unusable(rs) THEN Throw
       ELSE IF Finalized(lib, rs.m_handle) THEN Undefined
       ELSE IF Columns \subseteq rs.m_column_desc /\ name \in Columns THEN Value(name)
       ELSE Throw)

\* paramCount(), affectedRows() and lastInsertRowId(); the first looks at the
\* machine.
RsParamCount(rs, lib) ==
  Only(rs, lib,
       IF IsBad(rs) \/ ~IsPrepared(rs) THEN Throw
       ELSE IF Finalized(lib, rs.m_handle) THEN Undefined
       ELSE Value(IF rs.m_handle = NoHandle THEN 0
                  ELSE ParamCount[lib[rs.m_handle].sql]))

RsLastInsertRowId(rs, lib) ==
  Only(rs, lib, IF IsBad(rs) \/ ~IsPrepared(rs) THEN Throw ELSE Ok)

\* The destructor: the accessors are deleted, and close().
RsDestroy(rs, lib) ==
  RsClose([rs EXCEPT !.blobbuf = [c \in Columns |-> "unset"]], lib)
=============================================================================
