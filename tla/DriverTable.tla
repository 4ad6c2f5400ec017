----------------------------- MODULE DriverTable -----------------------------
(***************************************************************************)
(* The tables through which the engines call the client libraries          *)
(* (library_support.hh, driver_*.hh): a constructor opens the library and  *)
(* looks every function up, a missing one is printed and stays null, and a *)
(* wrapper of each function tests a member before it calls.  The           *)
(* environment of an engine owns the table; its connections only copy the  *)
(* pointer (the classes Env and Dbc of the engines).  Which engine's       *)
(* environment a program gets is told by a text "engine:driver:library".   *)
(***************************************************************************)
EXTENDS FiniteSets, Sequences, SequencesExt

CONSTANTS
  Plain,    \* by table, the functions that no operation here calls by name
  Bare,     \* by table, the members that no wrapper belongs to
  Missing,  \* sets of functions that a library may lack
  Asked     \* the parts of the texts: records [engine, driver, lib]

DBMSs == {"sqlite", "odbc", "firebird", "sdi"}
EngineOfDriver ==
  [libsqlite |-> "sqlite", libodbc |-> "odbc", libfbclient |-> "firebird", libsdi |-> "sdi"]

\* Only libraries have colons in their names.  What leaves out the engine is read
\* from the first colon on all the same: its driver is not named like an engine,
\* its library not like a driver.
ASSUME AskedAssumption ==
  \A p \in Asked :
    /\ p.engine \in STRING /\ p.engine # ":"
    /\ p.driver \in STRING /\ p.driver # ":"
    /\ p.lib \in Seq(STRING)
    /\ (p.engine = "" /\ p.lib # <<>> => p.driver \notin DBMSs /\ p.lib[1] \notin DOMAIN EngineOfDriver)

Tables == {"SQLite3Drv", "ODBC30Drv", "FBClientDrv", "SDIDrv"}
NullPointer == "null"
NoTable       == <<>>         \* the table has been deleted and the library closed
Dangling    == "dangling"

\* A function of another name than these, of which two have wrappers unlike all others.
ASSUME PlainAssumption ==
  \A t \in Tables :
    Plain[t] \intersect {NullPointer, Dangling, "LibFunctionException", "SQLFreeHandle", "SQLGetData"} = {}

-----------------------------------------------------------------------------
\* The functions with a wrapper: those that the operations below call, and the
\* others, whose wrappers are all alike.
SdiWrapped ==
  {"SDISetDbcOption", "SDIAllocEnv", "SDIDeallocEnv", "SDIAllocDbc", "SDIDeallocDbc", "SDIConnect", "SDIDisconnect"}
    \union Plain["SDIDrv"]
SqliteWrapped == {"sqlite3_open_v2", "sqlite3_close"} \union Plain["SQLite3Drv"]
OdbcWrapped   ==
  {"SQLAllocHandle", "SQLFreeHandle", "SQLSetEnvAttr", "SQLConnectA", "SQLConnectW", "SQLDriverConnectA",
   "SQLDriverConnectW", "SQLDisconnect", "SQLGetInfoW", "SQLGetData", "SQLNumResultCols"} \union Plain["ODBC30Drv"]
FbWrapped == {"isc_attach_database", "isc_detach_database"} \union Plain["FBClientDrv"]
Wrapped(t) ==
  CASE t = "SDIDrv" -> SdiWrapped [] t = "SQLite3Drv" -> SqliteWrapped
    [] t = "ODBC30Drv" -> OdbcWrapped [] t = "FBClientDrv" -> FbWrapped

\* What ODBC's constructor never looks up, and what Firebird's wrappers are declared for
\* and not defined.
SdiMembers    == SdiWrapped
SqliteMembers == SqliteWrapped \union Bare["SQLite3Drv"]
OdbcMembers   == OdbcWrapped \union Bare["ODBC30Drv"]
FbMembers     == FbWrapped \union Bare["FBClientDrv"]

\* What the initializers leave, before the library is searched.
SdiInitial    == [m \in SdiMembers |-> NullPointer]
SqliteInitial == [m \in SqliteMembers |-> NullPointer]
OdbcInitial   == [m \in OdbcMembers |-> NullPointer]
FbInitial     == [m \in FbMembers |-> NullPointer]
Initial(t) ==
  CASE t = "SDIDrv" -> SdiInitial [] t = "SQLite3Drv" -> SqliteInitial
    [] t = "ODBC30Drv" -> OdbcInitial [] t = "FBClientDrv" -> FbInitial

\* The names getproc() is called with.
SdiLoads    == SdiMembers
SqliteLoads == SqliteMembers
OdbcLoads   == OdbcWrapped
FbLoads     == FbMembers
Loads(t) ==
  CASE t = "SDIDrv" -> SdiLoads [] t = "SQLite3Drv" -> SqliteLoads
    [] t = "ODBC30Drv" -> OdbcLoads [] t = "FBClientDrv" -> FbLoads

-----------------------------------------------------------------------------

VARIABLES
  driver,      \* the table of this engine
  lacks,       \* what its library does not export
  opens,       \* dlopen() finds the library
  entries,     \* the members of the table, or NoTable
  asserts,     \* the build checks assertions
  env, dbc,    \* "none", "alive" or "deleted"
  handles,     \* what the library has given out: "env", "dbc", and "lost", which no member has
  m_isConnected,
  erred,       \* history: the library has failed at something it could have done
  early,       \* history: the environment went before its connection
  called,      \* the last call of the program: the function, and what was reached
  made,        \* the last environment asked for, and what was given
  failure      \* how the program ended: "none" if it did not, "abort", "undefined"

tableVars  == <<driver, lacks, opens, asserts>>
handleVars == <<handles, m_isConnected, erred>>
driverVars == <<tableVars, entries, env, dbc, handleVars, early, called, made, failure>>

NothingMade == [dbms |-> "none"]
NoCall == [name |-> "none", reached |-> "none"]

\* dlsym(): with no library it searches the program, which has none of the
\* functions (glibc takes the handle 0 for the global scope).
addrofsymbol(name) == IF opens /\ name \notin lacks THEN name ELSE NullPointer

\* The members as the constructor leaves them.
getproc(t) == [m \in DOMAIN Initial(t) |-> IF m \in Loads(t) THEN addrofsymbol(m) ELSE Initial(t)[m]]

\* The member a wrapper tests is that of its function, but for two.
OdbcGuard(name) ==
  CASE name = "SQLFreeHandle" -> "SQLConnectA"
    [] name = "SQLGetData" -> "SQLNumResultCols"
    [] OTHER -> name
Guard_NextMember(name) == IF name = "isc_detach_database" THEN "isc_attach_database" ELSE OdbcGuard(name)
Guard(name) == OdbcGuard(name)

\* What a call of a wrapper reaches.
Reached(table, name) ==
  CASE table = NoTable -> Dangling
    [] table # NoTable /\ table[Guard(name)] = NullPointer -> "LibFunctionException"
    [] OTHER -> table[name]
Answers(table, name) == Reached(table, name) = name

-----------------------------------------------------------------------------
(* What an operation comes to: the handles, and how it ended.              *)

World == [handles |-> handles, m_isConnected |-> m_isConnected, erred |-> erred, end |-> "returns"]

Done(w)      == {w}
Ends(w, how) == {[w EXCEPT !.end = how]}
Raises(w)    == Ends(w, "throws")

\* A member takes a handle; the one it had is lost.
Loses(w, h) == [w EXCEPT !.handles = IF h \in @ THEN (@ \ {h}) \union {"lost"} ELSE @]
Takes(w, h) == [Loses(w, h) EXCEPT !.handles = @ \union {h}]
Frees(w, h) == [w EXCEPT !.handles = @ \ {h}]

NowConnected(w) == [w EXCEPT !.m_isConnected = TRUE]
NotConnected(w) == [w EXCEPT !.m_isConnected = FALSE]

\* It has failed at what it can do.
Failing(w) == [w EXCEPT !.erred = TRUE]

\* A call through a wrapper: the library does what is asked, if it can, or reports an error.
Outcomes(table, name, w, succeeded, failed) ==
  CASE Answers(table, name) -> succeeded \union failed
    [] Reached(table, name) = "LibFunctionException" -> Raises(w)
    [] OTHER -> Ends(w, "undefined")
Calling(table, name, can, w, Succeeds(_), Fails(_)) ==
  Outcomes(table, name, w, IF can THEN Succeeds(w) ELSE {}, Fails(IF can THEN Failing(w) ELSE w))

\* assert(FALSE)
Asserted(w, GoesOn(_)) == IF asserts THEN Ends(w, "abort") ELSE GoesOn(w)

AndThen(outcomes, Step(_)) == UNION {IF w.end = "returns" THEN Step(w) ELSE {w} : w \in outcomes}

\* An exception that leaves a destructor ends the program.
InDestructor(w) == IF w.end = "throws" THEN [w EXCEPT !.end = "abort"] ELSE w

\* The histories tell of the last step only.
Forget == made' = NothingMade /\ called' = NoCall

Settle(w) ==
  /\ handles' = w.handles /\ m_isConnected' = w.m_isConnected /\ erred' = w.erred
  /\ failure' = IF w.end \in {"returns", "throws"} THEN "none" ELSE w.end

-----------------------------------------------------------------------------
(* The environment                                                         *)

\* A text is a sequence of the parts and colons.
TextFor(p) ==
  (IF p.engine = "" THEN <<>> ELSE <<p.engine, ":">>) \o (IF p.driver = "" THEN <<>> ELSE <<p.driver>>)
  \o (IF p.lib = <<>> THEN <<>> ELSE <<":">> \o p.lib)

Colon(text)  == SelectInSeq(text, LAMBDA part : part = ":")   \* 0: there is none
UpToColon(text) == SubSeq(text, 1, Colon(text) - 1)
BehindColon(text) == SubSeq(text, Colon(text) + 1, Len(text))

\* A bug: the library is what follows the last colon.
parse_driver_LastColon(text) ==
  LET rest == BehindColon(text)
      last == Len(rest) + 1 - Colon(Reverse(rest))
  IN  [engine |-> IF Colon(text) = 0 THEN <<>> ELSE UpToColon(text),
       driver |-> IF Colon(rest) = 0 THEN rest ELSE SubSeq(rest, 1, last - 1),
       lib    |-> IF Colon(rest) = 0 THEN <<>> ELSE SubSeq(rest, last + 1, Len(rest))]

\* Without a colon the whole text is the driver, the library is all that
\* follows the second one.
parse_driver(text) ==
  LET rest == BehindColon(text)
  IN  [engine |-> IF Colon(text) = 0 THEN <<>> ELSE UpToColon(text),
       driver |-> IF Colon(rest) = 0 THEN rest ELSE UpToColon(rest),
       lib    |-> IF Colon(rest) = 0 THEN <<>> ELSE BehindColon(rest)]

\* createEnv() of the engines only looks at the driver, SDI's at the library too.
SqliteEnvOf(text)   == IF parse_driver(text).driver = <<"libsqlite">> THEN "SQLite3Drv" ELSE "EngineException"
OdbcEnvOf(text)     == IF parse_driver(text).driver = <<"libodbc">> THEN "ODBC30Drv" ELSE "EngineException"
FirebirdEnvOf(text) == IF parse_driver(text).driver = <<"libfbclient">> THEN "FBClientDrv" ELSE "EngineException"
SdiEnvOf(text) ==
  IF parse_driver(text).driver = <<"libsdi">> /\ parse_driver(text).lib # <<>> THEN "SDIDrv" ELSE "EngineException"

EnvOf(dbms, text) ==
  CASE dbms = "sqlite" -> SqliteEnvOf(text) [] dbms = "odbc" -> OdbcEnvOf(text)
    [] dbms = "firebird" -> FirebirdEnvOf(text) [] dbms = "sdi" -> SdiEnvOf(text)
    [] OTHER -> "EngineException"

\* The generic engine goes by the engine of the text.
createEnv(dbms, text) ==
  LET named == parse_driver(text).engine
  IN  IF dbms # "generic" THEN EnvOf(dbms, text)
      ELSE IF named = <<>> THEN "EngineException" ELSE EnvOf(Head(named), text)

OdbcVersionSet(table, w) ==
  Calling(table, "SQLSetEnvAttr", "env" \in w.handles, w, Done, LAMBDA v : Asserted(v, Done))
OdbcEnvMade(table) ==
  Calling(table, "SQLAllocHandle", TRUE, World, LAMBDA w : OdbcVersionSet(table, Takes(w, "env")),
          LAMBDA w : Asserted(w, LAMBDA v : OdbcVersionSet(table, v)))

\* The result is not looked at.
SdiEnvMade(table) == Calling(table, "SDIAllocEnv", TRUE, World, LAMBDA w : {Takes(w, "env")}, Done)

EnvMade(table) ==
  CASE driver = "ODBC30Drv" -> OdbcEnvMade(table) [] driver = "SDIDrv" -> SdiEnvMade(table) [] OTHER -> {World}

\* What the constructor throws destroys the table, but not a handle that was allocated.
\* (A text that is refused leaves nothing behind, so that one of them is enough.)
NewEnv(dbms, asked) ==
  /\ env = "none" /\ made = NothingMade
  /\ made' = [dbms |-> dbms, asked |-> asked, given |-> createEnv(dbms, TextFor(asked)),
               opened |-> parse_driver(TextFor(asked)).lib]
  /\ \/ made'.given = "EngineException" /\ UNCHANGED <<env, entries, handleVars, failure>>
     \/ /\ made'.given = driver
        /\ \E w \in EnvMade(getproc(driver)) :
             /\ Settle(w)
             /\ IF w.end = "returns" THEN env' = "alive" /\ entries' = getproc(driver)
                                     ELSE env' = "deleted" /\ entries' = NoTable
  /\ UNCHANGED <<tableVars, dbc, early, called>>

\* With a connection left SQLFreeHandle() fails, and the assertion with it.
EnvReleased ==
  CASE driver = "ODBC30Drv" ->
         Calling(entries, "SQLFreeHandle", "env" \in handles /\ "dbc" \notin handles, World,
                 LAMBDA w : {Frees(w, "env")}, LAMBDA w : Asserted(w, Done))
    [] driver = "SDIDrv" /\ "env" \in handles ->
         Calling(entries, "SDIDeallocEnv", TRUE, World, LAMBDA w : {Frees(w, "env")}, Done)
    [] OTHER -> {World}

\* The table goes with the environment.
DeleteEnv ==
  /\ env = "alive"
  /\ env' = "deleted" /\ entries' = NoTable /\ early' = (dbc = "alive")
  /\ \E w \in EnvReleased : Settle(InDestructor(w))
  /\ Forget
  /\ UNCHANGED <<tableVars, dbc>>

-----------------------------------------------------------------------------
(* A connection.  (Its statements and transactions are those of the        *)
(* modules of the engines; here it has none.)                              *)

\* ODBC has the handle from the constructor on.
OdbcDbcMade(w) ==
  Calling(entries, "SQLAllocHandle", "env" \in w.handles, w,
          LAMBDA v : {Takes(v, "dbc")}, LAMBDA v : Asserted(v, Done))
DbcMade ==
  IF driver # "ODBC30Drv" THEN {World}
  ELSE IF "env" \in handles THEN OdbcDbcMade(World) ELSE Asserted(World, OdbcDbcMade)

NewDbc ==
  /\ dbc = "none" /\ env = "alive"
  /\ \E w \in DbcMade : Settle(w) /\ dbc' = IF w.end = "returns" THEN "alive" ELSE "none"
  /\ Forget
  /\ UNCHANGED <<tableVars, entries, env, early>>

\* An option may be refused first; then what the driver says of itself is read.
OdbcInfoRead(w) == Calling(entries, "SQLGetInfoW", TRUE, NowConnected(w), Done, Raises)
OdbcTries(w, f) == Calling(entries, f, "dbc" \in w.handles, w, OdbcInfoRead, Raises)
OdbcTriesBoth(w, f, g) ==
  Calling(entries, f, "dbc" \in w.handles, w, OdbcInfoRead, LAMBDA v : OdbcTries(v, g))
OdbcAttempts(w) ==
  Raises(w) \union OdbcTriesBoth(w, "SQLConnectW", "SQLDriverConnectW")
            \union OdbcTriesBoth(w, "SQLConnectA", "SQLDriverConnectA")
OdbcConnects == IF "dbc" \in handles THEN OdbcAttempts(World) ELSE Asserted(World, OdbcAttempts)

\* A connection that fails keeps the handle, so that the next attempt meets
\* assert(m_dbh == 0).
SdiOpens(w)     == Calling(entries, "SDIConnect", TRUE, w, LAMBDA v : {NowConnected(v)}, Raises)
SdiOptionSet(w) == Calling(entries, "SDISetDbcOption", TRUE, w, SdiOpens, SdiOpens)
SdiAllocates(w) == Calling(entries, "SDIAllocDbc", TRUE, w, LAMBDA v : SdiOptionSet(Takes(v, "dbc")), Raises)
SdiConnects     == IF "dbc" \notin handles THEN SdiAllocates(World) ELSE Asserted(World, SdiAllocates)

\* A file that cannot be opened leaves a handle all the same, or none if there
\* is no memory.
SqliteConnects ==
  Calling(entries, "sqlite3_open_v2", TRUE, World, LAMBDA w : {NowConnected(Takes(w, "dbc"))},
          LAMBDA w : Raises(Takes(w, "dbc")) \union Raises(Loses(w, "dbc")))

FirebirdConnects ==
  Calling(entries, "isc_attach_database", "dbc" \notin handles, World,
          LAMBDA w : {NowConnected(Takes(w, "dbc"))}, Raises)

Connects ==
  CASE driver = "ODBC30Drv" -> OdbcConnects [] driver = "SDIDrv" -> SdiConnects
    [] driver = "SQLite3Drv" -> SqliteConnects [] driver = "FBClientDrv" -> FirebirdConnects

\* The program connects a connection that is not connected.
ConnectDbc ==
  /\ dbc = "alive" /\ ~m_isConnected
  /\ \E w \in Connects : Settle(w)
  /\ Forget
  /\ UNCHANGED <<tableVars, entries, env, dbc, early>>

OdbcDisconnects ==
  IF "dbc" \in handles /\ m_isConnected
  THEN Calling(entries, "SQLDisconnect", TRUE, World, LAMBDA w : {NotConnected(w)}, Raises) ELSE {World}

SdiFreesDbc(w) == Calling(entries, "SDIDeallocDbc", TRUE, w, LAMBDA v : {Frees(v, "dbc")}, Done)
SdiDisconnects ==
  IF "dbc" \in handles
  THEN Calling(entries, "SDIDisconnect", TRUE, World, LAMBDA w : SdiFreesDbc(NotConnected(w)), Raises) ELSE {World}

SqliteDisconnects ==
  IF "dbc" \in handles
  THEN Calling(entries, "sqlite3_close", TRUE, World, LAMBDA w : {NotConnected(Frees(w, "dbc"))}, Raises) ELSE {World}

FirebirdDisconnects ==
  IF "dbc" \in handles
  THEN Calling(entries, "isc_detach_database", TRUE, World, LAMBDA w : {NotConnected(Frees(w, "dbc"))}, Raises)
  ELSE {World}

Disconnects ==
  CASE driver = "ODBC30Drv" -> OdbcDisconnects [] driver = "SDIDrv" -> SdiDisconnects
    [] driver = "SQLite3Drv" -> SqliteDisconnects [] driver = "FBClientDrv" -> FirebirdDisconnects

DisconnectDbc ==
  /\ dbc = "alive"
  /\ \E w \in Disconnects : Settle(w)
  /\ Forget
  /\ UNCHANGED <<tableVars, entries, env, dbc, early>>

\* ~Dbc disconnects; ODBC then frees the handle.
OdbcFreesDbc(w) ==
  Calling(entries, "SQLFreeHandle", "dbc" \in w.handles, w, LAMBDA v : {Frees(v, "dbc")}, LAMBDA v : Asserted(v, Done))
DbcReleased == IF driver = "ODBC30Drv" THEN AndThen(Disconnects, OdbcFreesDbc) ELSE Disconnects

DeleteDbc ==
  /\ dbc = "alive"
  /\ dbc' = "deleted"
  /\ \E w \in DbcReleased : Settle(InDestructor(w))
  /\ Forget
  /\ UNCHANGED <<tableVars, entries, env, early>>

\* Any other call an engine makes through its pointer to the table.
Call(name) ==
  /\ dbc = "alive"
  /\ called' = [name |-> name, reached |-> Reached(entries, name)]
  /\ failure' = IF called'.reached \in {Dangling, NullPointer} THEN "undefined" ELSE failure
  /\ made' = NothingMade
  /\ UNCHANGED <<tableVars, entries, env, dbc, handleVars, early>>

DriverInit ==
  /\ driver \in Tables /\ opens \in BOOLEAN /\ asserts \in BOOLEAN
  /\ lacks \in {m \in Missing : m \subseteq Loads(driver) /\ (m = {} \/ opens)}
  /\ entries = NoTable /\ env = "none" /\ dbc = "none" /\ handles = {}
  /\ m_isConnected = FALSE /\ erred = FALSE /\ early = FALSE
  /\ called = NoCall /\ made = NothingMade /\ failure = "none"

DriverNext ==
  /\ failure = "none"
  /\ \/ \E dbms \in DBMSs \union {"generic"}, asked \in Asked : NewEnv(dbms, asked)
     \/ DeleteEnv
     \/ NewDbc \/ ConnectDbc \/ DisconnectDbc \/ DeleteDbc
     \/ \E name \in Wrapped(driver) : Call(name)

DriverSpec == DriverInit /\ [][DriverNext]_driverVars

-----------------------------------------------------------------------------

\* The two wrappers of ODBC that test the member of another function.
Misguarded == {name \in OdbcLoads : OdbcGuard(name) # name}

\* While the environment lives, every call through its table reaches the
\* library's function of that name or throws LibFunctionException because the
\* library has none: never a null pointer, never another function.  (The two
\* ODBC wrappers that test another member are left out: they can call a null
\* pointer, and can throw for a function the library has.)
CallsReach ==
  (called # NoCall /\ env = "alive" /\ called.name \notin Misguarded) =>
    called.reached = IF opens /\ called.name \notin lacks THEN called.name ELSE "LibFunctionException"

\* Released in the order in which they depend on one another, a connection and its
\* environment give back every handle the library gave them, whatever was thrown on
\* the way, and no call and no destructor ends the program: only an environment that
\* goes before its connection does that.  (Except: a library that lacks a function,
\* and one that fails at something it could have done.)
HandlesReleased ==
  (opens /\ lacks = {} /\ ~erred) =>
    /\ (failure # "none" => early)
    /\ (failure = "none" /\ env = "deleted" /\ dbc # "alive" => handles = {})

\* A text that names an engine and a driver of it gives this engine's environment
\* with the library it names, from the generic engine and from the engine itself, whatever
\* colons the name of the library has; every other text of the generic engine is refused, so that what
\* follows the first colon is never taken for an engine.
TableOf == [sqlite |-> "SQLite3Drv", odbc |-> "ODBC30Drv", firebird |-> "FBClientDrv", sdi |-> "SDIDrv"]
EngineAsNamed ==
  made # NothingMade =>
    LET p    == made.asked
        fits == /\ p.driver \in DOMAIN EngineOfDriver /\ p.engine = EngineOfDriver[p.driver]
                /\ (p.engine = "sdi" => p.lib # <<>>)
    IN  /\ fits /\ made.dbms \in {"generic", p.engine} => made.given = TableOf[p.engine] /\ made.opened = p.lib
        /\ ~fits /\ made.dbms = "generic" => made.given = "EngineException"
        /\ p.driver = "" => made.given = "EngineException"

DriverSound == CallsReach /\ HandlesReleased /\ EngineAsNamed
=============================================================================
