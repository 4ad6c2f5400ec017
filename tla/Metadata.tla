----------------------------- MODULE Metadata -----------------------------
(***************************************************************************)
(* The listings of catalogs, schemas, tables and columns that the engines  *)
(* make of the server's system tables: class ...Metadata, and the lists of *)
(* ...Dbc that SQLite alone can read.  A listing runs several statements,  *)
(* each of which sees the server at the moment it is executed, while other *)
(* clients create and drop tables.  Every row passes through a record set  *)
(* of its own, tmp, on which the client's filter is called.                *)
(*                                                                         *)
(* An object of the server is its space (a database of SQLite, a schema of *)
(* the others), its sort and its name.  A table stands for its columns     *)
(* too: a row for a column holds the table it belongs to.                  *)
(***************************************************************************)
EXTENDS RecordSetOps

CONSTANTS
  Universe,   \* by engine, the objects that may exist
  Attached,   \* the databases attached to the SQLite connection, in order
  Unquotable, \* names that no statement can hold without quotes
  Patterns,   \* pairs: the pattern of an ODBC search, what it matches besides
  Null,
  MaxChanges  \* bound of the model: what other clients create and drop

SystemTables == {"sqlite_master", "sqlite_temp_master"}

ASSUME NullAssumption == Null \notin STRING
ASSUME AttachedAssumption ==
  /\ Attached \in Seq(STRING \ {"main", "temp"})
  /\ \A i, j \in DOMAIN Attached : Attached[i] = Attached[j] => i = j
\* SQLite has no object outside its databases, and keeps the names of its own
\* tables to itself; the engine of SDI takes every object for a table.
ASSUME UniverseAssumption ==
  /\ DOMAIN Universe = {"sqlite", "odbc", "firebird", "sdi"}
  /\ \A o \in Universe["sqlite"] :
       /\ o.space \in {"main", "temp"} \union {Attached[i] : i \in DOMAIN Attached}
       /\ o.name \notin SystemTables
  /\ \A o \in Universe["sdi"] : o.sort = "table"

VARIABLES
  source,     \* the engine
  kind,       \* what the client has listed
  asked,      \* the arguments: schema, table, class of objects, and the table a TableFilter wants
  objects,    \* what the server has
  stage,      \* what is being listed: for columns it is the tables at first
  todo,       \* statements to execute, in order
  rows,       \* the rows of the current statement that are left
  tmp, listed,\* the record sets tmp and rs
  list,       \* the list that a method of ...Dbc fills
  answer,     \* what the listing gave
  through,    \* history: the objects that were there all the time
  seen,       \* history: those that were there at some time
  skipped,    \* history: the spaces the server did not tell of
  changes     \* number of changes

metadataVars ==
  <<source, kind, asked, objects, stage, todo, rows, tmp, listed, list, answer, through, seen, skipped, changes>>

CatalogColumns == <<"CATALOG_NAME", "COMMENT">>
SchemaColumns  == <<"CATALOG_NAME", "SCHEMA_NAME", "COMMENT">>
TableColumns   == <<"CATALOG_NAME", "SCHEMA_NAME", "TABLE_NAME", "TABLE_TYPE", "COMMENT">>
ColumnColumns  == <<"CATALOG_NAME", "SCHEMA_NAME", "TABLE_NAME", "COLUMN_NAME", "COLUMN_TYPE", "TYPE_NAME",
                    "COLUMN_SIZE", "NULLABLE", "ORDINAL_POSITION", "COMMENT">>

\* The lists of ...Dbc, and the sorts of objects in them.
DbcLists == {"TableList", "IndexList", "ViewList", "CatalogList"}

Header(k) == CASE k \in {"catalogs", "CatalogList"} -> CatalogColumns
               [] k = "schemas" -> SchemaColumns
               [] k = "columns" -> ColumnColumns
               [] OTHER         -> TableColumns

\* The set rs that a listing begins with: its columns are described, no row yet.
Described(k) ==
  LET counted == CHOOSE o \in RsSetColumnCount(RecordSetInit, Len(Header(k))) : TRUE
  IN  [counted.rs EXCEPT !.m_column_descriptors = Header(k)]

Opened(set) == (CHOOSE o \in RsOpen(set) : TRUE).rs

-----------------------------------------------------------------------------
(* What the server's system tables hold.                                   *)

Tables(sorts) == {o \in objects : o.sort \in sorts}

\* temp is one of the databases once it has something in it.
Databases ==
  (IF \E o \in objects : o.space = "temp" THEN <<"main", "temp">> ELSE <<"main">>) \o Attached

SystemObjects == [space : {"main"}, sort : {"system"}, name : SystemTables]

\* The rank of a database when a name is looked up: temporary objects first.
Rank(db) ==
  CASE db = "temp" -> 0 [] db = "main" -> 1 [] OTHER -> 1 + CHOOSE i \in DOMAIN Attached : Attached[i] = db

\* The table that its name alone means.
Meaning(name) ==
  LET named == {o \in Tables({"table", "view"}) : o.name = name}
  IN  {o \in named : \A p \in named : Rank(o.space) <= Rank(p.space)}
        \union {o \in SystemObjects : o.name = name}

\* An argument of an ODBC catalog function is a pattern.
Matches(pattern, name) == pattern = Null \/ pattern = name \/ <<pattern, name>> \in Patterns

-----------------------------------------------------------------------------
(* A listing is a sequence of statements.  For every one the engine's      *)
(* method says which rows the server answers with: what it fills into them *)
(* by itself is included, what it leaves out is NULL, and a statement ""   *)
(* is no statement, only rows.                                             *)

Statement(text, arg) == [text |-> text, arg |-> arg]
Once(text)           == <<Statement(text, Null)>>

\* getCurrentCatalog(): only ODBC asks the server.
Current == IF source = "odbc" THEN "current" ELSE Null

TableRow(space, schema, name) == <<space, schema, name, "TABLE", Null>>

\* COLUMN_NAME: the table that the column really is in.
ColumnRow(o, schema) == <<Current, schema, o.name, o, Null, Null, Null, Null, Null, Null>>

SchemaRow(schema) == <<Current, schema, Null>>
CatalogRow(name)  == <<name, Null>>

(* SQLite *)

SqliteCatalogs == {CatalogRow(Databases[i]) : i \in DOMAIN Databases}
SqliteSchemas  == {SchemaRow("DEFAULT")}

InDatabase(db, sort) == {TableRow(db, Null, o.name) : o \in {p \in Tables({sort}) : p.space = db}}

\* The tables of a database, with those that the database does not list itself.
SqliteTables(s) ==
  CASE s.text = "PRAGMA database_list" -> {}
    [] s.text = "sqlite_master" ->
         InDatabase(s.arg, "table") \union {TableRow(s.arg, Null, name) : name \in SystemTables}
    [] s.text = "sqlite_temp_master" -> InDatabase("temp", "table")

\* Without its database, the name of a table means the first table of the name.
SqliteColumns(s) == {ColumnRow(o, "DEFAULT") : o \in Meaning(s.arg)}

\* The lists of objects of SqliteDbc, each object with what its getters answer.
SqliteTable(row)   == [name |-> row[3], catalog |-> row[1], schema |-> Null, system |-> row[3] \in SystemTables]
SqliteIndex(row)   == [name |-> row[3], catalog |-> row[1], schema |-> Null, system |-> FALSE]
SqliteView(row)    == SqliteIndex(row)
SqliteCatalog(row) == [name |-> row[1], system |-> FALSE]

SqliteTableList(s)  == {SqliteTable(row) : row \in SqliteTables(s)}
SqliteIndexList(s)  ==
  IF s.text = "PRAGMA database_list" THEN {} ELSE {SqliteIndex(row) : row \in InDatabase(s.arg, "index")}
SqliteViewList(s)   ==
  IF s.text = "PRAGMA database_list" THEN {} ELSE {SqliteView(row) : row \in InDatabase(s.arg, "view")}
SqliteCatalogList   == {SqliteCatalog(row) : row \in SqliteCatalogs}

(* ODBC.  The lists of OdbcDbc execute statements of SQLite. *)

OdbcLists == {"TableList", "IndexList", "ViewList", "CatalogList"}

OdbcCatalogs == {CatalogRow(Current)}
OdbcSchemas  == {SchemaRow(o.space) : o \in objects}

OdbcTables ==
  LET types == CASE asked.class = "SYSTEM" -> {"system"}
                 [] asked.class = "USER"   -> {"table"}
                 [] OTHER                  -> {"table", "system"}
  IN  {TableRow(Current, o.space, o.name) : o \in {p \in Tables(types) : Matches(asked.schema, p.space)}}

OdbcColumns ==
  {ColumnRow(o, o.space) : o \in {p \in Tables({"table", "view", "system"}) :
                                      Matches(asked.schema, p.space) /\ Matches(asked.table, p.name)}}

(* Firebird, whose lists are those of SQLite too *)

FirebirdLists == {"TableList", "IndexList", "ViewList", "CatalogList"}

FirebirdCatalogs == {CatalogRow(Current)}
FirebirdSchemas  == {SchemaRow(Null)}
FirebirdTables   == {TableRow(Null, Null, o.name) : o \in Tables({"table", "view"})}
FirebirdColumns  ==
  {ColumnRow(o, Null) : o \in {p \in Tables({"table", "view", "system"}) : asked.table \in {Null, p.name}}}

(* SDI, which lists its tables and has copied the other lists *)

SDITable(row) == [name |-> row[3], catalog |-> row[1], schema |-> row[2], system |-> FALSE]
SdiLists     == {"IndexList", "ViewList", "CatalogList"}
SdiTableList == {SDITable(TableRow("", o.space, o.name)) : o \in Tables({"table"})}

SdiCatalogs == {CatalogRow(Current)}

\* A map of the schemas that objects are in, and of DEFAULT.
SdiSchemas == {SchemaRow(x) : x \in {"DEFAULT"} \union {o.space : o \in Tables({"table"})}}

\* A table without a schema is in DEFAULT.
SdiTables(schema) ==
  {TableRow(Current, o.space, o.name) :
     o \in {p \in Tables({"table"}) : schema \in {Null, IF p.space = Null THEN "DEFAULT" ELSE p.space}}}

SdiColumns(s) ==
  {ColumnRow(o, "DEFAULT") :
     o \in {p \in Tables({"table"}) : p.name = s.arg /\ asked.schema \in {Null, p.space}}}

\* The lists that execute another server's statements.
Copied ==
  CASE source = "odbc" -> OdbcLists [] source = "firebird" -> FirebirdLists
    [] source = "sdi" -> SdiLists [] OTHER -> {}

-----------------------------------------------------------------------------
(* The engines' statements, in the order they are executed in.             *)

EveryDatabase ==
  [i \in DOMAIN Databases |-> Statement("sqlite_master", Databases[i])]

\* The temporary tables are left to database_list.
SqliteStatements_NoTemp == Once("PRAGMA database_list") \o EveryDatabase

SqliteStatements ==
  Once("PRAGMA database_list") \o
  CASE stage \in {"catalogs", "CatalogList"} -> <<>>
    [] stage = "ViewList"                    -> EveryDatabase
    [] OTHER -> EveryDatabase \o <<Statement("sqlite_temp_master", "temp")>>

Statements ==
  IF stage \in Copied \/ (source = "sqlite" /\ stage # "schemas") THEN SqliteStatements
  ELSE Once(CASE source = "odbc"     -> IF stage = "columns" THEN "SQLColumns" ELSE "SQLTables"
              [] source = "firebird" -> (CASE stage = "tables" -> "RDB$RELATIONS"
                                           [] stage = "columns" -> "RDB$RELATION_FIELDS" [] OTHER -> "")
              [] source = "sdi"      -> IF stage = "catalogs" THEN "" ELSE "SDIOpenObjects"
              [] OTHER               -> "")

\* getColumns() of SQLite and SDI: a statement for each of the listed tables,
\* the set `tables` of the code, and none for those not asked for.
ColumnStatements ==
  LET tables       == listed.m_records
      asksFor(row) == /\ asked.table \in {Null, row[3]}
                      /\ asked.schema = Null \/ source = "sqlite" \/ row[2] \in {Null, asked.schema}
      text         == IF source = "sqlite" THEN "PRAGMA table_info" ELSE "SDIOpenColumns"
  IN  [i \in DOMAIN tables |-> Statement(IF asksFor(tables[i]) THEN text ELSE "", tables[i][3])]

RowsOf(s) ==
  CASE source = "sqlite"   ->
         (CASE stage = "catalogs" -> SqliteCatalogs [] stage = "CatalogList" -> SqliteCatalogList
            [] stage = "schemas"   -> SqliteSchemas
            [] stage = "tables"    -> SqliteTables(s)
            [] stage = "columns"   -> IF s.text = "" THEN {} ELSE SqliteColumns(s)
            [] stage = "TableList" -> SqliteTableList(s)
            [] stage = "IndexList" -> SqliteIndexList(s)
            [] stage = "ViewList"  -> SqliteViewList(s))
    [] source = "odbc"     ->
         (CASE stage = "catalogs" -> OdbcCatalogs [] stage = "schemas" -> OdbcSchemas
            [] stage = "tables" -> OdbcTables [] stage = "columns" -> OdbcColumns)
    [] source = "firebird" ->
         (CASE stage = "catalogs" -> FirebirdCatalogs [] stage = "schemas" -> FirebirdSchemas
            [] stage = "tables" -> FirebirdTables [] stage = "columns" -> FirebirdColumns)
    [] source = "sdi"      ->
         (CASE stage = "catalogs" -> SdiCatalogs [] stage = "schemas" -> SdiSchemas
            [] stage = "tables" -> SdiTables(IF kind = "tables" THEN asked.schema ELSE Null)
            [] stage = "columns" -> (IF s.text = "" THEN {} ELSE SdiColumns(s))
            [] stage = "TableList" -> SdiTableList)

\* SQLite cannot read a name without quotes, nobody else the tables of SQLite,
\* and SDI's getSchemas() no object without a schema.
MustFail(s) ==
  \/ s.text = "PRAGMA table_info" /\ s.arg \in Unquotable
  \/ stage \in Copied
  \/ source = "sdi" /\ stage = "schemas" /\ SchemaRow(Null) \in SdiSchemas

-----------------------------------------------------------------------------
(* A row on its way: alone in tmp, shown to the filter, inserted in rs.    *)

Step(set, row, cleared) ==
  LET open  == UNION {RsOpen(o.rs) : o \in cleared}
      full  == UNION {RsInsert(o.rs, row) : o \in open}
  IN  UNION {IF o.ret = Ok THEN RsFirst(o.rs) ELSE {o} : o \in full}

\* tmp keeps the rows of before.
Show_NotCleared(set, row) == Step(set, row, RsClose(set))
Show(set, row)            == Step(set, row, UNION {RsClear(o.rs) : o \in RsClose(set)})

\* TableFilter: a set without TABLE_NAME has no such column.
TableFilter(set, name) ==
  UNION {IF id.ret = Throw THEN {Throw}
         ELSE {IF c.ret = Throw THEN Throw ELSE Bool(c.ret = Value(name)) : c \in RsColumn(set, id.ret[2])} :
           id \in RsColumnID(set, "TABLE_NAME")}

\* The listing that another one begins with has no filter, and the rows that
\* Firebird knows by itself do not pass one.
Filter(set) ==
  IF asked.filter = Null \/ stage # kind \/ (source = "firebird" /\ stage \in {"catalogs", "schemas"})
  THEN {Yes} ELSE TableFilter(set, asked.filter)

-----------------------------------------------------------------------------
Arguments(e, k) ==
  {a \in [schema : {Null, "s"}, table : {Null, "t"}, class : {"USER", "SYSTEM", "ALL"}, filter : {Null, "t"}] :
     /\ a.schema # Null => e \in {"odbc", "sdi"} /\ k \in {"tables", "columns"}
     /\ a.table # Null  => k = "columns"
     /\ a.class # "USER" => e = "odbc" /\ k = "tables"
     /\ a.filter # Null => k \notin DbcLists}

MetadataInit ==
  /\ source \in DOMAIN Universe
  /\ kind \in {"catalogs", "schemas", "tables", "columns"} \union DbcLists
  /\ asked \in Arguments(source, kind)
  /\ objects \in SUBSET Universe[source]
  /\ stage = IF kind = "columns" /\ source \in {"sqlite", "sdi"} THEN "tables" ELSE kind
  /\ todo = Statements
  /\ rows = {}
  /\ tmp = Described(stage) /\ listed = Opened(Described(stage)) /\ list = <<>>
  /\ answer = None
  /\ through = objects /\ seen = objects /\ skipped = {} /\ changes = 0

Listing == answer = None

history == <<through, seen, changes>>
request == <<source, kind, asked>>

executes ==
  /\ Listing /\ rows = {} /\ todo # <<>>
  /\ ~MustFail(Head(todo))
  /\ rows' = RowsOf(Head(todo))
  /\ todo' = Tail(todo)
  /\ UNCHANGED <<request, objects, stage, tmp, listed, list, answer, skipped, history>>

\* SQLSTATE 42000: the database is left out.
skipsDatabase ==
  /\ Listing /\ rows = {} /\ todo # <<>> /\ source = "sqlite"
  /\ Head(todo).text = "sqlite_master"
  /\ skipped' = skipped \union {Head(todo).arg}
  /\ todo' = Tail(todo)
  /\ UNCHANGED <<request, objects, stage, rows, tmp, listed, list, answer, history>>

\* HYC00: a driver without schemas has one, NULL.
hasNoSchemas ==
  /\ Listing /\ rows = {} /\ todo # <<>> /\ source = "odbc" /\ stage = "schemas"
  /\ skipped' = {o.space : o \in Universe[source]}
  /\ rows' = {SchemaRow(Null)}
  /\ todo' = <<>>
  /\ UNCHANGED <<request, objects, stage, tmp, listed, list, answer, history>>

\* A failing SDIFetch looks like the end of the rows.
losesRows ==
  /\ Listing /\ rows # {} /\ source = "sdi" /\ stage # "catalogs"
  /\ rows' = {}
  /\ skipped' = {o.space : o \in Universe[source]}
  /\ UNCHANGED <<request, objects, stage, todo, tmp, listed, list, answer, history>>

\* Any other failure, of a statement or of the step to its next row, is the
\* client's.
fails ==
  /\ Listing /\ (rows # {} \/ (todo # <<>> /\ Head(todo).text # ""))
  /\ answer' = Throw
  /\ UNCHANGED <<request, objects, stage, todo, rows, tmp, listed, list, skipped, history>>

\* The server chooses the order of the rows.
listsRow ==
  /\ Listing
  /\ \E row \in rows :
       /\ rows' = rows \ {row}
       /\ IF stage \in DbcLists
          THEN list' = Append(list, row) /\ UNCHANGED <<tmp, listed, answer>>
          ELSE /\ \E shown \in Show(tmp, row) :
                    /\ tmp' = shown.rs
                    /\ \E f \in IF shown.ret = Ok THEN Filter(shown.rs) ELSE {shown.ret} :
                         CASE f = Yes -> \E o \in RsInsert(listed, shown.rs.m_records[1]) :
                                           listed' = o.rs /\ answer' = IF o.ret = Ok THEN None ELSE o.ret
                           [] f = No  -> UNCHANGED <<listed, answer>>
                           [] OTHER   -> listed' = listed /\ answer' = f
               /\ UNCHANGED list
  /\ UNCHANGED <<request, objects, stage, todo, skipped, history>>

\* All tables are known: now their columns.
turnsToColumns ==
  /\ Listing /\ rows = {} /\ todo = <<>> /\ stage # kind
  /\ stage' = kind
  /\ todo' = ColumnStatements
  /\ tmp' = Described(kind) /\ listed' = Opened(Described(kind))
  /\ UNCHANGED <<request, objects, rows, list, answer, skipped, history>>

returns ==
  /\ Listing /\ rows = {} /\ todo = <<>> /\ stage = kind
  /\ answer' = Ok
  /\ UNCHANGED <<request, objects, stage, todo, rows, tmp, listed, list, skipped, history>>

\* Another client creates or drops an object; the temporary ones of SQLite are
\* the connection's own.
serverChanges ==
  /\ Listing /\ changes < MaxChanges
  /\ \E o \in Universe[source] :
       /\ o.space # "temp"
       /\ objects' = IF o \in objects THEN objects \ {o} ELSE objects \union {o}
  /\ through' = through \intersect objects' /\ seen' = seen \union objects'
  /\ changes' = changes + 1
  /\ UNCHANGED <<request, stage, todo, rows, tmp, listed, list, answer, skipped>>

MetadataNext ==
  \/ executes \/ skipsDatabase \/ hasNoSchemas \/ losesRows \/ fails
  \/ listsRow \/ turnsToColumns \/ returns \/ serverChanges

MetadataSpec == MetadataInit /\ [][MetadataNext]_metadataVars

-----------------------------------------------------------------------------
Listed == IF stage \in DbcLists THEN list ELSE listed.m_records

\* Does the row tell of the object?
Tells(row, o) ==
  CASE stage = "CatalogList" -> row.name = o.space
    [] stage \in {"TableList", "IndexList", "ViewList"} ->
         /\ row.name = o.name
         /\ row.system = (o.sort = "system")
         /\ IF source = "sdi" THEN row.schema = o.space ELSE row.catalog = o.space \/ o \in SystemObjects
    [] stage = "catalogs" -> row[1] = IF source = "sqlite" THEN o.space ELSE Current
    [] stage = "schemas" -> source \in {"odbc", "sdi"} => row[2] = o.space
    [] stage = "columns" -> row[3] = o.name /\ row[4] = o
    [] OTHER -> /\ row[3] = o.name
                /\ source \in {"odbc", "sdi"} => row[2] = o.space
                /\ source = "sqlite" => row[1] = o.space \/ o \in SystemObjects

\* What a row may tell of.
Known == seen \union IF source = "sqlite" THEN SystemObjects ELSE {}

Namesakes(o) == {p \in seen : p.name = o.name /\ p # o}

\* Is the object one of those that the client asked for?
AskedFor(o) ==
  /\ asked.filter \in {Null, o.name}
  /\ asked.schema \in {Null, o.space} /\ asked.table \in {Null, o.name}
  /\ CASE kind \in {"tables", "columns", "TableList"} ->
            o.sort = IF asked.class = "SYSTEM" THEN "system" ELSE "table"
       [] kind = "IndexList" -> o.sort = "index"
       [] kind = "ViewList"  -> o.sort = "view"
       [] OTHER              -> TRUE

\* The server told of its space, and in SQLite no other table has its name.
Reachable(o) ==
  /\ o.space \in skipped => source = "sqlite" /\ o.space = "temp" /\ kind # "ViewList"
  /\ kind = "columns" /\ source = "sqlite" => Namesakes(o) = {}

\* Temporary objects are in two lists, and the columns of tables of one name
\* are listed for each of them.
MayRepeat(o) ==
  o.space = "temp" \/ (kind = "columns" /\ (Namesakes(o) # {} \/ o \in SystemObjects))

\* A listing that comes to its end has every object that was there from its
\* beginning to its end, that the client asked for and that could be reached;
\* it has no row that tells of nothing that was there, or of what the filter
\* refused, and no row twice: however the statements fail and whatever other
\* clients create and drop between them.
ListingWhole ==
  answer = Ok =>
    /\ \A o \in through : AskedFor(o) /\ Reachable(o) => \E i \in DOMAIN Listed : Tells(Listed[i], o)
    /\ kind \in {"tables", "columns", "TableList", "IndexList", "ViewList"} =>
         \A i \in DOMAIN Listed :
           \E o \in Known : /\ Tells(Listed[i], o)
                            /\ asked.filter \in {Null, o.name}
                            /\ MayRepeat(o) \/ \A j \in DOMAIN Listed : Listed[j] = Listed[i] => j = i
=============================================================================
