# A TLA+ development of dbwtl

dbwtl is a C++ library that gives several database systems (SQLite, ODBC,
Firebird, and SDI, a plug-in interface for other data sources) one programming
interface.  The library is single threaded by contract: a handle is used by one
thread.  What makes it hard is not the interleaving of threads but the *order of
calls*: handles own other handles, iterators outlive the containers they point
into, BLOB buffers outlive the row they belong to, a cache outlives the
statement it reads from, and an exception thrown half way leaves a handle in a
state the next call has to cope with.  The models therefore have one actor, a
client that makes any call it can make, against objects whose memory, flags and
borrowed pointers are explicit, and a database that may answer anything.  Two
places have more actors: the listings of metadata (other clients create and
drop tables between two statements) and the transactions of Firebird (several
statements, the connection and the client share them).

Line numbers refer to the files under `src/`.

## 1. Inventory

| Part | Where | State | Operations | Interacts with | Correct when |
|---|---|---|---|---|---|
| Diagnostic records | `include/dbwtl/dal/dal_interface.hh` (`DiagController`) | a list of ten records, a read iterator | `push_back`, `diagAvail`, `fetchDiag` | every handle of every engine owns one | the newest records stay, the iterator never stands on a deleted node, nothing unread is passed over |
| Errors and exceptions | `dal_interface.hh`, `*_engine.hh`, `*_lib*.cc` | the record that raises | what the library reports becomes records and an exception | all engines | the exception is the one of the first SQLSTATE reported |
| Cursor states | `dal_interface.hh:130-142` | bits PREPARED < OPEN < POSITIONED < EOF, BAD | the macro `DAL_SET_CURSORSTATE` | every dataset | a state implies the ones below it |
| Base handles | `src/dal/dal_interface.cc` | options, bound parameters, owned temporaries | `bind`, `bindParam`, `close`, `setOption` | the statements of all engines derive from them | parameters never point to a deleted temporary |
| Record set | `src/recordset.cc` | rows, column descriptors, a vector iterator as cursor, a cursor state | `open`, `insert`, `first`, `next`, `prev`, `last`, `setpos`, `column`, `clear`, ... | result of all metadata functions, storage of the cache | iterator, flags and rows agree |
| Cached result | `src/cachedresult.cc` | a borrowed pointer to a forward-only resultset, a record set, the current row number | `attach`, `detach`, `open`, the moves, `fetchMore`, `fetchAll`, `close` | the statement that owns the resultset | caching is invisible; never a dead resultset |
| Smart pointers, shared records | `include/dbwtl/util/smartptr.hh`, `src/shrrecord.cc` | a pointee with a count; a shared buffer | copy, assign, `reset`, `swap`, `clone` | tables, columns, record sets are passed around in them | a pointee is deleted once, by its last owner |
| Wrappers | `include/dbwtl/db_objects.hh` | owned engine handles | forwarding, `attach` | client | the engine's handles live long enough |
| SQLite engine | `src/dal/sqlite` | connection handle; statements with their resultsets; machine handle, row status, row number, accessors with BLOB buffers | `connect`, `disconnect`, `prepare`, `bind`, `execute`, `first`, `next`, `column`, `getBlob`, `close` | the C library, which refuses to close a connection with open statements | no connection or machine is lost or used after its end; values are of the current row |
| Firebird engine | `src/dal/firebird` | as SQLite, and a map of transactions, one of the connection, one of each statement | as SQLite, `makeTrx`, `beginTrans`, `commit`, `rollback`, `savepoint` | the client library | every transaction is ended once, by its owner |
| ODBC engine | `src/dal/odbc` | as SQLite, over a driver manager with optional extensions | the same, long columns in pieces, parameters in pieces | the driver manager | rows, buffers and LOBs of one row; changes are settled as asked |
| SDI engine | `src/dal/sdi` | environments, connections, data providers | the same | SQL proxy | the driver's errors reach the client |
| SQL proxy | `src/dal/sqlproxy` | tokens, a syntax tree, a cursor over several sources | `prepare`, `execute`, `first`, `next`, `eof`, `column` | SDI's data providers | a query means what SQL says; the cursor visits each matching combination once |
| Metadata | `src/dal/*/*_engine.cc`, `*_lib*.cc` | record sets being filled | `getCatalogs`, `getSchemas`, `getTables`, `getColumns` | system tables, other clients | everything that was there is listed |
| Driver tables, generic engine | `src/dal/*/driver_*.hh`, `dal/generic` | a table of function pointers, the environment that owns it | constructors, wrappers, `createEnv` | `dlopen` | no call through a null pointer; the engine that was named |
| Values | `include/dbwtl/variant.hh`, `types.hh`, `util/bcd.hh`, `src/variant*.cc`, `src/types` | a typed value and its null flag, decimal digits, dates | conversion, arithmetic, comparison, texts | all of the above | conversions keep the value or throw |
| Large objects | `*Blob*`, `*Memo*` of the engines, `type_blob.cc`, `type_memo.cc` | a buffer, three pointers, a driver's stream | `underflow`, `seek`, casts, copies | iostreams | the bytes of the object in order, of this row |
| Names of types | `src/dal/sqlutils.cc` | registered patterns | `parse` | SQLite columns | type, size and scale are recognised |

The hard behaviours, each listed with its line in `PROJECT.json` (`hazards`):
stale iterators and borrowed pointers; calls in an order the tests never use;
several steps of which one fails (`open()` of a cache, `execute()` with several
resultsets, `connect()`, a LOB sent in pieces, a commit in two calls); deletion
in the wrong order; row numbers, chunks, buffers and lists at their limits;
numbers that change their width on the way; a query text that passes a
tokenizer, a generated parser and several visitors; statements of other clients
between two steps; and the liveness question: does the row loop end?

## 2. Conventions

* A method is an operator that gives the **set of its outcomes**: the object
  afterwards and what the caller gets.  `Returns` names the answers: `Ok`,
  `Yes`, `No`, `Value(v)`, `Throw` (any exception), `Abort` (a failed assert of a
  Debug build, or an exception out of a destructor) and `Undefined` (a dead
  iterator, a deleted object, a finalized handle), and in Firebird's connection
  `Terminated` (a destructor's rollback that the server refuses).  After one of the last three
  the behaviour ends: nothing can be said of what follows.  `NDEBUG` is a
  constant, so both builds are modelled.
* What a C library does is **external** (so marked in the map): it is taken from
  how the engine calls it, the codes it handles and the tests.  Nearly every
  call of a library may fail.  `...ResultOps` modules hold, in a section of its
  own, the library, and then the methods of a resultset; the module of the
  connection has the variables and one action per method.
* Where a component has them, **`Spec`** lets the client make any call in any
  order, and **`ProtocolSpec`** restricts it to the order the tests and the guide
  show; each restriction is a conjunct of `Protocol` (`ClientStep`, `Careful`)
  and named in its comment.
* Next to an operator stand the bugs it could have, under the operator's name
  with a suffix (`RsSetpos_UpperBound`).  Each property is broken by one of
  them; `PROJECT.json` lists which (`mutants`).
* Rows and texts are known by what the properties tell apart: a row by its
  number, a character or a word by a model value, a number by its digits or by
  a count of halves.

## 3. Modules

| Module | Models | State and actions |
|---|---|---|
| `DiagController` | `DiagController<T>` | `m_list` (records are push numbers), `m_cur` (a node, or `End`); `push_back`, `fetchDiag`; history `pushed`, `freed`, `fetched` |
| `SqlStates` | how a report becomes records and an exception, in five engines, on top of `DiagController` | `raised`, `first_diag`, `reported`; the tables of SQLSTATEs and of the exceptions' base classes |
| `CursorState`, `Returns` | the cursor state macros; what a call gives | |
| `RecordSetOps`, `RecordSet` | every method of `RecordSet` | the iterator is an offset or `Dangling`, which is what `insert()` and `clear()` leave behind |
| `ScrollableDataset` | abstract: rows and one position | `RecordSet` and `CachedResult` implement it |
| `CachedResult` | `CachedResultBase` **with** the statements' resultsets | `m_source`, `m_rscache` (a `RecordSetOps` object), `m_current_row`; actions of the client and of the statements |
| `CachedRowLoop` | composes `CachedResult` with two client loops | `Foreach` is `DBWTL_FOREACH_ROW` (`db_objects.hh:1247`), `WhileNext` relies on what `next()` returns |
| `Metadata` | the listings of four engines, statement by statement, with other clients in between | what the server has, statements to do, the record sets `tmp` and `rs`; histories `through` and `seen` |
| `SqliteResultOps`, `SqliteResult` | machines; every method of `SqliteResult_libsqlite` and the accessors' buffers; one resultset from `prepare()` to its destructor | a buffer is unset, null, current or stale |
| `ForwardDataset` | abstract: a position that only goes forward, and an end | `SqliteResult` implements it |
| `SqliteConnection` | `SqliteDbc_libsqlite` with two statements, parameters, `directCmd()` | histories `asked` (values bound), `done` |
| `Sqlite` | puts a connection and a single resultset side by side, as two instances | `topic` says which one a behaviour is about |
| `FirebirdResultOps`, `FirebirdConnection` | the server's transactions; resultset and BLOB stream; connection, statements and transaction map | `dbc.m_trx_map` by id, `trx` by number: who began it, who may end it, how it ended |
| `OdbcResultOps`, `OdbcConnection` | a driver with its extensions; buffers, `SQLGetData` order, LOB stream and cache; connection with autocommit, parameters in pieces | which row each buffer holds, what is pending at the driver |
| `SqlCursor` | a table of a plug-in driver; the odometer over the sources; an SDI statement with a client that loops | `visited`, `tableFailed`; `internalNext()` is a step |
| `SqlQuery` | tokenizer, grammar, visitors, fields, evaluation of expressions | a query (a tree) is written in one of three layouts, prepared and executed with parameters; `Meaning` is the reference |
| `Decimal` | `basic_bcd` digit by digit, texts, Firebird and ODBC forms | a number that is calculated with |
| `Variant` | the storage of a `Variant`, integral conversions and comparisons | a variant and a variable of the client, histories of what they were given |
| `Temporal` | `TDate`, `TTime`, `TTimestamp`, texts, the libraries' structures | a moment that is converted on and on; history of the members it lost |
| `ColumnTypes` | server type to description, driver buffer, accessor casts, deep copies, Variant conversions, parameters, `SqlTypeParser` | a column and its value; a parameter and its Variant |
| `LobColumn` | a LOB column read through the accessors, Blob and Memo copies, LOB parameters | accessor buffers, streams handed out, what the copy holds |
| `LobStream`, `InputStream` | the stream buffers of four engines; abstract: bytes and a position | `LobStream` implements `InputStream` |
| `SmartPtr` | `SmartPtr` with a counter | pointers, counters, pointees as memory that can be used again |
| `DriverTable` | the function tables, their wrappers, `createEnv`, and environment and connection of each driver: constructor, `connect`, `disconnect`, destructor, with calls of the library that fail and builds with and without assertions | table entries, handles the library gave out, `m_isConnected`, the last call; histories `erred` (the library failed) and `early` (the environment went first) |
| `SupportProofs`, `RecordSetProofs`, `CachedResultProofs`, `SqliteResultProofs`, `SqliteProofs`, `FirebirdProofs`, `OdbcProofs`, `SqlCursorProofs` | theorems | |
| `MC*` | constants for TLC; `MCSupport`, `MCRecordSet` and `MCSqlite` put several components side by side | a variable says which one a behaviour is about, the others rest |

Components that have no state in common share a run: one initial choice
(`topic`, `subject`) says which of them moves.  This explores the union of
their state spaces, not the product.

Abstractions.  Formatting, encodings, tracing and the wording of diagnostics are
left out.  Methods that differ only in the type of an argument are one action.
An accessor's getters are one action where they all ask the machine; what they
convert is `ColumnTypes`.  The integral types in `Variant` have 2 to 32
values (`Span`), in the order of 1, 8, 16, 32 and 64 bits, so that every wrap-around
and every comparison of widths occurs with few numbers; the proof is for any.

## 4. Runs

| Run | Shows | Bounds |
|---|---|---|
| `recordset` | a client that keeps the protocol gets no abort and reads no dead iterator (`Defined`, `CursorOnRow`), descriptors and rows are uniform (`DescriptorsMatch`, `RowsUniform`), `ImplementsDataset`; `ListingWhole`: a listing has everything that was there all the time, nothing that never was, and no row twice | 3 rows (a first, an inner, a last), 2 columns, rows of width 1 and 2; servers with 3 to 5 objects, one name in two schemas, a temporary table that hides another, a name that needs quotes, one change by another client |
| `cached` | caching is invisible: `PositionsAgree`, `SettledOnRow`, `MetadataMatches`, `Defined`, `ImplementsDataset`, with a source that fails and statements closed and executed in between | sources of 3 and 1 rows of different width, rowset of 2, 4 cached rows, row numbers -1 to 4 |
| `cached_while_next` | `VisitsEachRow`, `Terminates` for the loop on `next()`, with prefetching | 0 to 5 rows, opened at any row |
| `cached_foreach` | **violated** `Terminates` | the same |
| `sqlite` | `MachinesOwned`, `NoConnectionLost`, `BoundAsAsked`, `AllDefined` for two statements on a connection; `EofIsTrue`, `ImplementsDataset` for a resultset | 2 interchangeable statements, 2 connections opened, 2 machines, 2 resultsets per statement, 2 queries, text and BLOB values; 2 rows, 2 columns and wrong parameters for the resultset |
| `firebird` | `TransactionsOwned`, `EndsAsAsked`: a transaction is ended once, by whom it belongs to, the way that was asked for; `RowsInStep`, `Defined` | 2 interchangeable statements, 2 rows, 2 server transactions, 3 ids, texts that select, change, start and roll back |
| `odbc` | `RowsInStep`, `LobsWhole`, `SettledAsAsked`, `Defined` | drivers with none, one and all extensions; 3 columns, one a LOB of 2 parts or empty; 2 rows |
| `cursor` | `VisitsEachMatch`, `Terminates` | all products of one and two tables of 0 to 2 rows with every condition, three tables with some; one table may fail; a parameter or none |
| `support` | `ListSound`, `ErrorTold`, `DecimalExact`, `OwnedTogether`, `VariantExact`, `MomentKept`, `LobWhole`, `ValueKept`, `DriverSound`, `QueryMeant`, `ImplementsInputStream`, one component at a time | list of 3 with 8 pushes (it wraps twice); numbers of up to 4 digits; LOBs around one and two buffers; 3 pointers, objects, counters; the boundaries of every integral type and their neighbours; libraries that lack any function whose wrapper is unusual; all pairs of operators nested on both sides |
| `decimal_minus` | **violated** `DifferenceExact` | the same |
| `variant_cast` | **violated** `ConversionExact` | the same |
| `sqlite_blob` | **violated** `BlobOfRow` | the same |

The bounds are enough because the objects look at positions only through
"before the first, first, inner, last, behind the last" and at machines and
transactions only through "mine" and "another's"; three rows and two handles
have all of these.  Streams depend on a position relative to a buffer of
`Bufsize` with `Putback` kept bytes: objects of every size around one and two
buffers are read.  Symmetric sets are the statements of `sqlite` and
`firebird`: no statement is named in specification or properties.
`CHECK_DEADLOCK FALSE` stands where a client may come to its end: after an
undefined call, at a bound, or with the object deleted.

Fairness is assumed of the loops only (`ForeachSpec`, `WhileNextSpec`, `Spec` of
`SqlCursor`), and is weak fairness of the loop as a whole: a client that
runs a loop makes its next call, and `next()` its next turn.  Nothing is assumed
of the database: an error ends a loop, and `Terminates` includes it.

## 5. What is proved

For **every** value of the constants (any capacity, any number of rows, columns,
statements, transactions, pointers, any set of queries, texts and values, any sizes of
objects and buffers), from the named assumptions of the modules.  The results about
resultsets, statements and caches, but for those about `Spec` of `RecordSet`, are of
`ProtocolSpec`, the client that keeps to the documented order; what such a client may
not do is named in `Protocol` of each module.

Every module proves its theorems the same way.  A section per layer (the cursor
flags, the library, the object's methods, the calls of the client) says what each
operator returns, one lemma per method; a lemma per action then says that it keeps
the inductive invariant, and, where there is an abstract specification, that it is
a step or a stutter of it; the theorems put these together.  The loops of the code
(over columns, rows, resultsets, parts of a LOB) are recursive functions in the
model; what they compute up to an index is proved by taking the least index for
which it fails.  The arms of a `CASE` in the modules proved about exclude each other;
in `ColumnTypes` and `SqlQuery`, which only TLC reads, they stand in the order of the
code's `switch` or `if` chain, and the first that applies is meant, as TLC takes it.

* **`SupportProofs`** (`DiagController`, `SmartPtr`).  `ListStaysSound`: the newest
  records are kept, the iterator is alive and passes over nothing unread.  Not
  inductive alone, as the node after a deleted one would be unknown: the invariant
  adds that the list is an interval of push numbers with the iterator in it
  (`CursorInList`), so that "the next node" is "+ 1".  `PointersOwnTogether`: an
  object lives exactly as long as a pointer to it, copies share one counter, whose
  number is that of the copies.  Nearly every call is one step in disguise (a
  variable gets a counted handle, and the handle it had is released), which
  `ReplacedHandle` proves for any memory.
* **`SupportProofs`** (`LobStream`).  `StreamRefinement`: every stream buffer implements
  `InputStream`.  `StreamInv`: the buffer ends with the last byte delivered, and is in
  order from the lowest offset its client can still reach (`LowestHeld`, `InOrder`).  The
  second is what `underflow()` needs, which copies the last `Putback` bytes of a full
  buffer in front of the next chunk; Firebird, whose chunks may be short, copies bytes
  that are not all there, and is right only because one byte back is reachable.  An
  ODBC memo is right in its first chunk (`FirstChunk`): one that needs another (`Overlong`)
  is followed by what is not of it, and the property ends there (`BehindChunk`).
* **`SupportProofs`** (`LobColumn`).  `ObjectsArriveWhole`, for objects of any length, any
  order of asking, and pieces and failures anywhere.  `LobWhole` says what a column, a copy
  and a parameter give *if asked now*; inductive is `LobInv`: an object is in the cache of
  its accessor, or what was decoded already followed by what the stream still has is all
  of it (`WholeKept`), unless the client has drained the driver (`spent`) or the accessor is
  one the property leaves out (`Hidden`); buffers are of rows that have been, and nothing
  stays decoded but a MEMO (`Tidy`).  Opening, decoding and taking move bytes between these
  three places, and one lemma per method says where to (`OpensIs`, `TakenIs`, `CachedIs`);
  `Serves` is what every cast owes: the invariant again, and the whole object or an
  exception.  `SendingsKeep` is about the loops that send an object to a server: wherever
  one stops, the copy still has the whole object, and what was stored is what it had left.
* **`SupportProofs`** (`Variant`).  `VariantsAreExact`, for integral types of any widths
  and any numbers: of `SpanAssumption`, which TLC evaluates, only the order of the widths
  is used, as the language has it (a `char` has more than two values, each of `short`,
  `int` and `long long` at least twice as many as the one before it, the unsigned ones as many).  `WiderKeeps`
  is why a test that comes too late does no harm between types of the same width: a
  number that does not fit is off by the number of values, and the type it came from does
  not have that one.  `ComparedSafely` goes through the tables of `resolve_higher()`: but
  for the five pairs of `Miscompared`, both values are converted without loss or throw.
  `VariantInv` then is the storage, the variable and `NumbersKept`.
* **`SupportProofs`** (`SqlStates`).  `ErrorsAreTold`, of every report and any number of
  records, none left out: the exception is that of the SQLSTATE reported first or of a
  class that the report determines (`ClassTold`), and it is undefined exactly when more
  records come than the list keeps.  `ErrorInv` is the invariant of the list (`ListInv`)
  and where the first record is: in the list with the id it was given, or deleted.
  `FirstDropped` says when, by counting what was pushed; every id has an exception in the
  engine's table (`OdbcStateKnown`, `SqliteStateKnown`, `FirebirdStateKnown`: the tables
  of codes are compared as a whole), and `CaughtByClass` that the class catches it.
* **`SupportProofs`** (`DriverTable`).  `TablesAreSound`, all three parts of `DriverSound`.
  An operation leads from worlds (handles, flag, history, end) to worlds; the lemmas
  `...Kept` say that out of a world in which the library has failed it leads only to such,
  the lemmas `...Served` where it leads when every call succeeds.  With these `DriverInv` is
  inductive: the handles the library has given out are those of the objects that are alive
  (`HandlesOf`), unless it failed or the environment went before its connection
  (`InOrderReleased`).  For `EngineAsNamed` what `parse_driver` makes of a text of any length
  is proved from the position of its first colon, which exists because a set of numbers
  has a smallest one (`SmallestOf`, from the well-foundedness of the numbers).
* **`RecordSetProofs`**.  For any client: `TypeCorrect`, `DescriptorsComplete`,
  `CursorNeverDangles`, from `AnyInv` (the flags are one of the chain of states,
  descriptors in step with the columns, the iterator on a row).  For the protocol:
  `AlwaysDefined`, `UniformRows`, and `Refinement` (`ImplementsDataset`):
  iterator and flags map to a position, 0 when not positioned, `RowCount + 1` at
  EOF, the offset plus one otherwise.
* **`RecordSetProofs`** (`Metadata`).  `ListingsAreWhole`, for any servers, attached
  databases and arguments, any number of changes by other clients between the
  statements, and any order of the rows: both halves of `ListingWhole`.  Nothing is lost,
  because an object that was there all the time is listed, among the rows at hand, or
  *covered* by a statement still to come (`NothingLost`, `Comes`, `Covers`), and a
  statement that covers an object answers with a row for it (`Answered`).  No row is
  there twice, because a statement still to come answers with no row that is listed
  already (`RowsOnce`, `MayAnswer`) but for the objects that may repeat; for columns this
  needs that each table is asked for once unless several have its name (`TablesInTurn`),
  which follows when the listing of the tables turns into that of the columns
  (`TurnStep`).  `FilteredRow` is where the record sets come in: the filter sees exactly
  the row at hand, as `clear()` has removed the one before.  Of `UniverseAssumption`,
  which TLC evaluates, SQLite's half says that every object is in a database of the
  connection.
* **`CachedResultProofs`** uses the lemmas of the former.  `CacheInv` has a cache in
  one of three conditions: closed; open without columns, because its `open()` threw;
  or loaded, when its columns are those of the source, its rows the first of those
  the client can see, and the two positions (of the record set, and
  `m_current_row`) agree.  All four safety properties of run `cached` and
  `Refinement` follow.  Without "the first of those" the copying loops would not be
  inductive: they append the source's next row.  `EachRowVisited` is about the loop of
  a client (`CachedRowLoop`): while it is under way the values it has to read are the first
  column of the rows that can be seen (`Going`), those it has read are as many as the
  position says (`Under`), and a call throws exactly when the source has failed (`Told`).
* **`SqliteResultProofs`, `SqliteProofs`**.  A resultset alone is always defined, tells
  the end truly, and is a `ForwardDataset`.  For a connection, the invariant
  (`ProtocolInv`) says that the object knows the only connection that is open,
  that every machine not finalized is of that connection and held by exactly one
  statement (`Owned`), and that a statement's parameters are those its client gave,
  its machine's a subset of them (`Sound`); from these `MachinesAreOwned`,
  `ConnectionsAreKept`, `ExecutedAsAsked`.  Closing is safe only because `Owned` says
  that nobody else holds a machine when the loop has finalized its own.  The two
  views are instances in `Sqlite`; the theorems about it cite the two sets of results.
* **`FirebirdProofs`**.  `FirebirdInv`: every transaction that is active has exactly one
  place in the map (`Mapped`); a statement's flags, resultset and cursor fit, and its
  local transaction is alive only between `prepare()` and a `close()` that succeeded
  (`StmtFine`); ids belong to one owner (`Named`), and nobody else has a stream in a
  local transaction (`Apart`).  Without `Apart` the commit in `close()` could end a
  cursor of another statement.  A method of a statement is described once by its
  effect on map and transactions (`Evolves`, `Moved`); that such an effect keeps the
  invariant for **all** statements is proved once (`Follows`, `Whole`).  `EndsAsAsked`
  is an action property and is proved from the same invariant.  `SystemInv` is that
  invariant, unless a rollback that was refused in a destructor has ended the program
  (`Terminated`).
* **`OdbcProofs`**.  `OdbcInv`: the columns that are bound leave each of the others
  reachable for the extensions of the driver (`Attached`, `Reachable`); the object's
  flags and row number fit the driver's cursor (`Placed`); every buffer, and the
  LOB, are of the row the cursor is on unless the driver lost it (`OfRow`, `LobOf`);
  a handle does not wait for parameter data between two calls; what has been settled
  was settled as asked (`Settled`); and LOBs are deferred only where the driver has all
  extensions (`Able`).  `Reachable` is why `SQLGetData` in the order of the
  accessors never needs an extension that is missing.
* **`SqlCursorProofs`**.  `EachMatchVisited`, for any number of sources of any size and any
  condition: `VisitsEachMatch` as it is checked.  The sources are at a place, the vector of
  their row numbers.  `Searching` says where `internalNext()` leaves it: some source moved
  on, those before it did not, and, where no driver failed, those after it were at their
  ends and start over (`MovesOn`); by `Successor` no combination lies between the two
  places.  `CursorInv` then has: what was visited is in order and before the place
  (`OrderInv`), and is exactly what matches up to it while nothing went wrong
  (`ProgressInv`).  The two halves are apart because the order holds even when a fetch
  fails or a source is empty.  `QueriesAssumption` says that a query has a source and that
  its combinations are not more than `MaxVisited`, so that the bound on `visited` leaves
  nothing out (`Room`).

What the listed theorems state of a property of a run: `ListSound`, `OwnedTogether`,
`ImplementsInputStream`, `LobWhole`, `ErrorTold`, `DriverSound`, `VariantExact`;
`DescriptorsMatch`, `CursorOnRow`, `Defined`, `RowsUniform`, `ImplementsDataset` of
record sets and `ListingWhole` of what is listed with them; `Defined`, `PositionsAgree`, `SettledOnRow`, `MetadataMatches`,
`ImplementsDataset` of caches, `VisitsEachRow` of a loop over one; all six of `sqlite`, all
four of `firebird`, all four of `odbc`; `VisitsEachMatch` of `cursor`.

Model-checked only, and why:

* `Terminates` (twice): liveness under fairness needs ENABLED.
* `QueryMeant`: a tree has no bound, its meaning is a recursive operator, and the
  prover takes none.
* `DecimalExact`, `MomentKept`, `ValueKept`: what a conversion
  computes, digit by digit; this is induction over data.

## 6. Where code and documentation disagree

Four disagreements are runs:

* `cached_foreach`: `eof()` of a cache (`cachedresult.cc:135`) asks the record
  set, whose `setpos()` never sets EOF.  It is false for ever, and
  `DBWTL_FOREACH_ROW` reads the last row without end.  The guide
  (`guide.html:680`) recommends `first()`, `next()`, `eof()`.
* `decimal_minus`: `sub()` (`bcd.hh:597`) takes a complement of the length of the
  longer operand, and the signs are chosen by magnitudes: 5 - 0 is 85, 0 - 0 is
  90, -5 - 5 is +10.
* `variant_cast`: `get<T>()` to a narrower integral type (`variant.hh:391`) cuts
  the number off: 300 as UCHAR is 44.
* `sqlite_blob`: the cache of a `Blob` accessor (`sqlite_engine.cc:426`) is not
  emptied for the next row.

Others were met while modelling.  Where one leads to undefined behaviour or to a
failed assert, a conjunct of the protocol excludes it; where one makes a value
wrong, the property names the case it leaves out.

**Diagnostics, record sets, caches**

* `DiagController::push_back()` (`dal_interface.hh:295`) rewinds an iterator that
  had reached the end, so records are returned again; the guide
  (`guide.html:1089`) only speaks of moving to the next record.
* `CachedResultBase::close()` keeps `m_current_row`; `prev()` after a new
  `open()` then fails the assert in `cachedresult.cc:234`.
* A cache that read all rows and whose statement is closed still asks the
  deleted resultset for `eof()` in `last()`, `setpos()` and `moreAvail()` unless
  `detach()` was called; `db_objects.hh:871` says one can disconnect after
  reading all data.  The implicit copy constructor of `Result` copies an
  iterator (`db_objects.hh:973`).
* An ODBC SQLSTATE the table lacks, "40000" among them, ends as 07000; 25S02 and 25S03
  derive from 22000 (`odbc_engine.hh:323`), though the guide (`guide.html:1211`) says a
  subclass is derived from its class.  `copy_diag_and_throw()` (`odbc_libodbc.cc:192`)
  keeps a pointer to the first record while it appends the others to a list of ten, and
  raises from a deleted one when there are more; the guide (`guide.html:1090`) speaks of
  a copy of the record.  `ErrorTold` states all three.  SDI always raises 42000,
  Firebird nearly always HY000.

**SQLite**

* `close()` of a resultset (`sqlite_libsqlite.cc:776`) keeps the handle it
  finalized, and the destructor finalizes it again; `guide.html:865` speaks of
  closing "the resultset or statement".
* `execute()` on an open resultset (`sqlite_libsqlite.cc:561`) does not refresh
  the accessors: `getBlob()` answers with the pointer of the execution before,
  although "the streambuffer is set to null on each fetch()"
  (`sqlite_libsqlite.cc:320`).  `next()` onto the end (`:716`) frees the bytes
  the buffers point to; `guide.html:865-867` says the pointer stays valid.
* `bind()` accepts any number (`dal_interface.cc:1043`), `execute()` throws;
  `guide.html:1334` lets `bind()` throw.
* `resultset()` of a statement without one throws `std::out_of_range`
  (`sqlite_libsqlite.cc:1428`); `guide.html:675` says the Resultset is marked bad.
* After several `prepare()` without `close()` all queries are executed, the
  INSERTs again, and the rows are those of the first; a test says of the
  `close()` between two queries "test, should work without..."
  (`tests/sqlite/sqlite-variant-conv.cc:29`).
* `beginTrans()` changes the isolation by a PRAGMA before a BEGIN that may fail
  (`sqlite_engine.cc:1223`).
* Declared types: BOOLEAN, SMALLINT, CHAR(20), DOUBLE PRECISION and INTEGER(11)
  are unknown; SMALLINT is registered as "SHORTINT", while the engine names the
  type SMALLINT itself.

**Firebird**

* A commit that fails in `close()` (`firebird_libfbclient.cc:3084`) leaves the
  statement prepared without a resultset: the next `execute()` does nothing, and
  a new `prepare()` would forget the local transaction.  The local id stays
  after `close()`.
* A disconnect before the statements are closed, or a local rollback while a
  stream is open, throws out of a destructor.  So does a rollback that the server
  refuses in `~FirebirdStmt_libfbclient` or `~FirebirdDbc_libfbclient` (`:2895`,
  `:2210`), the connection's leaving the transactions behind it in the map: no client
  can prevent it, so the model ends there with an answer of its own (`Terminated`), the
  one that `Defined` allows.
* Only NUMERIC parameters respect the scale of the server: 5 bound as INT to a
  NUMERIC(..,1) is .5; the type and the NULL a parameter was rewritten to stay
  for later executions (against "We reset the input XSQLDA to drop old values",
  `:980`).  A NUMERIC of more than 64 bits is sent as the largest one.
* `add_dpb_param` allows 256 characters, whose length byte is 0.

**ODBC**

* The exception of a failing `prepare()` is no `std::exception`; `connect(db,
  user, pwd)` always throws.
* A client stream that throws, or a spent one, leaves the driver waiting for
  data, and the destructor aborts (`odbc_libodbc.cc:2893`).
* `beginTrans`, `commit` and `rollback` that fail on their second call leave
  autocommit off (`:4133`).
* A NULL LOB reads as an empty one; a cast to Blob after a partly read stream
  keeps only the rest.
* NUMERIC parameters with a zero byte below the highest one (256, 65537) are
  sent wrong; unsigned ones are declared with the signed type.
* `SQLFreeHandle` (`driver_odbc.hh:1068`) is guarded by the member of
  `SQLConnectA`, `SQLGetData` (`:1312`) by that of `SQLNumResultCols`;
  `exceptions.hh:320` says an exception "is thrown if required function is not
  found".  A library that is not found is only printed.

**SDI, SQL proxy**

* `first()` over an empty first source with a second one that is not does not
  set EOF (`sqlcursor.cc:885`): the body then reads rows the source lacks.
* A fetch that fails ends a source like its last row (`sdi_libsdi.cc:774`).
* A second `execute()` does not rewind; the cursor keeps a pointer to the
  statement's parameters; `close()` leaves it open.
* `/` multiplies (`sqlcursor.cc:383`); NOT binds tighter than comparisons; XOR
  tighter than AND; `/*/` is a whole comment; CAST, INSERT, INTO and VALUES
  cannot be reached; an empty text is a null pointer, `''` a failed assert;
  `MOD` with a divisor that is not positive never ends.
* NULL as an operand throws; it is not converted where OR or AND is decided by
  the first operand.  BIGINT does not convert to a number; FLOAT and STRING are
  compared with integers as int.

**Values**

* Decimal: see `decimal_minus`; a negative number that `rescale()` rounds
  becomes positive; ".5" reads as 5; -0 is less than 0.
* Variant: five pairs of types are compared as a type that cannot hold one of
  them (`Miscompared`); `!=` of dates throws, its name is misspelled.
* Temporal: `<` of timestamps ignores the fraction; a text's fraction is in
  milliseconds, that of ODBC in billionths; Firebird's loses it.
* A Blob or Memo Variant is sent from where it was read last; a text parameter
  takes no Blob.
* Memory streams have no lower bound for a seek (`underflow` of Firebird ends at
  an empty segment; a putback behind a short chunk reads bytes that are not the
  object's).  Behind a chunk of an ODBC memo that was cut off, `setg()`
  (`odbc_libodbc.cc:654`) is given bytes for characters, and the NUL: a memo longer than
  the buffer is followed by what is behind the buffer; the guide (`guide.html:857`) speaks
  of a conversion of its characters only.
* `SmartPtr::reset()` (`smartptr.hh:528`) deletes the pointee of all copies; the
  source calls it only on pointers that are not copied.  `ShrRecord` assignment
  says "Copy the raw data from rec" and shares the buffer (`shrrecord.cc:128`).

**Metadata, engines**

* SQLite lists temporary tables twice where `temp.sqlite_master` can be read, and
  leaves a database out that it cannot read; columns are asked for by an unquoted
  name without the database.
* The lists of connections of ODBC, Firebird and SDI run PRAGMAs of SQLite and
  always throw; ODBC's arguments are patterns; SDI's `getSchemas` throws at a NULL
  schema and its `getColumns` lists the columns of equal names for each schema.
* `Database<sqlite>` ignores the engine named before the colon.
* Exceptions of one SQLSTATE are of one type over all engines only for the basic
  states; ODBC's HYxxx, IMxxx and 40xxx have none in the generic engine.

## 7. Not modelled

* The wrappers of `db_objects.hh` (each call forwards to a modelled one),
  `ShrRecord`, strings, encodings, tracing, printing of trees: see the notes of
  the components in `PROJECT.json`.
* What SQL does inside a database; a division of decimals, which approximates
  with fifty digits and which no small instance says anything about; locale
  facets beyond radix and grouping.
* Copies of a `RecordSet` (they share an iterator into the original's vector),
  bookmarks, `getDatatypes()` (constants).
* The wrapper functions of the driver tables are one operator for all, and the
  functions that no operation of `DriverTable` calls by its name are a constant
  set for each table (`Plain`, and `Bare` for members without a wrapper): their
  text is the same but for the name, except in the two of ODBC that test the member
  of another function, which are in the model.  The generated parser and
  `lemon`, a vendored tool, are represented by the grammar.
* In `SqlQuery`, numbers that are no count of halves, a negative zero, and what
  `%` makes of a divisor that is not positive (it may not end) are one outcome,
  `NotFollowed`.  `QueryMeant` says nothing of expressions in which they come up, nor
  of the differences that `MCDecimalMinus` shows to be wrong: the model computes those
  as `Decimal` does.
* There is no persistent state and no thread, so no crash recovery and no data
  race; the only interleaving is with other clients of a server.

## 8. Plan

1. A scrollable interface over the ODBC and Firebird results as instances of
   `ForwardDataset`.
2. `Result` with copies, `ShrRecord` sharing, and the wrappers' ownership.
