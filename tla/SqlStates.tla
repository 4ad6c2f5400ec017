----------------------------- MODULE SqlStates -----------------------------
(***************************************************************************)
(* What an application catches when the database library reports an error: *)
(* the engine turns the report into a diagnostic record with a SQLSTATE,   *)
(* appends it to the list of the handle, and the record raises the         *)
(* exception of its SQLSTATE.  An ODBC driver reports an error in several  *)
(* records, the first of which counts.  A SQLSTATE is <<class, subclass>>. *)
(***************************************************************************)
EXTENDS DiagController

CONSTANTS
  OdbcReports  \* SQLSTATEs of an ODBC driver's records

VARIABLES
  backend,    \* the engine that owns the handle
  reporting,  \* is copy_diag_and_throw() in its loop?
  first_diag, \* its variable: the record's place and SQLSTATE, or NoRecord
  reported,   \* history: what the library said first
  raised      \* what the failing call has thrown

NoRecord == [diag |-> 0, state |-> <<>>]
errorVars == <<backend, reporting, first_diag, reported, raised>>

-----------------------------------------------------------------------------
(* The SQLSTATEs every engine has an exception of                          *)

HY == {"000", "001", "003", "004", "007", "008", "009", "010", "011", "012", "013", "014", "015", "016",
       "017", "018", "019", "020", "021", "024", "090", "091", "092", "095", "096", "097", "098", "099",
       "100", "101", "103", "104", "105", "106", "107", "109", "110", "111", "C00", "T00", "T01"}

IM == {"000", "001", "002", "003", "004", "005", "006", "007", "008", "009", "010", "011", "012", "013",
       "014", "015"}

\* The exceptions each engine declares; those of a subclass are derived from
\* that of its class.
OdbcDynamicTypes ==
     {"07"} \X {"000", "001", "002", "005", "006", "009", "S01"}
  \union {"08"} \X {"000", "001", "002", "003", "004", "007", "S01"}
  \union {"21"} \X {"000", "S01", "S02"}
  \union {"22"} \X {"000", "001", "002", "003", "007", "008", "012", "015", "018", "019", "025", "026"}
OdbcAccessTypes ==
     {"25"} \X {"000", "S01", "S02", "S03"}
  \union {"40"} \X {"000", "001", "002", "003"}
  \union {"42"} \X {"000", "S01", "S02", "S11", "S12", "S21", "S22"}
  \union {"23", "24", "28", "34", "3C", "3D", "3F", "44"} \X {"000"}
OdbcGeneralTypes == {"HY"} \X HY
OdbcDriverTypes  == {"IM"} \X IM

OdbcStates == OdbcDynamicTypes \union OdbcAccessTypes \union OdbcGeneralTypes \union OdbcDriverTypes

SqliteExceptions == {"08"} \X {"000", "001"} \union {"25"} \X {"000", "001", "006"} \union {"0A", "22", "23", "28", "42"} \X {"000"}
SdiExceptions    == {"08"} \X {"000", "001"} \union {"25"} \X {"000", "001", "006"} \union {"0A", "22", "23", "28", "42"} \X {"000"}
FirebirdExceptions ==
  {"08"} \X {"000", "001", "002", "004"} \union {"25"} \X {"000", "001", "006"}
  \union {"0A", "22", "23", "24", "28", "42", "HY"} \X {"000"}

\* What raiseException() can throw.
SqliteStates   == SqliteExceptions
SdiStates      == SdiExceptions
FirebirdStates == FirebirdExceptions

\* The exceptions of the generic engine.
GenericDynamicTypes ==
     {"07"} \X {"000", "001", "002", "003", "004", "005", "006", "007", "008", "009", "00B", "00C", "00D", "00E", "00F"}
  \union {"08"} \X {"000", "001", "002", "003", "004", "006", "007"}
GenericFeatureTypes ==
  {"09", "0A", "0D", "0E", "0F", "0L", "0M", "0P", "0S", "0T", "0U", "0V", "0W", "0Z", "21"} \X {"000"}
  \union {"0A", "0F", "0Z"} \X {"001"}
GenericDataTypes ==
  {"22"} \X {"000", "001", "002", "003", "004", "005", "006", "007", "008", "009", "00B", "00C", "00D", "00E", "00F",
             "00G", "00H", "00P", "00Q", "010", "011", "012", "013", "014", "015", "016", "018", "019"}
GenericValueTypes ==
  {"22"} \X {"01B", "01C", "01E", "01F", "01G", "01S", "01T", "01U", "01V", "01W", "01X", "021", "022", "023", "024",
             "025", "026", "027", "029", "02D", "02E", "02F", "02G", "02H"}
GenericAccessTypes ==
     {"23"} \X {"000", "001"}
  \union {"25"} \X {"000", "001", "002", "003", "004", "005", "006", "007", "008"}
  \union {"2F"} \X {"000", "002", "003", "004", "005"}
  \union {"36"} \X {"000", "001", "002"}
  \union {"24", "26", "27", "28", "2B", "2C", "2D", "2E", "2H", "30", "33", "34", "35"} \X {"000"}
\* The rollbacks, class 40 of the standard, are of class 50.
GenericRoutineTypes ==
     {"38", "50"} \X {"000", "001", "002", "003", "004"}
  \union {"39"} \X {"000", "004"}
  \union {"3B"} \X {"000", "001", "002"}
  \union {"3C", "3D", "3F", "42", "44"} \X {"000"}

GenericStates == GenericDynamicTypes \union GenericFeatureTypes \union GenericDataTypes \union GenericValueTypes
                 \union GenericAccessTypes \union GenericRoutineTypes

\* The numbers of basic_states, which the engines take over; they number the
\* SQLSTATEs it does not have themselves.
BasicStates == GenericStates \union {<<"HY", "000">>}

\* An exception is the type sqlstate<number, ...>: of a number of basic_states it
\* is the same type in all engines.  A bug: an engine that numbers its own.
TypeIn_OwnNumbers(of, s) == [numbered |-> of, state |-> s]
TypeIn(of, s) == [numbered |-> IF s \in BasicStates THEN "basic" ELSE of, state |-> s]

StatesOf(of) ==
  CASE of = "odbc" -> OdbcStates [] of = "sqlite" -> SqliteExceptions [] of = "firebird" -> FirebirdExceptions
    [] of = "sdi" -> SdiExceptions [] of = "generic" -> GenericStates

\* Two exceptions of ODBC are derived from that of another class.
BaseOf(s) ==
  IF backend = "odbc" /\ s \in {<<"25", "S02">>, <<"25", "S03">>} THEN <<"22", "000">> ELSE <<s[1], "000">>

\* The types of handlers that catch the exception of SQLSTATE s.
CaughtAs(s) == {TypeIn(backend, s), TypeIn(backend, BaseOf(s))}

-----------------------------------------------------------------------------
(* From a report to a SQLSTATE                                             *)

\* The first enumerator: m_sqlstate_id().
FirstEnumerator == <<"07", "000">>

\* A bug: the subclasses of a server's own are not looked for by their class.
sqlstate2id_Exact(s) == IF s \in OdbcStates \ {<<"40", "000">>} THEN s ELSE FirstEnumerator

\* sqlstate2id() and its caller: a SQLSTATE that nothing is known of throws, and
\* OdbcDiag keeps what it was initialised with.
sqlstate2id(s) ==
  IF s \in OdbcStates \ {<<"40", "000">>} THEN s
  ELSE IF s[1] \in {"28", "HY", "IM"} THEN <<s[1], "000">>
  ELSE FirstEnumerator

SqliteCodes ==
  [SQLITE_PERM |-> <<"28", "000">>, SQLITE_AUTH |-> <<"28", "000">>, SQLITE_BUSY |-> <<"25", "001">>,
   SQLITE_READONLY |-> <<"25", "006">>, SQLITE_CANTOPEN |-> <<"08", "001">>, SQLITE_NOTADB |-> <<"08", "001">>,
   SQLITE_TOOBIG |-> <<"22", "000">>, SQLITE_RANGE |-> <<"22", "000">>, SQLITE_CONSTRAINT |-> <<"23", "000">>,
   SQLITE_NOLFS |-> <<"0A", "000">>, SQLITE_ROW |-> <<"08", "000">>, SQLITE_ERROR |-> <<"42", "000">>]

\* The codes up to SQLITE_NOTADB that the table does not name are like
\* SQLITE_ERROR, those beyond, extended codes among them, like SQLITE_ROW.
sqlite3error_to_sqlstate(code) == SqliteCodes[code]

\* The codes of the table in their order, which is about that of their numbers.  But for five
\* they are of the general class; one or two of a part stand for the other ones of it.
General == <<"HY", "000">>
HandleCodes  == [isc_arith_except |-> <<"22", "000">>, isc_io_error |-> <<"08", "000">>,
                 isc_deadlock |-> General, isc_foreign_key |-> General]
LogCodes     == [isc_login |-> <<"28", "000">>, isc_shutdown |-> <<"08", "004">>, isc_no_wal |-> General]
SyntaxCodes  == [isc_network_error |-> <<"08", "001">>, isc_token_err |-> General]
ServerCodes  == [isc_lost_db_connection |-> General, isc_read_only_database |-> General]
DialectCodes == [isc_gfix_db_name |-> General, isc_dyn_role_does_not_exist |-> General]
BackupCodes  == [isc_gbak_db_exists |-> General]
ToolCodes    == [isc_dsql_table_not_found |-> General, isc_gsec_err_add |-> General]

GdsTables == {HandleCodes, LogCodes, SyntaxCodes, ServerCodes, DialectCodes, BackupCodes, ToolCodes}
GdsCodes  == UNION {DOMAIN table : table \in GdsTables}

gdscode2sqlstate(code) == LET table == CHOOSE part \in GdsTables : code \in DOMAIN part IN table[code]

sdi3error_to_sqlstate == <<"42", "000">>

\* raiseException()
Raised(states, s) == IF s \in states THEN s ELSE <<"BUG">>

-----------------------------------------------------------------------------
ErrorInit ==
  /\ Init
  /\ backend \in {"odbc", "sqlite", "firebird", "sdi"}
  /\ reporting = FALSE /\ first_diag = NoRecord /\ reported = <<>> /\ raised = <<>>

\* The record is appended, and raises at once.
RecordRaises(states, s) ==
  /\ push_back
  /\ reported' = s /\ raised' = Raised(states, s)
  /\ UNCHANGED <<backend, reporting, first_diag>>

\* DAL_SQLITE_LIBSQLITE_DIAG_ERROR
sqliteFails == backend = "sqlite" /\ \E c \in DOMAIN SqliteCodes : RecordRaises(SqliteStates, sqlite3error_to_sqlstate(c))

\* THROW_ERROR; a code that the table does not have is a record that cannot be made.
firebirdFails ==
  /\ backend = "firebird"
  /\ \/ \E code \in GdsCodes : RecordRaises(FirebirdStates, gdscode2sqlstate(code))
     \/ /\ reported' = <<>> /\ raised' = <<"BUG">>
        /\ UNCHANGED <<vars, backend, reporting, first_diag>>

\* CREATE_DIAG: what the engine itself refuses.
firebirdRefuses ==
  /\ backend = "firebird"
  /\ \E s \in {<<"08", "002">>, <<"0A", "000">>, <<"24", "000">>, <<"25", "000">>, <<"HY", "000">>} :
       RecordRaises(FirebirdStates, s)

sdiFails == backend = "sdi" /\ RecordRaises(SdiStates, sdi3error_to_sqlstate)

odbcFails ==
  /\ backend = "odbc" /\ ~reporting
  /\ reporting' = TRUE /\ first_diag' = NoRecord /\ reported' = <<>> /\ raised' = <<>>
  /\ UNCHANGED <<vars, backend>>

\* A bug: the pointer goes on to the last record.
First_Last(diag, s) == [diag |-> diag, state |-> sqlstate2id(s)]

First(diag, s) == IF first_diag = NoRecord THEN [diag |-> diag, state |-> sqlstate2id(s)] ELSE first_diag

\* SQLGetDiagRec() succeeds: the record is appended to the list of the handle.
copyDiag ==
  /\ reporting
  /\ \E s \in OdbcReports :
       /\ first_diag' = First(pushed + 1, s)
       /\ reported' = IF first_diag = NoRecord THEN s ELSE reported
  /\ push_back
  /\ UNCHANGED <<backend, reporting, raised>>

\* SQL_NO_DATA: the first record raises; the list may have deleted it meanwhile.
raiseFirst ==
  /\ reporting /\ reporting' = FALSE
  /\ raised' = CASE first_diag = NoRecord -> <<"EngineException">>
                 [] first_diag # NoRecord /\ first_diag.diag \in freed -> <<"Undefined">>
                 [] OTHER -> Raised(OdbcStates, first_diag.state)
  /\ UNCHANGED <<vars, backend, first_diag, reported>>

\* Any other result of SQLGetDiagRec().
getDiagFails ==
  /\ reporting /\ reporting' = FALSE
  /\ raised' = <<"EngineException">>
  /\ UNCHANGED <<vars, backend, first_diag, reported>>

ErrorNext ==
  \/ sqliteFails \/ firebirdFails \/ firebirdRefuses \/ sdiFails
  \/ odbcFails \/ copyDiag \/ raiseFirst \/ getDiagFails

ErrorSpec == ErrorInit /\ [][ErrorNext]_<<vars, errorVars>>

-----------------------------------------------------------------------------
\* What the table of the ODBC engine has no entry for: it comes to the first enumerator.
Unmapped(s) == s \notin OdbcStates \ {<<"40", "000">>} /\ s[1] \notin {"28", "HY", "IM"}

\* The class that catches what was reported as SQLSTATE s: its own, but for what the
\* ODBC engine has no entry for, and the two exceptions it derives from another class.
ClassTold(s) ==
  IF backend = "odbc" /\ Unmapped(s) THEN "07"
  ELSE IF backend = "odbc" /\ s \in {<<"25", "S02">>, <<"25", "S03">>} THEN "22"
  ELSE s[1]

\* How many records the driver has given for the failing call.
RecordsGiven == IF first_diag = NoRecord THEN 0 ELSE pushed - first_diag.diag + 1

\* What a failing call has thrown is the exception of the SQLSTATE that the library
\* reported first: a program that catches the class of ClassTold catches it, whether it
\* names the exceptions of the engine or those of the generic engine, and who catches that
\* SQLSTATE itself does too, if the engine has an exception and an entry of it.  It is
\* something else only where an ODBC driver gave no record or could not give all of them
\* (an EngineException), where the code of a Firebird error is in no table (a bug is
\* told), and where the driver gave more records than the list keeps, which has then
\* deleted the first, and always so (what is thrown is undefined).
ErrorTold ==
  /\ raised = <<"EngineException">> => backend = "odbc"
  /\ raised = <<"BUG">> => backend = "firebird" /\ reported = <<>>
  /\ raised \notin {<<>>, <<"EngineException">>} => (raised = <<"Undefined">> <=> RecordsGiven > Capacity)
  /\ raised \notin {<<>>, <<"EngineException">>, <<"BUG">>, <<"Undefined">>} =>
       \A client \in {backend, "generic"} :
         /\ <<ClassTold(reported), "000">> \in StatesOf(client) =>
              TypeIn(client, <<ClassTold(reported), "000">>) \in CaughtAs(raised)
         /\ reported \in StatesOf(backend) \intersect StatesOf(client) /\ ~(backend = "odbc" /\ Unmapped(reported)) =>
              TypeIn(client, reported) \in CaughtAs(raised)

=============================================================================
