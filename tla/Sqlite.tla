------------------------------- MODULE Sqlite -------------------------------
(***************************************************************************)
(* The two views of the SQLite engine, one in each behaviour: a connection *)
(* with its statements ("connection"), and a resultset with its rows       *)
(* ("result"), which has constants of its own.                             *)
(***************************************************************************)
EXTENDS SqliteConnection

CONSTANTS
  ResultParams,   \* the number of parameters of each query
  ResultNumbers,  \* the parameter numbers a client binds
  ResultRows,     \* bound of the model: the rows of a query
  ResultWidth,    \* its columns
  ResultHandles,  \* bound of the model: machines made
  ResultTuple,    \* bound of the model: m_current_tuple
  ResultConn      \* the connection of its statement

ASSUME ResultAssumption ==
  /\ ResultParams \in [Queries -> Nat]
  /\ ResultNumbers \subseteq Nat
  /\ ResultRows \in Nat
  /\ ResultWidth \in Nat

VARIABLES topic, rs, machines, gone, call, answer

Result ==
  INSTANCE SqliteResult WITH
    lib <- machines, op <- call, ret <- answer,
    ParamCount <- ResultParams, Numbers <- ResultNumbers, MaxRows <- ResultRows,
    Width <- ResultWidth, MaxHandles <- ResultHandles, MaxTuple <- ResultTuple,
    Conn <- ResultConn

resultVars == <<rs, machines, gone, call, answer>>

SqliteInit ==
  /\ topic \in {"connection", "result"}
  /\ Init /\ Result!Init

SqliteNext ==
  /\ UNCHANGED topic
  /\ IF topic = "connection" THEN Careful         ELSE UNCHANGED vars
  /\ IF topic = "result"     THEN Result!Protocol ELSE UNCHANGED resultVars

SqliteSpec == SqliteInit /\ [][SqliteNext]_<<topic, vars, resultVars>>

\* No call of either view uses what is gone, or fails in an assert.
AllDefined == Defined /\ Result!Defined

\* SqliteResult!EofIsTrue.
EofIsTrue == Result!EofIsTrue

\* SqliteResult!ImplementsDataset: the resultset is a forward-only dataset.
ImplementsDataset == Result!ImplementsDataset
=============================================================================
