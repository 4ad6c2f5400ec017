--------------------------- MODULE ForwardDataset ---------------------------
(***************************************************************************)
(* What the interface IDataset (dal_interface.hh) promises for the result  *)
(* of a query, free of handles, status codes and memory: rows that are     *)
(* passed one by one.  Position 0 is "no result", k is the k-th row, and   *)
(* ended tells that there is no row behind the k-th, or none at all.       *)
(***************************************************************************)
EXTENDS Integers, Returns

CONSTANTS
  ColumnNumbers,   \* the column numbers a client may ask for
  Questions        \* the calls that are not about rows

VARIABLES
  pos, ended,   \* where the client is
  op, ret       \* the last call and what it gave

vars == <<pos, ended, op, ret>>

OnRow == pos > 0 /\ ~ended

Init == pos = 0 /\ ended = FALSE /\ op = <<"none">> /\ ret = None

\* The call o answers r and moves nothing.
Answer(o, r) == op' = o /\ ret' = r /\ UNCHANGED <<pos, ended>>

\* A query runs up to its first row, which there may not be, or fails.
Execute ==
  /\ op' = <<"execute">>
  /\ \/ pos' = 1 /\ ended' \in BOOLEAN /\ ret' = Ok
     \/ pos' = 0 /\ ended' = FALSE /\ ret' = Throw

\* There is no way back to the first row.
First == Answer(<<"first">>, IF pos = 1 THEN Ok ELSE Throw)

\* Every row comes after the one before; an error is an end.
Next ==
  /\ OnRow
  /\ op' = <<"next">>
  /\ \/ pos' = pos + 1 /\ ended' = FALSE /\ ret' = Yes
     \/ pos' = pos /\ ended' = TRUE /\ ret' \in {No, Throw}

Eof ==
  \/ pos > 0 /\ Answer(<<"eof">>, Bool(ended))
  \/ pos = 0 /\ Answer(<<"eof">>, Throw)

RowID ==
  \/ pos > 0 /\ Answer(<<"getCurrentRowID">>, Value(pos))
  \/ pos = 0 /\ Answer(<<"getCurrentRowID">>, Throw)

\* What is read is of the current row, or there is nothing to read.
Read(num) ==
  \/ \E o \in {"column", "getBlob", "readBuffer"} :
       OnRow /\ Answer(<<o, num>>, Value(pos))
  \/ \E o \in {"column", "getBlob"} : Answer(<<o, num>>, Throw)
  \/ \E o \in {"getBlob", "readBuffer"} : OnRow /\ Answer(<<o, num>>, <<"no bytes">>)

\* The end of the result, with its statement.
Release == op' = <<"destroy">> /\ ret' = Ok /\ pos' = 0 /\ ended' = FALSE

Ask == op' \in Questions /\ UNCHANGED <<pos, ended>>

Step ==
  \/ Execute \/ First \/ Next \/ Eof \/ RowID \/ Release \/ Ask
  \/ \E num \in ColumnNumbers : Read(num)

Spec == Init /\ [][Step]_vars
=============================================================================
