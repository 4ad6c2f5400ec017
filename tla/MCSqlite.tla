------------------------------ MODULE MCSqlite ------------------------------
(***************************************************************************)
(* "connection": two statements that may each hold two resultsets, a query *)
(* without and one with a parameter, a text and a BLOB.                    *)
(*                                                                         *)
(* "result": one resultset with rows of two columns, a query without       *)
(* parameters and one with two; any map of two numbers that are in range   *)
(* and one that is not to a text or a BLOB.                                *)
(***************************************************************************)
EXTENDS Sqlite, TLC

CONSTANTS plain, filtered, text, photo

MCParamCount == [sql \in Queries |-> IF sql = filtered THEN 1 ELSE 0]
MCTwoParams  == [sql \in Queries |-> IF sql = filtered THEN 2 ELSE 0]

\* The statement objects are interchangeable.
Symmetry == Permutations(Stmts)
=============================================================================
