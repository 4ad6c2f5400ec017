-------------------------- MODULE MCOdbcConnection --------------------------
(***************************************************************************)
(* One query of each kind, with a LOB between two plain columns: the first *)
(* row has a LOB of two parts, the second a NULL.  The drivers can do      *)
(* nothing special, give columns in any order, or do everything.           *)
(***************************************************************************)
EXTENDS OdbcConnection

MCKind     == [sql \in Queries |-> sql]
MCLobParts == <<2, 0>>
MCDrivers  == {{}, {"ANY_COLUMN"}, {"ANY_COLUMN", "ANY_ORDER", "BOUND"}}
=============================================================================
