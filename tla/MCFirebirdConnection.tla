----------------------- MODULE MCFirebirdConnection -----------------------
(***************************************************************************)
(* One query of each kind.  The statement objects are interchangeable.     *)
(***************************************************************************)
EXTENDS FirebirdConnection, TLC

MCKind == [sql \in Queries |-> sql]

Symmetry == Permutations(Stmts)
=============================================================================
