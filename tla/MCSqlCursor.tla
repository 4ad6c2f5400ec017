---------------------------- MODULE MCSqlCursor ----------------------------
(***************************************************************************)
(* Queries over one to three tables of up to two rows, with every          *)
(* condition on two tables and some on three, with and without a parameter *)
(* that is or is not bound; a table may be one the driver fails on.        *)
(***************************************************************************)
EXTENDS SqlCursor

CONSTANTS value

Table(n, f) == [rows |-> n, faulty |-> f]

\* Every size of one and two tables, one of them faulty or none; three tables.
MCTables ==
  {<<Table(n, f)>> : n \in 0 .. 2, f \in BOOLEAN}
  \union {<<Table(n, f = 1), Table(m, f = 2)>> : n \in 0 .. 2, m \in 0 .. 2, f \in 0 .. 2}
  \union {<<Table(n, f = 1), Table(m, f = 2), Table(k, f = 3)>> :
            n \in 1 .. 2, m \in 0 .. 2, k \in 1 .. 2, f \in 0 .. 3}

MCCombinations(tables) == [DOMAIN tables -> 1 .. 2]

\* Some conditions on three tables: on one of them, on two, on all.
MCThree ==
  {{c \in [1 .. 3 -> 1 .. 2] : c[i] = k} : i \in 1 .. 3, k \in 1 .. 2}
  \union {{c \in [1 .. 3 -> 1 .. 2] : c[1] = c[3]}, {<<2, 2, 2>>}, {}}

MCHolds(tables) ==
  IF Len(tables) = 3 THEN MCThree ELSE SUBSET MCCombinations(tables)

MCQueries ==
  UNION {{[tables |-> t, where |-> NoCondition, params |-> Null]}
         \union {[tables |-> t, where |-> [holds |-> h, param |-> FALSE], params |-> value] :
                   h \in MCHolds(t)}
         \union {[tables |-> t, where |-> [holds |-> MCCombinations(t), param |-> TRUE], params |-> v] :
                   v \in {Null, value}} : t \in MCTables}
=============================================================================
