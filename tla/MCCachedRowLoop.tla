-------------------------- MODULE MCCachedRowLoop --------------------------
(***************************************************************************)
(* Loops over sources of zero to five rows, the cache opened on any row of *)
(* them; the longer sources may fail.                                      *)
(***************************************************************************)
EXTENDS CachedRowLoop, TLC

CONSTANTS id

MCSources     == 0 .. 5
MCFaulty      == 3 .. 5
MCSourceRows  == [s \in MCSources |-> [i \in 1 .. s |-> <<i>>]]
MCSourceNames == [s \in MCSources |-> <<id>>]
=============================================================================
