--------------------------- MODULE MCCachedResult ---------------------------
(***************************************************************************)
(* A cache and two statements: one whose resultset of three rows may fail, *)
(* and one of a single, wider row, so that mixing them shows.              *)
(***************************************************************************)
EXTENDS CachedResult, TLC

CONSTANTS people, towns, id, name

MCSourceNames == (people :> <<id>>) @@ (towns :> <<id, name>>)
MCSourceRows  == (people :> <<<<"s1">>, <<"s2">>, <<"s3">>>>) @@ (towns :> <<<<"t1", "u1">>>>)
MCShortRows   == (people :> <<<<"s1">>, <<"s2">>>>) @@ (towns :> <<<<"t1", "u1">>>>)
MCRowNumbers  == -1 .. 4
MCFromOne     == 1 .. 4
=============================================================================
