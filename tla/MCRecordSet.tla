---------------------------- MODULE MCRecordSet ----------------------------
(***************************************************************************)
(* RecordSet with rows of one and of two fields, so that the field counts  *)
(* of rows and columns can disagree, and three rows at most, so that there *)
(* is a first, an inner and a last row.  And the listings of metadata that *)
(* are made with record sets: a behaviour is about the one or the other.   *)
(***************************************************************************)
EXTENDS RecordSet, Metadata

CONSTANTS a, b

VARIABLE subject

MCValues == {a, b}
MCRows   == {<<a>>, <<b>>, <<a, b>>}

Thing(space, sort, name) == [space |-> space, sort |-> sort, name |-> name]

\* A table, one that a temporary table hides, one that needs quotes, a view and
\* an index; schemas of one name and no schema; a name that is a pattern.
MCUniverse ==
  [sqlite   |-> {Thing("main", "table", "t"), Thing("temp", "table", "t"), Thing("main", "table", "a b"),
                 Thing("main", "view", "v"), Thing("aux", "index", "i")},
   odbc     |-> {Thing("s", "table", "t"), Thing("sx", "table", "t"), Thing("s", "system", "y"), Thing("s", "view", "v")},
   firebird |-> {Thing(Null, "table", "t"), Thing(Null, "view", "v"), Thing(Null, "table", "u")},
   sdi      |-> {Thing("s", "table", "t"), Thing("r", "table", "t"), Thing(Null, "table", "t"), Thing("s", "table", "u")}]
MCAttached == <<"aux">>
MCPatterns == {<<"s", "sx">>}

RecordSetsInit ==
  /\ subject \in {"record set", "metadata"}
  /\ Init
  /\ MetadataInit
  /\ subject # "metadata" => source = "firebird" /\ kind = "catalogs" /\ objects = {} /\ asked.filter = Null

RecordSetsNext ==
  /\ UNCHANGED subject
  /\ IF subject = "record set" THEN Protocol ELSE UNCHANGED vars
  /\ IF subject = "metadata" THEN MetadataNext ELSE UNCHANGED metadataVars

RecordSetsSpec == RecordSetsInit /\ [][RecordSetsNext]_<<subject, vars, metadataVars>>
=============================================================================
