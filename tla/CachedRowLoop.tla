--------------------------- MODULE CachedRowLoop ---------------------------
(***************************************************************************)
(* Two loops over a CachedResult that is attached and open.  Foreach is    *)
(* DBWTL_FOREACH_ROW (db_objects.hh), the loop of the guide,               *)
(*   for(result.first(); !result.eof(); result.next()) body                *)
(* WhileNext relies on what next() returns instead:                        *)
(*   first(); if(isPositioned()) do body while(next());                    *)
(* The body reads the first column; in WhileNext the client may also       *)
(* prefetch rows with fetchMore() before it moves on.                      *)
(***************************************************************************)
EXTENDS CachedResult

VARIABLES
  pc,         \* the call the loop makes next
  visited,    \* the values the body has read, MaxCached + 1 of them at most
  expected    \* the values a complete loop reads

allvars == <<vars, pc, visited, expected>>

\* The values of the first column the source has to give from row i.
ValuesFrom(s, i) ==
  [j \in 1 .. Len(SourceRows[s]) + 1 - i |-> SourceRows[s][i + j - 1][1]]

\* The source has a column, as for every call of attach(), and its rows fit.
LoopInit ==
  /\ m_source \in Sources
  /\ Width(m_source) > 0 /\ Len(SourceRows[m_source]) <= MaxCached
  /\ m_rscache = WithMetadata(SetState(RecordSetInit, "OPEN"), m_source)
  /\ m_current_row = 0
  /\ \E i \in 1 .. Len(SourceRows[m_source]) + 1 :
       /\ src = [s \in Sources |->
                   IF s = m_source THEN [NewSource EXCEPT !.pos = i] ELSE NewSource]
       /\ expected = ValuesFrom(m_source, i)
  /\ op = <<"open">> /\ ret = Ok /\ settled = FALSE
  /\ pc = "first" /\ visited = <<>>

\* After a call at a label of from the loop goes on at label to, unless it threw.
Goto(from, to) ==
  /\ pc \in from
  /\ pc' = IF ret' = Throw \/ ~GoesOn(ret') THEN "failed" ELSE to
  /\ UNCHANGED expected

Body(to) ==
  /\ column(1) /\ Goto({"body"}, to)
  /\ visited' = IF ret'[1] = "value" /\ Len(visited) <= MaxCached
                  THEN Append(visited, ret'[2]) ELSE visited

Foreach ==
  \/ first /\ Goto({"first"}, "eof") /\ UNCHANGED visited
  \/ eof /\ Goto({"eof"}, IF ret' = Yes THEN "done" ELSE "body") /\ UNCHANGED visited
  \/ Body("next")
  \/ next /\ Goto({"next"}, "eof") /\ UNCHANGED visited

WhileNext ==
  \/ /\ first
     /\ Goto({"first"}, IF IsPositioned(m_rscache') THEN "body" ELSE "done")
     /\ UNCHANGED visited
  \/ Body("next")
  \/ fetchMore /\ Goto({"next"}, "move") /\ UNCHANGED visited
  \/ next /\ Goto({"next", "move"}, IF ret' = Yes THEN "body" ELSE "done") /\ UNCHANGED visited

\* The client runs its loop: it does not stop half way.
ForeachSpec   == LoopInit /\ [][Foreach]_allvars /\ WF_allvars(Foreach)
WhileNextSpec == LoopInit /\ [][WhileNext]_allvars /\ WF_allvars(WhileNext)

-----------------------------------------------------------------------------
\* The loop ends: all rows were visited or a call failed.
Terminates == <>(pc \in {"done", "failed"})

\* The body sees the rows of the source in their order, each once, and all of
\* them when the loop is done; it fails only with an exception of a source that may
\* throw.
VisitsEachRow ==
  /\ visited = SubSeq(expected, 1, Len(visited))
  /\ pc = "done" => visited = expected
  /\ pc = "failed" => ret = Throw /\ m_source \in Faulty
=============================================================================
