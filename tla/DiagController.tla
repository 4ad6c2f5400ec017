--------------------------- MODULE DiagController ---------------------------
(***************************************************************************)
(* The diagnostic buffer every handle owns (template DiagController<T> of  *)
(* dal_interface.hh).  Records are kept in a std::list of bounded length;  *)
(* m_cur is a list iterator, so it designates a node (or end()) and not an *)
(* index: it stays on its node when other nodes come and go.               *)
(***************************************************************************)
EXTENDS Naturals, Sequences

CONSTANTS
  Capacity,   \* longest list kept: the literal 10 of push_back()
  MaxPush,    \* bound of the model: records ever pushed
  End         \* the iterator m_list.end()

ASSUME CapacityAssumption == Capacity \in Nat \ {0}
ASSUME MaxPushAssumption  == MaxPush \in Nat
ASSUME EndAssumption      == End \notin Nat

VARIABLES
  m_list,     \* the records, oldest first; a record is its push number
  m_cur,      \* the record the next fetchDiag() returns, or End
  pushed,     \* history: number of records pushed so far
  freed,      \* records deleted by push_back()
  fetched     \* history: the records fetchDiag() has returned

vars == <<m_list, m_cur, pushed, freed, fetched>>

Records == 1 .. MaxPush

Init ==
  /\ m_list = <<>>
  /\ m_cur = End
  /\ pushed = 0
  /\ freed = {}
  /\ fetched = {}

\* The node after record r in list l, or End.
After(l, r) ==
  LET i == CHOOSE i \in DOMAIN l : l[i] = r
  IN  IF i < Len(l) THEN l[i + 1] ELSE End

\* Bugs the properties tell from the code: the iterator is left at end(), the
\* node under the iterator is deleted, the limit is missed by one.
Restarted_Forgotten(l) == m_cur
MovedOff_Forgotten(l, r) == r
Fits_OneMore(l) == Len(l) <= Capacity + 1
Fits_OneLess(l) == Len(l) < Capacity

\* Where the iterator stands after a node was appended to list l: an iterator
\* that had reached end() restarts at the front.
Restarted(l) == IF m_cur = End THEN Head(l) ELSE m_cur

\* Where an iterator at r stands once the front of list l is to be deleted.
MovedOff(l, r) == IF r = Head(l) THEN After(l, r) ELSE r

\* Does list l fit?
Fits(l) == Len(l) <= Capacity

\* push_back(): append, restart the iterator, then delete the oldest records
\* until the list fits.  As one record enters per call, at most one leaves.
push_back ==
  LET diag  == pushed + 1
      grown == Append(m_list, diag)
      cur   == Restarted(grown)
  IN  /\ pushed < MaxPush
      /\ pushed' = diag
      /\ \/ /\ Fits(grown)
            /\ m_list' = grown
            /\ m_cur' = cur
            /\ UNCHANGED freed
         \/ /\ ~Fits(grown)
            /\ m_list' = Tail(grown)
            /\ m_cur' = MovedOff(grown, cur)
            /\ freed' = freed \union {Head(grown)}
      /\ UNCHANGED fetched

diagAvail == m_cur # End

\* fetchDiag(): returns *m_cur++.  Without a record it throws
\* NotFoundException and changes nothing.
fetchDiag ==
  /\ diagAvail
  /\ fetched' = fetched \union {m_cur}
  /\ m_cur' = After(m_list, m_cur)
  /\ UNCHANGED <<m_list, pushed, freed>>

Next == push_back \/ fetchDiag

Spec == Init /\ [][Next]_vars

-----------------------------------------------------------------------------

\* The variables hold what the C++ members can hold.
TypeOK ==
  /\ m_list \in Seq(Nat) /\ Len(m_list) <= Capacity
  /\ m_cur \in Nat \union {End}
  /\ pushed \in 0 .. MaxPush
  /\ freed \subseteq 1 .. pushed
  /\ fetched \subseteq 1 .. pushed

\* Nothing but the Capacity newest records is kept, in the order of the
\* pushes: a record is deleted only once Capacity newer ones exist
\* (the "circular buffer" of the guide, trimmed in push_back()).
KeepsNewest ==
  /\ Len(m_list) = IF pushed < Capacity THEN pushed ELSE Capacity
  /\ \A i \in DOMAIN m_list : m_list[i] = pushed - Len(m_list) + i
  /\ freed = 1 .. (pushed - Len(m_list))

\* The iterator never designates a deleted node: push_back() moves it before
\* it deletes the node under it, so fetchDiag() never reads freed memory.
CursorAlive == m_cur # End => m_cur \in 1 .. pushed /\ m_cur \notin freed

\* No diagnostic is passed over: a record that is still in the list and was
\* never returned lies at or after the cursor.
NoneSkipped ==
  \A r \in (1 .. pushed) \ (freed \union fetched) : m_cur # End /\ m_cur <= r

\* What a reader relies on while the engine goes on pushing: the newest records
\* are there, the iterator is on one that lives, and no unread one is behind it.
ListSound == KeepsNewest /\ CursorAlive /\ NoneSkipped
=============================================================================
