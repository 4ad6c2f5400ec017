------------------------ MODULE SupportProofs -------------------------------
(***************************************************************************)
(* Proofs about the classes every engine is built from: the diagnostic     *)
(* buffer, the shared pointers, the errors, the object streams, the large  *)
(* objects of a column, the driver tables and the variants, for every      *)
(* value of their constants.                                               *)
(*                                                                         *)
(* The diagnostic list is an interval of push numbers, and the iterator a  *)
(* number inside it.                                                       *)
(*                                                                         *)
(* Nearly every call of a SmartPtr is one step in disguise: a variable     *)
(* gets a new handle (none, a copy of a handle that is in use, or one of a *)
(* new object with a free counter), which is counted, and the handle it    *)
(* had is released.  ReplacedHandle proves that step for any memory, and   *)
(* each call is an instance of it; only swap and reset have proofs of      *)
(* their own.                                                              *)
(*                                                                         *)
(* The buffer of a stream holds the bytes of the object up to the last one *)
(* delivered, in order, from the lowest offset the client may go back to:  *)
(* the chunk that is read next keeps that for the putback area it copies.  *)
(*                                                                         *)
(* An object of a column is in the cache of its accessor, or what was      *)
(* decoded already and what the stream still has make all of it: opening   *)
(* and decoding move it from one to the other, and taking moves it into    *)
(* the cache.                                                              *)
(*                                                                         *)
(* An operation of a driver leads from worlds to worlds, and out of a      *)
(* world in which the library has failed only to such ones; so what is     *)
(* left to show is where it leads when the library does what it is asked.  *)
(*                                                                         *)
(* A conversion of a variant that is tested against the type it comes from *)
(* is exact when the other type has as many values: a number that does not *)
(* fit comes out a number of values away, which its own type cannot hold.  *)
(***************************************************************************)
EXTENDS SqlStates, SmartPtr, LobStream, LobColumn, DriverTable, Variant,
        FiniteSetTheorems, SequenceTheorems, WellFoundedInduction, TLAPS

-----------------------------------------------------------------------------
(* The diagnostic list                                                     *)

\* The push number before the oldest record of the list.
base == pushed - Len(m_list)

\* The iterator designates a node of the list, or its end.
CursorInList == m_cur # End => m_cur \in (base + 1) .. pushed

ListInv == TypeOK /\ KeepsNewest /\ CursorInList /\ NoneSkipped

\* The node after a record of a list of consecutive push numbers.
LEMMA AfterConsecutive ==
  ASSUME NEW l \in Seq(Nat), NEW b \in Nat,
         \A i \in DOMAIN l : l[i] = b + i,
         NEW r \in (b + 1) .. (b + Len(l))
  PROVE  After(l, r) = IF r < b + Len(l) THEN r + 1 ELSE End
<1> DEFINE i == CHOOSE i \in DOMAIN l : l[i] = r
<1>1. r - b \in DOMAIN l /\ l[r - b] = r
  OBVIOUS
<1>2. i \in DOMAIN l /\ l[i] = r
  BY <1>1
<1>3. i = r - b
  BY <1>2
<1>4. After(l, r) = IF i < Len(l) THEN l[i + 1] ELSE End
  BY DEF After
<1> HIDE DEF i
<1>5. i < Len(l) => l[i + 1] = r + 1
  <2> SUFFICES ASSUME i < Len(l) PROVE l[i + 1] = r + 1
    OBVIOUS
  <2>1. i + 1 \in DOMAIN l
    BY <1>2
  <2>2. l[i + 1] = b + (i + 1)
    BY <2>1
  <2> QED BY <2>2, <1>2, <1>3
<1> QED BY <1>3, <1>4, <1>5

LEMMA InitInvariant == Init => ListInv
BY CapacityAssumption, MaxPushAssumption
DEF Init, ListInv, TypeOK, KeepsNewest, CursorInList, NoneSkipped, base

LEMMA PushInvariant == ListInv /\ push_back => ListInv'
<1> SUFFICES ASSUME ListInv, push_back PROVE ListInv'
  OBVIOUS
<1> USE CapacityAssumption, MaxPushAssumption, EndAssumption
<1> DEFINE grown == Append(m_list, pushed + 1)
           cur   == Restarted(grown)
<1>0. /\ m_list \in Seq(Nat) /\ Len(m_list) \in 0 .. Capacity
      /\ pushed \in Nat /\ pushed < MaxPush /\ pushed' = pushed + 1
      /\ fetched' = fetched
      /\ base \in Nat
  BY DEF ListInv, TypeOK, KeepsNewest, push_back, base
<1>1. /\ grown \in Seq(Nat)
      /\ Len(grown) = Len(m_list) + 1
      /\ \A i \in 1 .. Len(grown) : grown[i] = base + i
      /\ Head(grown) = base + 1
  <2>1. base + Len(m_list) = pushed
    BY <1>0 DEF base
  <2>2. \A i \in 1 .. Len(m_list) : m_list[i] = base + i
    BY <1>0 DEF ListInv, KeepsNewest, base
  <2>3. grown \in Seq(Nat) /\ Len(grown) = Len(m_list) + 1
    BY <1>0
  <2>4. \A i \in 1 .. Len(grown) :
          grown[i] = IF i <= Len(m_list) THEN m_list[i] ELSE pushed + 1
    BY <1>0
  <2>5. \A i \in 1 .. Len(grown) : grown[i] = base + i
    <3> HIDE DEF grown
    <3> SUFFICES ASSUME NEW i \in 1 .. Len(grown) PROVE grown[i] = base + i
      OBVIOUS
    <3>1. CASE i <= Len(m_list)
      BY <3>1, <2>2, <2>4, <1>0
    <3>2. CASE i > Len(m_list)
      <4>1. i = Len(m_list) + 1
        BY <3>2, <2>3, <1>0
      <4>2. grown[i] = pushed + 1
        BY <3>2, <2>4, <1>0
      <4> QED BY <4>1, <4>2, <2>1, <1>0
    <3> QED BY <3>1, <3>2, <1>0
  <2> QED BY <2>3, <2>5, <1>0
<1>2. cur \in (base + 1) .. (pushed + 1)
  BY <1>0, <1>1 DEF ListInv, CursorInList, Restarted, base
<1>3. m_cur # End => cur = m_cur
  BY DEF Restarted
<1>4. m_cur = End => cur = base + 1
  BY <1>1 DEF Restarted
<1>5. CASE Fits(grown)
  <2>1. m_list' = grown /\ m_cur' = cur /\ freed' = freed
    BY <1>5 DEF push_back
  <2>2. base' = base
    BY <2>1, <1>0, <1>1 DEF base
  <2>3. TypeOK' /\ KeepsNewest'
    BY <2>1, <1>0, <1>1, <1>2, <1>5 DEF ListInv, TypeOK, KeepsNewest, Fits, base
  <2>4. CursorInList'
    BY <2>1, <2>2, <1>0, <1>2 DEF CursorInList
  <2>5. NoneSkipped'
    <3> SUFFICES ASSUME NEW r \in 1 .. (pushed + 1),
                        r \notin freed, r \notin fetched
                 PROVE  cur # End /\ cur <= r
      BY <2>1, <1>0 DEF NoneSkipped
    <3>1. r > base
      BY <1>0 DEF ListInv, KeepsNewest, base
    <3> QED BY <3>1, <1>0, <1>2, <1>3, <1>4 DEF ListInv, NoneSkipped
  <2> QED BY <2>3, <2>4, <2>5 DEF ListInv
<1>6. CASE ~Fits(grown)
  <2>1. /\ m_list' = Tail(grown)
        /\ m_cur' = MovedOff(grown, cur)
        /\ freed' = freed \union {base + 1}
    BY <1>6, <1>1 DEF push_back
  <2>2. Len(m_list) = Capacity /\ Len(grown) = Capacity + 1
    BY <1>6, <1>0, <1>1 DEF Fits
  <2>3. /\ m_list' \in Seq(Nat)
        /\ Len(m_list') = Capacity
        /\ \A i \in 1 .. Capacity : m_list'[i] = base + 1 + i
    <3> HIDE DEF grown
    <3>1. /\ Tail(grown) \in Seq(Nat) /\ Len(Tail(grown)) = Capacity
          /\ \A i \in 1 .. Capacity : Tail(grown)[i] = grown[i + 1]
      BY <2>2, <1>1
    <3>2. \A i \in 1 .. Capacity : grown[i + 1] = base + (i + 1)
      BY <2>2, <1>1
    <3> QED BY <3>1, <3>2, <2>1, <1>0
  <2>4. base' = base + 1
    BY <2>2, <2>3, <1>0 DEF base
  <2>5. m_cur' = IF cur = base + 1
                   THEN IF base + 1 < pushed + 1 THEN base + 2 ELSE End
                   ELSE cur
    <3>1. base + Len(grown) = pushed + 1
      BY <1>0, <1>1 DEF base
    <3>2. After(grown, cur) = IF cur < pushed + 1 THEN cur + 1 ELSE End
      <4>1. cur \in (base + 1) .. (base + Len(grown))
        BY <3>1, <1>2
      <4>2. \A i \in DOMAIN grown : grown[i] = base + i
        BY <1>1
      <4> HIDE DEF grown, cur
      <4> QED BY <4>1, <4>2, <3>1, <1>0, <1>1, AfterConsecutive
    <3> QED BY <2>1, <3>2, <1>1, <1>0 DEF MovedOff
  <2>6. base + 1 < pushed + 1
    BY <2>2, <1>0 DEF base
  <2>7. m_cur' \in (base + 2) .. (pushed + 1)
    BY <2>5, <2>6, <1>2, <1>0
  <2>8. TypeOK' /\ KeepsNewest'
    <3>1. freed' = 1 .. (base + 1)
      BY <2>1, <1>0 DEF ListInv, KeepsNewest, base
    <3>2. fetched' \subseteq 1 .. pushed'
      BY <1>0 DEF ListInv, TypeOK
    <3>3. Len(m_list') = IF pushed' < Capacity THEN pushed' ELSE Capacity
      BY <2>2, <2>3, <1>0 DEF base
    <3>4. pushed' - Len(m_list') = base + 1
      BY <2>4 DEF base
    <3> QED
      BY <3>1, <3>2, <3>3, <3>4, <2>3, <2>6, <2>7, <1>0 DEF TypeOK, KeepsNewest
  <2>9. CursorInList'
    BY <2>4, <2>7, <1>0 DEF CursorInList
  <2>10. NoneSkipped'
    <3> SUFFICES ASSUME NEW r \in 1 .. (pushed + 1),
                        r \notin freed, r # base + 1, r \notin fetched
                 PROVE  m_cur' # End /\ m_cur' <= r
      BY <2>1, <1>0 DEF NoneSkipped
    <3>1. r >= base + 2
      BY <1>0 DEF ListInv, KeepsNewest, base
    <3>2. r <= pushed => m_cur # End /\ m_cur <= r
      BY DEF ListInv, NoneSkipped
    <3> QED BY <3>1, <3>2, <2>5, <2>6, <2>7, <1>0, <1>2, <1>3, <1>4
  <2> QED BY <2>8, <2>9, <2>10 DEF ListInv
<1> QED BY <1>5, <1>6

LEMMA FetchInvariant == ListInv /\ fetchDiag => ListInv'
<1> SUFFICES ASSUME ListInv, fetchDiag PROVE ListInv'
  OBVIOUS
<1> USE CapacityAssumption, EndAssumption
<1>0. /\ m_list \in Seq(Nat) /\ pushed \in Nat /\ base \in Nat
      /\ base + Len(m_list) = pushed
      /\ \A i \in DOMAIN m_list : m_list[i] = base + i
      /\ freed = 1 .. base
  BY MaxPushAssumption DEF ListInv, TypeOK, KeepsNewest, base
<1>1. /\ m_list' = m_list /\ pushed' = pushed /\ freed' = freed
      /\ base' = base
      /\ fetched' = fetched \union {m_cur}
  BY DEF fetchDiag, base
<1>2. m_cur \in (base + 1) .. pushed
  BY DEF ListInv, CursorInList, fetchDiag, diagAvail
<1>3. m_cur' = IF m_cur < pushed THEN m_cur + 1 ELSE End
  BY <1>0, <1>2, AfterConsecutive DEF fetchDiag
<1>4. TypeOK' /\ KeepsNewest'
  <2>1. m_cur' \in Nat \union {End}
    BY <1>0, <1>2, <1>3
  <2>2. fetched' \subseteq 1 .. pushed
    BY <1>0, <1>1, <1>2 DEF ListInv, TypeOK
  <2>3. TypeOK'
    BY <2>1, <2>2, <1>1 DEF ListInv, TypeOK
  <2>4. KeepsNewest'
    BY <1>1 DEF ListInv, KeepsNewest
  <2> QED BY <2>3, <2>4
<1>5. CursorInList'
  <2> SUFFICES ASSUME m_cur' # End PROVE m_cur' \in (base + 1) .. pushed
    BY <1>1 DEF CursorInList
  <2>1. m_cur < pushed /\ m_cur' = m_cur + 1
    BY <1>3
  <2> QED BY <2>1, <1>0, <1>2
<1>6. NoneSkipped'
  <2> SUFFICES ASSUME NEW r \in 1 .. pushed,
                      r \notin freed, r \notin fetched, r # m_cur
               PROVE  m_cur' # End /\ m_cur' <= r
    BY <1>1 DEF NoneSkipped
  <2>1. m_cur <= r
    BY DEF ListInv, NoneSkipped
  <2> QED BY <2>1, <1>0, <1>2, <1>3
<1> QED BY <1>4, <1>5, <1>6 DEF ListInv

LEMMA StutterInvariant == ListInv /\ UNCHANGED vars => ListInv'
BY DEF ListInv, TypeOK, KeepsNewest, CursorInList, NoneSkipped, base, vars

\* What holds between two calls on a diagnostic list: see ListInv.
THEOREM ListInductive == Spec => []ListInv
<1>1. ListInv /\ [Next]_vars => ListInv'
  BY PushInvariant, FetchInvariant, StutterInvariant DEF Next
<1> QED BY <1>1, InitInvariant, PTL DEF Spec

\* The list, the iterator and the histories stay inside their types.
THEOREM ListTypeCorrect == Spec => []TypeOK
BY ListInductive, PTL DEF ListInv

\* push_back() keeps the newest records and deletes the oldest, whatever the
\* capacity.
THEOREM NewestKept == Spec => []KeepsNewest
BY ListInductive, PTL DEF ListInv

\* The iterator fetchDiag() dereferences never designates a deleted record.
THEOREM CursorNeverDangles == Spec => []CursorAlive
<1>1. ListInv => CursorAlive
  <2> SUFFICES ASSUME ListInv, m_cur # End
               PROVE  m_cur \in 1 .. pushed /\ m_cur \notin freed
    BY DEF CursorAlive
  <2>1. pushed \in Nat /\ base \in Nat /\ freed = 1 .. base
    BY CapacityAssumption, MaxPushAssumption DEF ListInv, TypeOK, KeepsNewest, base
  <2> QED BY <2>1 DEF ListInv, CursorInList
<1> QED BY <1>1, ListInductive, PTL

\* No record is deleted or passed over by the iterator's moves alone: what is
\* in the list and unread can still be fetched.
THEOREM UnreadReachable == Spec => []NoneSkipped
BY ListInductive, PTL DEF ListInv

\* The three together: what a reader of the diagnostics relies on.
THEOREM ListStaysSound == Spec => []ListSound
<1>1. KeepsNewest /\ CursorAlive /\ NoneSkipped => ListSound
  BY DEF ListSound
<1> QED BY <1>1, NewestKept, CursorNeverDangles, UnreadReachable, PTL

-----------------------------------------------------------------------------
(* The shared pointers                                                     *)

Places == [Ptrs -> Handles \union {Gone}]

Has(h, c) == h # Gone /\ h.m_count = c
Of(f, c)  == {p \in Ptrs : Has(f[p], c)}
One(h, c) == IF Has(h, c) THEN 1 ELSE 0

\* OwnedTogether, said of any memory.
Counted(f, n) == \A c \in Counters : n[c] = Cardinality(Of(f, c))
Apart(f) ==
  \A p, q \in Ptrs :
    f[p] # Gone /\ f[q] # Gone =>
      /\ f[p].m_count = f[q].m_count => f[p].m_pointee = f[q].m_pointee
      /\ f[p].m_pointee = f[q].m_pointee /\ f[p].m_pointee # Null =>
           f[p].m_count = f[q].m_count
StillHeld(f, objects) ==
  \A x \in Pointees : x \in objects <=> \E p \in Ptrs : f[p] # Gone /\ f[p].m_pointee = x

Owned(f, n, objects) ==
  /\ f \in Places /\ n \in [Counters -> Nat] /\ objects \subseteq Pointees
  /\ Counted(f, n) /\ Apart(f) /\ StillHeld(f, objects)

\* A handle a call may write: none, one that is in use, or a new one.
Given(f, n, objects, h) ==
  \/ h = Gone
  \/ h \in Handles /\ \E q \in Ptrs : f[q] = h
  \/ h \in Handles /\ n[h.m_count] = 0 /\ h.m_pointee \notin objects

\* The memory when the new handle is counted and the old one is not yet released.
TakenOver(n, h) == IF h = Gone THEN n ELSE [n EXCEPT ![h.m_count] = @ + 1]
Made(objects, h) == IF h = Gone THEN objects ELSE objects \union ({h.m_pointee} \ {Null})

-----------------------------------------------------------------------------
(* Counting                                                                *)

LEMMA FiniteOf ==
  ASSUME NEW f, NEW c
  PROVE  IsFiniteSet(Of(f, c)) /\ Cardinality(Of(f, c)) \in Nat
<1>1. Of(f, c) \in SUBSET Ptrs
  BY DEF Of
<1>2. IsFiniteSet(Of(f, c))
  BY <1>1, PlacesAssumption, FS_Subset
<1> QED BY <1>2, FS_CardinalityType

\* A variable counts for one.
LEMMA Without ==
  ASSUME NEW f, NEW c, NEW p \in Ptrs
  PROVE  Cardinality(Of(f, c)) = Cardinality(Of(f, c) \ {p}) + One(f[p], c)
<1>1. IsFiniteSet(Of(f, c)) /\ Cardinality(Of(f, c)) \in Nat
  BY FiniteOf
<1>2. Cardinality(Of(f, c) \ {p}) = IF p \in Of(f, c) THEN Cardinality(Of(f, c)) - 1
                                                      ELSE Cardinality(Of(f, c))
  BY <1>1, FS_RemoveElement
<1>3. p \in Of(f, c) <=> Has(f[p], c)
  BY DEF Of
<1> QED BY <1>1, <1>2, <1>3 DEF One

LEMMA Replaced ==
  ASSUME NEW f \in Places, NEW c, NEW p \in Ptrs, NEW h \in Handles \union {Gone}
  PROVE  Cardinality(Of([f EXCEPT ![p] = h], c))
           = Cardinality(Of(f, c)) - One(f[p], c) + One(h, c)
<1> DEFINE g == [f EXCEPT ![p] = h]
<1>1. g[p] = h /\ \A q \in Ptrs \ {p} : g[q] = f[q]
  BY DEF Places
<1>2. Of(g, c) \ {p} = Of(f, c) \ {p}
  BY <1>1 DEF Of
<1>3. Cardinality(Of(g, c)) = Cardinality(Of(g, c) \ {p}) + One(g[p], c)
  BY Without
<1>4. Cardinality(Of(f, c)) = Cardinality(Of(f, c) \ {p}) + One(f[p], c)
  BY Without
<1>5. IsFiniteSet(Of(f, c) \ {p})
  BY FiniteOf, FS_RemoveElement
<1>6. Cardinality(Of(f, c) \ {p}) \in Nat /\ One(f[p], c) \in Nat /\ One(h, c) \in Nat
  BY <1>5, FS_CardinalityType DEF One
<1> HIDE DEF g
<1>7. Cardinality(Of(g, c)) = Cardinality(Of(f, c) \ {p}) + One(h, c)
  BY <1>1, <1>2, <1>3
<1>8. Cardinality(Of(g, c)) = Cardinality(Of(f, c)) - One(f[p], c) + One(h, c)
  BY <1>4, <1>6, <1>7
<1> QED BY <1>8 DEF g

\* A counter is zero when, and only when, nobody uses it.
LEMMA ZeroIsFree ==
  ASSUME NEW f, NEW n, Counted(f, n), NEW c \in Counters
  PROVE  n[c] = 0 <=> \A p \in Ptrs : ~Has(f[p], c)
<1>1. n[c] = Cardinality(Of(f, c)) /\ IsFiniteSet(Of(f, c))
  BY FiniteOf DEF Counted
<1>2. n[c] = 0 <=> Of(f, c) = {}
  BY <1>1, FS_EmptySet
<1> QED BY <1>2 DEF Of

-----------------------------------------------------------------------------
(* The step                                                                *)

LEMMA TakenCounts ==
  ASSUME NEW f, NEW n, NEW objects, Owned(f, n, objects),
         NEW p \in Ptrs, NEW h \in Handles \union {Gone}
  PROVE  /\ TakenOver(n, h) \in [Counters -> Nat]
         /\ \A c \in Counters : TakenOver(n, h)[c] = Cardinality(Of(f, c)) + One(h, c)
<1>1. n \in [Counters -> Nat] /\ \A c \in Counters : n[c] = Cardinality(Of(f, c))
  BY DEF Owned, Counted
<1>2. CASE h = Gone
  BY <1>1, <1>2 DEF TakenOver, One, Has
<1>3. CASE h # Gone
  <2>1. h \in Handles /\ h.m_count \in Counters
    BY <1>3 DEF Handles
  <2>2. TakenOver(n, h) = [n EXCEPT ![h.m_count] = @ + 1]
    BY <1>3 DEF TakenOver
  <2>3. TakenOver(n, h) \in [Counters -> Nat]
    BY <1>1, <2>1, <2>2
  <2>4. ASSUME NEW c \in Counters
        PROVE  TakenOver(n, h)[c] = Cardinality(Of(f, c)) + One(h, c)
    BY <1>1, <1>3, <2>1, <2>2 DEF One, Has
  <2> QED BY <2>3, <2>4
<1> QED BY <1>2, <1>3

LEMMA StillApart ==
  ASSUME NEW f, NEW n, NEW objects, Owned(f, n, objects),
         NEW p \in Ptrs, NEW h \in Handles \union {Gone}, Given(f, n, objects, h)
  PROVE  /\ [f EXCEPT ![p] = h] \in Places
         /\ Apart([f EXCEPT ![p] = h])
<1> DEFINE g == [f EXCEPT ![p] = h]
<1>0. /\ f \in Places /\ g \in Places
      /\ g[p] = h /\ \A q \in Ptrs \ {p} : g[q] = f[q]
      /\ Apart(f) /\ StillHeld(f, objects) /\ Counted(f, n)
  BY DEF Owned, Places
<1> HIDE DEF g
<1>1. ASSUME NEW q \in Ptrs, f[q] # Gone, h # Gone
      PROVE  /\ f[q].m_count = h.m_count => f[q].m_pointee = h.m_pointee
             /\ f[q].m_pointee = h.m_pointee /\ h.m_pointee # Null => f[q].m_count = h.m_count
  <2>1. f[q] \in Handles /\ h \in Handles
    BY <1>0, <1>1 DEF Places
  <2>2. CASE \E r \in Ptrs : f[r] = h
    BY <1>0, <1>1, <2>2 DEF Apart
  <2>3. CASE n[h.m_count] = 0 /\ h.m_pointee \notin objects
    <3>1. f[q].m_count # h.m_count
      BY <1>0, <1>1, <2>1, <2>3, ZeroIsFree DEF Has, Handles
    <3>2. f[q].m_pointee # Null => f[q].m_pointee \in objects
      BY <1>0, <1>1, <2>1 DEF StillHeld, Handles
    <3> QED BY <2>3, <3>1, <3>2
  <2> QED BY <1>1, <2>2, <2>3 DEF Given
<1>2. Apart(g)
  <2> SUFFICES ASSUME NEW q \in Ptrs, NEW r \in Ptrs, g[q] # Gone, g[r] # Gone
               PROVE  /\ g[q].m_count = g[r].m_count => g[q].m_pointee = g[r].m_pointee
                      /\ g[q].m_pointee = g[r].m_pointee /\ g[q].m_pointee # Null =>
                           g[q].m_count = g[r].m_count
    BY DEF Apart
  <2>1. CASE q # p /\ r # p
    BY <1>0, <2>1 DEF Apart
  <2>2. CASE q = p /\ r # p
    BY <1>0, <1>1, <2>2
  <2>3. CASE q # p /\ r = p
    BY <1>0, <1>1, <2>3
  <2>4. CASE q = p /\ r = p
    BY <2>4
  <2> QED BY <2>1, <2>2, <2>3, <2>4
<1> QED BY <1>0, <1>2 DEF g

\* A variable that had no handle gets one.
LEMMA NewHandle ==
  ASSUME NEW f, NEW n, NEW objects, Owned(f, n, objects),
         NEW p \in Ptrs, f[p] = Gone,
         NEW h \in Handles, Given(f, n, objects, h)
  PROVE  Owned([f EXCEPT ![p] = h], TakenOver(n, h), Made(objects, h))
<1> DEFINE g == [f EXCEPT ![p] = h]
<1>0. /\ f \in Places /\ objects \subseteq Pointees /\ h # Gone
      /\ h.m_pointee \in Pointees \union {Null} /\ StillHeld(f, objects)
      /\ g[p] = h /\ \A q \in Ptrs \ {p} : g[q] = f[q]
  BY PlacesAssumption DEF Owned, Places, Handles
<1>1. g \in Places /\ Apart(g)
  BY StillApart
<1>2. TakenOver(n, h) \in [Counters -> Nat] /\ Counted(g, TakenOver(n, h))
  <2>1. \A c \in Counters : TakenOver(n, h)[c] = Cardinality(Of(f, c)) + One(h, c)
    BY TakenCounts
  <2>2. ASSUME NEW c \in Counters PROVE Cardinality(Of(g, c)) = Cardinality(Of(f, c)) + One(h, c)
    <3>1. Cardinality(Of(g, c)) = Cardinality(Of(f, c)) - One(f[p], c) + One(h, c)
      BY <1>0, Replaced
    <3>2. One(f[p], c) = 0 /\ Cardinality(Of(f, c)) \in Nat
      BY FiniteOf DEF One, Has
    <3> HIDE DEF g
    <3> QED BY <3>1, <3>2
  <2>3. TakenOver(n, h) \in [Counters -> Nat]
    BY TakenCounts
  <2> HIDE DEF g
  <2> QED BY <2>1, <2>2, <2>3 DEF Counted
<1> HIDE DEF g
<1>3. Made(objects, h) \subseteq Pointees
  BY <1>0 DEF Made
<1>4. StillHeld(g, Made(objects, h))
  <2> SUFFICES ASSUME NEW x \in Pointees
               PROVE  x \in Made(objects, h) <=> \E q \in Ptrs : g[q] # Gone /\ g[q].m_pointee = x
    BY DEF StillHeld
  <2>1. x \in Made(objects, h) <=> x \in objects \/ x = h.m_pointee
    BY <1>0, PlacesAssumption DEF Made
  <2>2. x \in objects <=> \E q \in Ptrs : f[q] # Gone /\ f[q].m_pointee = x
    BY <1>0 DEF StillHeld
  <2>3. (\E q \in Ptrs : g[q] # Gone /\ g[q].m_pointee = x)
          <=> x = h.m_pointee \/ \E q \in Ptrs : f[q] # Gone /\ f[q].m_pointee = x
    BY <1>0
  <2> QED BY <2>1, <2>2, <2>3
<1>5. Owned(g, TakenOver(n, h), Made(objects, h))
  BY <1>1, <1>2, <1>3, <1>4 DEF Owned
<1> QED BY <1>5 DEF g

\* A variable that had a handle loses it, for another one or for none.
LEMMA ReplacedHandle ==
  ASSUME NEW f, NEW n, NEW objects, Owned(f, n, objects),
         NEW p \in Ptrs, f[p] # Gone,
         NEW h \in Handles \union {Gone}, Given(f, n, objects, h)
  PROVE  LET r == Release(TakenOver(n, h), Made(objects, h), f[p])
         IN  Owned([f EXCEPT ![p] = h], r.count, r.alive) /\ ~r.fault
<1> DEFINE g    == [f EXCEPT ![p] = h]
           o    == f[p]
           left == TakenOver(n, h)[o.m_count] - 1
           r    == Release(TakenOver(n, h), Made(objects, h), o)
<1>0. /\ f \in Places /\ objects \subseteq Pointees /\ StillHeld(f, objects) /\ Apart(f)
      /\ o \in Handles /\ o.m_count \in Counters /\ o.m_pointee \in Pointees \union {Null}
      /\ g[p] = h /\ \A q \in Ptrs \ {p} : g[q] = f[q]
  BY DEF Owned, Places, Handles
<1>1. g \in Places /\ Apart(g)
  BY StillApart
<1>2. /\ TakenOver(n, h) \in [Counters -> Nat]
      /\ \A c \in Counters : TakenOver(n, h)[c] = Cardinality(Of(f, c)) + One(h, c)
  BY TakenCounts
<1>3. \A c \in Counters : Cardinality(Of(g, c)) = TakenOver(n, h)[c] - One(o, c)
  <2> SUFFICES ASSUME NEW c \in Counters
               PROVE  Cardinality(Of(g, c)) = TakenOver(n, h)[c] - One(o, c)
    OBVIOUS
  <2>1. Cardinality(Of(g, c)) = Cardinality(Of(f, c)) - One(o, c) + One(h, c)
    BY <1>0, Replaced
  <2>2. Cardinality(Of(f, c)) \in Nat /\ One(o, c) \in Nat /\ One(h, c) \in Nat
    BY FiniteOf DEF One
  <2> HIDE DEF g, o
  <2> QED BY <1>2, <2>1, <2>2
<1>4. \A c \in Counters : Cardinality(Of(g, c)) \in Nat
  BY FiniteOf
<1>5. One(o, o.m_count) = 1 /\ \A c \in Counters : c # o.m_count => One(o, c) = 0
  BY DEF One, Has
<1>6. r = [count |-> [TakenOver(n, h) EXCEPT ![o.m_count] = left],
           alive |-> IF left = 0 THEN Made(objects, h) \ {o.m_pointee} ELSE Made(objects, h),
           fault |-> TakenOver(n, h)[o.m_count] = 0
                       \/ (left = 0 /\ o.m_pointee \notin Made(objects, h) \union {Null})]
  BY DEF Release
<1>7. f[p] = o /\ o # Gone
  OBVIOUS
<1> HIDE DEF g, o, r
<1>8. left \in Nat /\ left = Cardinality(Of(g, o.m_count)) /\ TakenOver(n, h)[o.m_count] # 0
  BY <1>0, <1>2, <1>3, <1>4, <1>5
<1>9. r.count \in [Counters -> Nat] /\ Counted(g, r.count)
  <2>1. r.count = [TakenOver(n, h) EXCEPT ![o.m_count] = left]
    BY <1>6
  <2>2. r.count \in [Counters -> Nat]
    BY <2>1, <1>0, <1>2, <1>8
  <2>3. ASSUME NEW c \in Counters PROVE r.count[c] = Cardinality(Of(g, c))
    BY <2>1, <1>0, <1>2, <1>3, <1>5, <1>8, <1>4
  <2> QED BY <2>2, <2>3 DEF Counted
<1>10. left = 0 <=> \A q \in Ptrs : ~Has(g[q], o.m_count)
  <2>1. r.count[o.m_count] = left
    BY <1>6, <1>0, <1>2
  <2>2. r.count[o.m_count] = 0 <=> \A q \in Ptrs : ~Has(g[q], o.m_count)
    BY <1>0, <1>9, ZeroIsFree
  <2> QED BY <2>1, <2>2
<1>11. h # Gone => h \in Handles /\ h.m_pointee \in Pointees \union {Null}
  BY DEF Handles
<1>12. Made(objects, h) \subseteq Pointees
  BY <1>0, <1>11 DEF Made
<1>13. o.m_pointee \in objects \union {Null}
  BY <1>0, <1>7 DEF StillHeld
<1>14. o.m_pointee \in Made(objects, h) \union {Null}
  BY <1>13 DEF Made
<1>15. ~r.fault
  BY <1>6, <1>8, <1>14
\* With the object of the old handle there is its counter, and the other way round.
<1>16. ASSUME NEW q \in Ptrs, g[q] # Gone, o.m_pointee # Null
       PROVE  g[q].m_pointee = o.m_pointee <=> g[q].m_count = o.m_count
  <2>1. CASE q # p
    BY <1>0, <1>7, <1>16, <2>1 DEF Apart
  <2>2. CASE q = p /\ \E s \in Ptrs : f[s] = h
    BY <1>0, <1>7, <1>16, <2>2 DEF Apart
  <2>3. CASE q = p /\ h \in Handles /\ n[h.m_count] = 0 /\ h.m_pointee \notin objects
    <3>1. o.m_pointee # h.m_pointee
      BY <1>13, <1>16, <2>3
    <3>2. o.m_count # h.m_count
      <4>1. Counted(f, n) /\ h.m_count \in Counters
        BY <2>3 DEF Owned, Handles
      <4>2. ~Has(f[p], h.m_count)
        BY <2>3, <4>1, ZeroIsFree
      <4> QED BY <1>7, <4>2 DEF Has
    <3> QED BY <1>0, <2>3, <3>1, <3>2
  <2> QED BY <1>0, <1>16, <2>1, <2>2, <2>3 DEF Given
<1>17. StillHeld(g, r.alive)
  <2> SUFFICES ASSUME NEW x \in Pointees
               PROVE  x \in r.alive <=> \E q \in Ptrs : g[q] # Gone /\ g[q].m_pointee = x
    BY DEF StillHeld
  <2>0. x # Null
    BY PlacesAssumption
  <2>1. r.alive = IF left = 0 THEN Made(objects, h) \ {o.m_pointee} ELSE Made(objects, h)
    BY <1>6
  <2>2. x \in objects <=> \E q \in Ptrs : f[q] # Gone /\ f[q].m_pointee = x
    BY <1>0 DEF StillHeld
  <2>3. x \in Made(objects, h) <=> x \in objects \/ (h # Gone /\ x = h.m_pointee)
    BY <2>0 DEF Made
  <2>4. CASE x # o.m_pointee
    BY <1>0, <1>7, <2>1, <2>2, <2>3, <2>4
  <2>5. CASE x = o.m_pointee
    <3>1. (\E q \in Ptrs : g[q] # Gone /\ g[q].m_pointee = x) <=> left # 0
      BY <1>10, <1>16, <2>0, <2>5 DEF Has
    <3>2. x \in Made(objects, h)
      BY <1>14, <2>0, <2>5
    <3> QED BY <2>1, <2>5, <3>1, <3>2
  <2> QED BY <2>4, <2>5
<1>18. r.alive \subseteq Pointees
  BY <1>6, <1>12
<1>19. Owned(g, r.count, r.alive) /\ ~r.fault
  BY <1>1, <1>9, <1>15, <1>17, <1>18 DEF Owned
<1> QED BY <1>19 DEF g, o, r

-----------------------------------------------------------------------------
(* The calls                                                               *)

PtrInv == PtrTypeOK /\ OwnedTogether

\* The invariant says that the memory is owned.
LEMMA InvariantIsOwned ==
  PtrInv <=> Owned(ptr, count, alive) /\ fault = FALSE
<1>1. \A c \in Counters : Users(c) = Of(ptr, c)
  BY DEF Users, Of, Has, Exists
<1>2. CountsUsers <=> Counted(ptr, count)
  BY <1>1 DEF CountsUsers, Counted
<1>3. SharedOrApart <=> Apart(ptr)
  BY DEF SharedOrApart, Apart, Exists
<1>4. ASSUME alive \subseteq Pointees, ptr \in Places PROVE NoneLost <=> StillHeld(ptr, alive)
  <2>1. \A p \in Ptrs : ptr[p] # Gone => ptr[p].m_pointee \in Pointees \union {Null}
    BY <1>4 DEF Places, Handles
  <2> QED BY <1>4, <2>1, PlacesAssumption DEF NoneLost, StillHeld, Exists
<1> QED BY <1>2, <1>3, <1>4 DEF PtrInv, OwnedTogether, PtrTypeOK, Owned, Places

LEMMA InitOwned == PtrInit => PtrInv
<1> SUFFICES ASSUME PtrInit PROVE PtrInv
  OBVIOUS
<1>1. \A c \in Counters : Of(ptr, c) = {}
  BY DEF PtrInit, Of, Has
<1>2. Counted(ptr, count)
  BY <1>1, FS_EmptySet DEF PtrInit, Counted
<1>3. /\ ptr \in Places /\ count \in [Counters -> Nat] /\ alive \subseteq Pointees
      /\ Apart(ptr) /\ StillHeld(ptr, alive) /\ fault = FALSE
  BY DEF PtrInit, Places, Apart, StillHeld
<1> QED BY <1>2, <1>3, InvariantIsOwned DEF Owned

\* The same said of the next state.
LEMMA OwnedIsInvariantAfter ==
  Owned(ptr', count', alive') /\ fault' = FALSE => PtrInv'
<1>1. (Owned(ptr, count, alive) /\ fault = FALSE => PtrInv)'
  BY InvariantIsOwned, PTL
<1> QED BY <1>1

\* A copy of a handle in use makes no object.
LEMMA CopyMakesNothing ==
  ASSUME NEW f, NEW n, NEW objects, Owned(f, n, objects), NEW q \in Ptrs, f[q] # Gone
  PROVE  /\ f[q] \in Handles
         /\ Given(f, n, objects, f[q])
         /\ Made(objects, f[q]) = objects
         /\ n[f[q].m_count] # 0
<1>1. f[q] \in Handles
  BY DEF Owned, Places
<1>2. f[q].m_count \in Counters /\ f[q].m_pointee \in Pointees \union {Null}
  BY <1>1 DEF Handles
<1>3. f[q].m_pointee # Null => f[q].m_pointee \in objects
  BY <1>2 DEF Owned, StillHeld
<1>4. n[f[q].m_count] # 0
  BY <1>2, ZeroIsFree DEF Owned, Has
<1> QED BY <1>1, <1>3, <1>4 DEF Given, Made

\* A handle of a new object with a free counter.
LEMMA NewHandleGiven ==
  ASSUME NEW f, NEW n, NEW objects, Owned(f, n, objects),
         NEW x \in Objects, NEW c \in Counters, n[c] = 0, x \notin objects
  PROVE  LET h == [m_pointee |-> x, m_count |-> c]
         IN  /\ h \in Handles /\ Given(f, n, objects, h)
             /\ TakenOver(n, h) = [n EXCEPT ![c] = 1]
             /\ Made(objects, h) = objects \union ({x} \ {Null})
<1> DEFINE h == [m_pointee |-> x, m_count |-> c]
<1>1. h \in Handles /\ h # Gone /\ h.m_count = c /\ h.m_pointee = x
  BY PlacesAssumption DEF Handles, Objects
<1> HIDE DEF h
<1>2. Given(f, n, objects, h)
  BY <1>1 DEF Given
<1>3. TakenOver(n, h) = [n EXCEPT ![c] = @ + 1]
  BY <1>1 DEF TakenOver
<1>4. [n EXCEPT ![c] = @ + 1] = [n EXCEPT ![c] = 1]
  BY DEF Owned
<1>5. Made(objects, h) = objects \union ({x} \ {Null})
  BY <1>1 DEF Made
<1>6. /\ h \in Handles /\ Given(f, n, objects, h)
      /\ TakenOver(n, h) = [n EXCEPT ![c] = 1]
      /\ Made(objects, h) = objects \union ({x} \ {Null})
  BY <1>1, <1>2, <1>3, <1>4, <1>5
<1> QED BY <1>6 DEF h

LEMMA ConstructOwned ==
  ASSUME PtrInv, NEW p \in Ptrs, NEW x \in Objects, NEW c \in Counters, construct(p, x, c)
  PROVE  PtrInv'
<1> DEFINE h == [m_pointee |-> x, m_count |-> c]
<1>1. Owned(ptr, count, alive)
  BY InvariantIsOwned
<1>2. fault = FALSE
  BY InvariantIsOwned
<1>3. count[c] = 0 /\ x \notin alive
  BY DEF construct
<1>4. /\ ptr[p] = Gone /\ ptr' = [ptr EXCEPT ![p] = h] /\ count' = [count EXCEPT ![c] = 1]
      /\ alive' = alive \union ({x} \ {Null}) /\ fault' = fault
  BY DEF construct, Exists
<1>5. /\ h \in Handles /\ Given(ptr, count, alive, h)
      /\ TakenOver(count, h) = [count EXCEPT ![c] = 1]
      /\ Made(alive, h) = alive \union ({x} \ {Null})
  BY <1>1, <1>3, NewHandleGiven
<1> HIDE DEF h
<1>6. Owned([ptr EXCEPT ![p] = h], TakenOver(count, h), Made(alive, h))
  BY <1>1, <1>5, <1>4, NewHandle
<1> QED BY <1>2, <1>5, <1>6, <1>4, OwnedIsInvariantAfter

LEMMA CopyOwned ==
  ASSUME PtrInv, NEW p \in Ptrs, NEW orig \in Ptrs, copy(p, orig)
  PROVE  PtrInv'
<1>1. Owned(ptr, count, alive) /\ fault = FALSE
  BY InvariantIsOwned
<1>2. /\ ptr[p] = Gone /\ ptr[orig] # Gone
      /\ ptr' = [ptr EXCEPT ![p] = ptr[orig]]
      /\ count' = TakenOver(count, ptr[orig])
      /\ fault' = (fault \/ count[ptr[orig].m_count] = 0) /\ alive' = alive
  BY DEF copy, Exists, Clone, TakenOver
<1>3. /\ ptr[orig] \in Handles /\ Given(ptr, count, alive, ptr[orig])
      /\ Made(alive, ptr[orig]) = alive /\ count[ptr[orig].m_count] # 0
  BY <1>1, <1>2, CopyMakesNothing
<1>4. Owned(ptr', count', alive')
  BY <1>1, <1>2, <1>3, NewHandle
<1> QED BY <1>1, <1>2, <1>3, <1>4, OwnedIsInvariantAfter

\* What a destructor leaves.
LEMMA FreedOwned ==
  ASSUME PtrInv, NEW p \in Ptrs, ptr[p] # Gone,
         NEW h \in Handles \union {Gone}, Given(ptr, count, alive, h),
         ptr' = [ptr EXCEPT ![p] = h],
         Freed(Release(TakenOver(count, h), Made(alive, h), ptr[p]))
  PROVE  PtrInv'
<1> DEFINE r == Release(TakenOver(count, h), Made(alive, h), ptr[p])
<1>1. Owned(ptr, count, alive) /\ fault = FALSE
  BY InvariantIsOwned
<1>2. Owned([ptr EXCEPT ![p] = h], r.count, r.alive) /\ ~r.fault
  BY <1>1, ReplacedHandle
<1>3. count' = r.count /\ alive' = r.alive /\ fault' = (fault \/ r.fault)
  BY DEF Freed
<1> HIDE DEF r
<1> QED BY <1>1, <1>2, <1>3, OwnedIsInvariantAfter

LEMMA AssignOwned ==
  ASSUME PtrInv, NEW p \in Ptrs, NEW orig \in Ptrs, assign(p, orig)
  PROVE  PtrInv'
<1>1. Owned(ptr, count, alive)
  BY InvariantIsOwned
<1>2. /\ ptr[p] # Gone /\ ptr[orig] # Gone
      /\ ptr' = [ptr EXCEPT ![p] = ptr[orig]]
      /\ Freed(Release(TakenOver(count, ptr[orig]), alive, ptr[p]))
  BY DEF assign, Exists, Clone, TakenOver
<1>3. /\ ptr[orig] \in Handles /\ Given(ptr, count, alive, ptr[orig])
      /\ Made(alive, ptr[orig]) = alive
  BY <1>1, <1>2, CopyMakesNothing
<1> QED BY <1>2, <1>3, FreedOwned

LEMMA DestroyOwned ==
  ASSUME PtrInv, NEW p \in Ptrs, destroy(p)
  PROVE  PtrInv'
<1>1. /\ ptr[p] # Gone /\ ptr' = [ptr EXCEPT ![p] = Gone]
      /\ Freed(Release(count, alive, ptr[p]))
  BY DEF destroy, Exists
<1>2. TakenOver(count, Gone) = count /\ Made(alive, Gone) = alive /\ Given(ptr, count, alive, Gone)
  BY DEF TakenOver, Made, Given
<1> QED BY <1>1, <1>2, FreedOwned

LEMMA ResetToOwned ==
  ASSUME PtrInv, NEW p \in Ptrs, NEW x \in Objects, NEW c \in Counters, resetTo(p, x, c)
  PROVE  PtrInv'
<1> DEFINE h == [m_pointee |-> x, m_count |-> c]
<1>1. Owned(ptr, count, alive)
  BY InvariantIsOwned
<1>2. /\ ptr[p] # Gone /\ count[c] = 0 /\ x \notin alive
      /\ ptr' = [ptr EXCEPT ![p] = h]
      /\ Freed(Release([count EXCEPT ![c] = 1], alive \union ({x} \ {Null}), ptr[p]))
  BY DEF resetTo, Exists
<1>3. /\ h \in Handles /\ Given(ptr, count, alive, h)
      /\ TakenOver(count, h) = [count EXCEPT ![c] = 1]
      /\ Made(alive, h) = alive \union ({x} \ {Null})
  BY <1>1, <1>2, NewHandleGiven
<1> HIDE DEF h
<1> QED BY <1>2, <1>3, FreedOwned

LEMMA SwapOwned ==
  ASSUME PtrInv, NEW p \in Ptrs, NEW q \in Ptrs, swap(p, q)
  PROVE  PtrInv'
<1> DEFINE f == [ptr EXCEPT ![p] = ptr[q]]
           g == [f EXCEPT ![q] = ptr[p]]
<1>1. /\ Owned(ptr, count, alive) /\ fault = FALSE
      /\ ptr \in Places /\ Counted(ptr, count) /\ Apart(ptr) /\ StillHeld(ptr, alive)
  BY InvariantIsOwned DEF Owned
<1>2. /\ ptr' = g /\ count' = count /\ alive' = alive /\ fault' = fault
  BY DEF swap
<1>3. ptr[p] \in Handles \union {Gone} /\ ptr[q] \in Handles \union {Gone}
  BY <1>1 DEF Places
<1>4. f \in Places /\ g \in Places /\ f[q] = ptr[q]
  BY <1>1, <1>3 DEF Places
<1>5. g[p] = ptr[q] /\ g[q] = ptr[p] /\ \A r \in Ptrs \ {p, q} : g[r] = ptr[r]
  BY <1>1, <1>3 DEF Places
<1>6. ASSUME NEW c \in Counters PROVE Cardinality(Of(g, c)) = Cardinality(Of(ptr, c))
  <2>1. Cardinality(Of(g, c)) = Cardinality(Of(f, c)) - One(f[q], c) + One(ptr[p], c)
    BY <1>3, <1>4, Replaced
  <2>2. Cardinality(Of(f, c)) = Cardinality(Of(ptr, c)) - One(ptr[p], c) + One(ptr[q], c)
    BY <1>1, <1>3, Replaced
  <2>3. /\ Cardinality(Of(ptr, c)) \in Nat /\ Cardinality(Of(f, c)) \in Nat
        /\ One(ptr[p], c) \in Nat /\ One(ptr[q], c) \in Nat
    BY FiniteOf DEF One
  <2>4. One(f[q], c) = One(ptr[q], c)
    BY <1>4
  <2> HIDE DEF f, g
  <2> QED BY <2>1, <2>2, <2>3, <2>4
<1> HIDE DEF f, g
<1>7. Counted(g, count)
  BY <1>1, <1>6 DEF Counted
\* Every variable has the handle of some variable, and every handle is in some.
<1>8. /\ \A r \in Ptrs : \E s \in Ptrs : g[r] = ptr[s]
      /\ \A s \in Ptrs : \E r \in Ptrs : g[r] = ptr[s]
  BY <1>5
<1>9. Apart(g)
  <2> SUFFICES ASSUME NEW r \in Ptrs, NEW t \in Ptrs, g[r] # Gone, g[t] # Gone
               PROVE  /\ g[r].m_count = g[t].m_count => g[r].m_pointee = g[t].m_pointee
                      /\ g[r].m_pointee = g[t].m_pointee /\ g[r].m_pointee # Null =>
                           g[r].m_count = g[t].m_count
    BY DEF Apart
  <2>1. PICK r1 \in Ptrs : g[r] = ptr[r1]
    BY <1>8
  <2>2. PICK t1 \in Ptrs : g[t] = ptr[t1]
    BY <1>8
  <2> QED BY <1>1, <2>1, <2>2 DEF Apart
<1>10. StillHeld(g, alive)
  BY <1>1, <1>8 DEF StillHeld
<1>11. Owned(g, count, alive)
  BY <1>1, <1>4, <1>7, <1>9, <1>10 DEF Owned
<1> QED BY <1>1, <1>2, <1>11, OwnedIsInvariantAfter

\* The pointer is the only one with its counter, so the only one with its object.
LEMMA ResetOwned ==
  ASSUME PtrInv, NEW p \in Ptrs, NEW x \in Objects, reset(p, x)
  PROVE  PtrInv'
<1> DEFINE o == ptr[p]
           h == [m_pointee |-> x, m_count |-> ptr[p].m_count]
           g == [ptr EXCEPT ![p] = h]
<1>1. /\ Owned(ptr, count, alive) /\ fault = FALSE
      /\ ptr \in Places /\ count \in [Counters -> Nat] /\ alive \subseteq Pointees
      /\ Counted(ptr, count) /\ Apart(ptr) /\ StillHeld(ptr, alive)
  BY InvariantIsOwned DEF Owned
<1>2. /\ o # Gone /\ count[o.m_count] = 1 /\ x \notin alive /\ count' = count
      /\ alive' = (alive \ {o.m_pointee}) \union ({x} \ {Null})
      /\ fault' = (fault \/ o.m_pointee \notin alive \union {Null})
  BY DEF reset, Exists
<1>3. o \in Handles /\ o.m_count \in Counters /\ o.m_pointee \in Objects
  BY <1>1, <1>2 DEF Places, Handles, Objects
<1>4. h \in Handles /\ h # Gone /\ h.m_pointee = x /\ h.m_count = o.m_count
  BY <1>3, PlacesAssumption DEF Handles, Objects
<1>5. ptr' = g
  <2>1. ptr' = [ptr EXCEPT ![p].m_pointee = x]
    BY DEF reset
  <2>2. [o EXCEPT !.m_pointee = x] = h
    BY <1>3 DEF Handles
  <2> QED BY <2>1, <2>2
<1>6. g \in Places /\ g[p] = h /\ \A q \in Ptrs \ {p} : g[q] = ptr[q]
  BY <1>1, <1>4 DEF Places
<1>7. ASSUME NEW c \in Counters PROVE Cardinality(Of(g, c)) = Cardinality(Of(ptr, c))
  <2>1. Cardinality(Of(g, c)) = Cardinality(Of(ptr, c)) - One(o, c) + One(h, c)
    BY <1>1, <1>4, Replaced
  <2>2. One(o, c) = One(h, c) /\ One(h, c) \in Nat
    BY <1>2, <1>4 DEF One, Has
  <2>3. Cardinality(Of(ptr, c)) \in Nat
    BY FiniteOf
  <2> HIDE DEF g, h, o
  <2> QED BY <2>1, <2>2, <2>3
<1>8. Counted(g, count)
  BY <1>1, <1>7 DEF Counted
\* Nobody else has the counter.
<1>9. \A q \in Ptrs \ {p} : ~Has(ptr[q], o.m_count)
  <2>1. IsFiniteSet(Of(ptr, o.m_count)) /\ Cardinality(Of(ptr, o.m_count)) = 1
    BY <1>1, <1>2, <1>3, FiniteOf DEF Counted
  <2>2. \E s : Of(ptr, o.m_count) = {s}
    BY <2>1, FS_Singleton
  <2>3. p \in Of(ptr, o.m_count)
    BY <1>2 DEF Of, Has
  <2>4. Of(ptr, o.m_count) = {p}
    BY <2>2, <2>3
  <2> QED BY <2>4 DEF Of
<1>10. \A q \in Ptrs \ {p} : ptr[q] # Gone /\ o.m_pointee # Null => ptr[q].m_pointee # o.m_pointee
  BY <1>1, <1>2, <1>9 DEF Apart, Has
<1>11. \A q \in Ptrs : ptr[q] # Gone /\ x # Null => ptr[q].m_pointee # x
  BY <1>1, <1>2 DEF StillHeld, Objects
<1>12. o.m_pointee \in alive \union {Null}
  BY <1>1, <1>2, <1>3 DEF StillHeld, Objects
<1> HIDE DEF g, h, o
<1>13. Apart(g)
  <2> SUFFICES ASSUME NEW q \in Ptrs, NEW r \in Ptrs, g[q] # Gone, g[r] # Gone
               PROVE  /\ g[q].m_count = g[r].m_count => g[q].m_pointee = g[r].m_pointee
                      /\ g[q].m_pointee = g[r].m_pointee /\ g[q].m_pointee # Null =>
                           g[q].m_count = g[r].m_count
    BY DEF Apart
  <2>1. CASE q # p /\ r # p
    BY <1>1, <1>6, <2>1 DEF Apart
  <2>2. CASE q = p /\ r # p
    BY <1>4, <1>6, <1>9, <1>11, <2>2 DEF Has
  <2>3. CASE q # p /\ r = p
    BY <1>4, <1>6, <1>9, <1>11, <2>3 DEF Has
  <2>4. CASE q = p /\ r = p
    BY <2>4
  <2> QED BY <2>1, <2>2, <2>3, <2>4
<1>14. StillHeld(g, alive')
  <2> SUFFICES ASSUME NEW y \in Pointees
               PROVE  y \in alive' <=> \E q \in Ptrs : g[q] # Gone /\ g[q].m_pointee = y
    BY DEF StillHeld
  <2>0. y # Null
    BY PlacesAssumption
  <2>1. y \in alive <=> \E q \in Ptrs : ptr[q] # Gone /\ ptr[q].m_pointee = y
    BY <1>1 DEF StillHeld
  <2>2. y \in alive' <=> y = x \/ (y \in alive /\ y # o.m_pointee)
    BY <1>2, <2>0
  <2>3. o = ptr[p]
    BY DEF o
  <2>4. (\E q \in Ptrs : g[q] # Gone /\ g[q].m_pointee = y)
          <=> y = x \/ \E q \in Ptrs \ {p} : ptr[q] # Gone /\ ptr[q].m_pointee = y
    BY <1>4, <1>6
  <2> QED BY <1>10, <2>0, <2>1, <2>2, <2>3, <2>4
<1>15. alive' \subseteq Pointees
  BY <1>1, <1>2 DEF Objects
<1>16. Owned(ptr', count', alive') /\ fault' = FALSE
  BY <1>1, <1>2, <1>5, <1>6, <1>8, <1>12, <1>13, <1>14, <1>15 DEF Owned
<1> QED BY <1>16, OwnedIsInvariantAfter

LEMMA StepOwned == PtrInv /\ [PtrNext]_ptrVars => PtrInv'
<1> SUFFICES ASSUME PtrInv, [PtrNext]_ptrVars PROVE PtrInv'
  OBVIOUS
<1>1. ASSUME NEW p \in Ptrs, NEW x \in Objects, NEW c \in Counters,
             construct(p, x, c) \/ resetTo(p, x, c)
      PROVE  PtrInv'
  BY <1>1, ConstructOwned, ResetToOwned
<1>2. ASSUME NEW p \in Ptrs, NEW q \in Ptrs, copy(p, q) \/ assign(p, q) \/ swap(p, q)
      PROVE  PtrInv'
  BY <1>2, CopyOwned, AssignOwned, SwapOwned
<1>3. ASSUME NEW p \in Ptrs, destroy(p) \/ \E x \in Objects : reset(p, x)
      PROVE  PtrInv'
  BY <1>3, DestroyOwned, ResetOwned
<1>4. CASE UNCHANGED ptrVars
  BY <1>4 DEF ptrVars, PtrInv, PtrTypeOK, OwnedTogether, CountsUsers, SharedOrApart, NoneLost,
              Users, Exists
<1> QED BY <1>1, <1>2, <1>3, <1>4 DEF PtrNext

-----------------------------------------------------------------------------
(* The theorems                                                            *)

\* What the pointers, counters and objects are (the members of SmartPtr, of
\* RefCounted and of DefaultStorage).
THEOREM PtrTypeCorrect == PtrSpec => []PtrTypeOK
<1>1. PtrInv => PtrTypeOK
  BY DEF PtrInv
<1> QED BY <1>1, InitOwned, StepOwned, PTL DEF PtrSpec

\* Copies, assignments, swaps, resets and destructors of the pointers keep their
\* counters right, delete an object with its last pointer and never twice.
THEOREM PointersOwnTogether == PtrSpec => []OwnedTogether
<1>1. PtrInv => OwnedTogether
  BY DEF PtrInv
<1> QED BY <1>1, InitOwned, StepOwned, PTL DEF PtrSpec

-----------------------------------------------------------------------------
(* The large object streams                                                *)

\* Nothing was read yet.
Untouched ==
  /\ eback = EndOfBuffer /\ gptr = EndOfBuffer /\ egptr = EndOfBuffer
  /\ delivered = 0 /\ got = EndOfFile /\ back = FALSE

\* The lowest offset of the buffer that the client may still go back to: Firebird's putback
\* area keeps one byte, and MayGoBack lets its client take it once.
LowestHeld(of, at, wentBack) == IF of # "firebird" THEN 0 ELSE IF wentBack \/ at = 0 THEN at ELSE at - 1

\* A buffer that ends after the byte n of the object at its offset end holds, from low on,
\* the bytes of the object in their order.
InOrder(buf, low, end, n) ==
  /\ n - end + low >= 0
  /\ \A i \in low .. end - 1 : buf[i] = n - end + i + 1

\* A chunk that was read, and another one that has been put behind it: there
\* is no next one while the buffer has room, but in Firebird, and none of a memo.
Underway ==
  /\ eback = 0 /\ egptr \in 1 .. BufferSize /\ gptr \in 0 .. egptr
  /\ back => gptr < egptr
  /\ engine # "firebird" => delivered = size \/ egptr = BufferSize
  /\ engine = "odbc_memo" => delivered = size
  /\ InOrder(m_buf, LowestHeld(engine, gptr, back), egptr, delivered)

\* The client was told of the end.
AtEnd ==
  /\ eback = 0 /\ egptr \in 1 .. BufferSize /\ gptr = egptr
  /\ delivered = size /\ got = EndOfFile /\ back = FALSE

\* All of the object is the buffer.
InMemory ==
  /\ m_buf = [i \in 0 .. size - 1 |-> i + 1]
  /\ eback = 0 /\ egptr = size /\ delivered = 0 /\ gptr \in 0 .. size

\* The first chunk of an Overlong memo, which the reader may have read to its end or beyond.
FirstChunk ==
  /\ eback = 0 /\ egptr = EndOfBuffer /\ gptr \in 0 .. egptr
  /\ delivered = BufferSize - 1
  /\ \A i \in 0 .. BufferSize - 2 : m_buf[i] = i + 1

\* Where a stream may be.
StreamInv ==
  /\ engine \in Engines /\ size \in Nat /\ back \in BOOLEAN
  /\ delivered \in 0 .. size
  /\ engine = "memory" => InMemory
  /\ engine # "memory" => DOMAIN m_buf = 0 .. BufferSize - 1
  /\ engine # "memory" /\ ~Overlong => Untouched \/ Underway \/ AtEnd
  /\ Overlong => Untouched \/ FirstChunk \/ delivered >= BufferSize

\* A new stream has read nothing.
LEMMA StreamInitInvariant == StreamInit => StreamInv
<1> SUFFICES ASSUME StreamInit PROVE StreamInv
  OBVIOUS
<1>1. size \in Nat /\ BufferSize \in Nat \ {0}
  BY StreambufAssumption DEF StreamInit, BufferSize
<1>2. engine = "memory" => InMemory
  BY <1>1 DEF StreamInit, InMemory
<1>3. engine # "memory" => DOMAIN m_buf = 0 .. BufferSize - 1 /\ Untouched
  BY <1>1 DEF StreamInit, Untouched
<1>4. engine \in Engines /\ back \in BOOLEAN /\ (Overlong => engine # "memory")
  BY DEF StreamInit, Overlong
<1>5. delivered \in 0 .. size
  BY <1>1 DEF StreamInit
<1> QED BY <1>1, <1>2, <1>3, <1>4, <1>5, Zenon DEF StreamInv

\* A call that finds a byte in the buffer.
LEMMA FoundInBuffer ==
  ASSUME StreamInv, ~Overlong, NEW move \in BOOLEAN, Character(move), engine # "memory",
         gptr < egptr, UNCHANGED <<engine, size>>
  PROVE  StreamInv' /\ Reader!Next
<1>1. Underway
  BY StreambufAssumption DEF StreamInv, Untouched, AtEnd, EndOfBuffer, CharSize, BufferSize
<1>2. /\ got' = m_buf[gptr] /\ gptr' = IF move THEN gptr + 1 ELSE gptr
      /\ back' = (back /\ ~move)
      /\ UNCHANGED <<m_buf, eback, egptr, delivered>>
  <2>1. gptr \in DOMAIN m_buf
    BY <1>1, StreambufAssumption DEF StreamInv, Underway, BufferSize
  <2> QED BY <2>1 DEF Character, Answer, At
<1> DEFINE low == LowestHeld(engine, gptr, back)
<1>3. low \in 0 .. gptr /\ delivered \in Nat /\ egptr \in Nat /\ gptr \in Nat /\ egptr <= BufferSize
      /\ BufferSize \in Nat
  BY <1>1, StreambufAssumption DEF StreamInv, Underway, LowestHeld, BufferSize
<1>4. got' = delivered - egptr + gptr + 1
  BY <1>1, <1>2, <1>3 DEF Underway, InOrder
<1>5. PICK next \in low .. gptr' : next = LowestHeld(engine', gptr', back')
  BY <1>1, <1>2, <1>3 DEF LowestHeld, StreamInv, Underway
<1>6. InOrder(m_buf', LowestHeld(engine', gptr', back'), egptr', delivered')
  BY <1>1, <1>2, <1>3, <1>5 DEF Underway, InOrder
<1>7. Underway'
  <2>1. eback' = 0 /\ egptr' \in 1 .. BufferSize' /\ gptr' \in 0 .. egptr'
    BY <1>1, <1>2, <1>3 DEF Underway, BufferSize
  <2>2. back' => gptr' < egptr'
    BY <1>1, <1>2 DEF Underway
  <2>3. engine' # "firebird" => delivered' = size' \/ egptr' = BufferSize'
    BY <1>1, <1>2 DEF Underway, BufferSize
  <2>4. engine' = "odbc_memo" => delivered' = size'
    BY <1>1, <1>2 DEF Underway
  <2> QED BY <1>6, <2>1, <2>2, <2>3, <2>4, Zenon DEF Underway
<1>8. StreamInv'
  <2>1. engine' \in Engines /\ size' \in Nat /\ delivered' \in 0 .. size' /\ DOMAIN m_buf' = 0 .. BufferSize' - 1
    BY <1>2 DEF StreamInv, BufferSize
  <2>2. back' \in BOOLEAN /\ ~Overlong'
    BY <1>2 DEF StreamInv, Overlong, BufferSize
  <2> QED BY <1>7, <2>1, <2>2, Zenon DEF StreamInv
<1>9. Position = delivered - egptr + gptr /\ Position' = delivered - egptr + gptr'
  BY <1>2, <1>3 DEF Position, Overlong, BufferSize
<1>10. Position < size
  BY <1>3, <1>9 DEF StreamInv
<1>11. Reader!Peek \/ Reader!Read
  BY <1>2, <1>3, <1>4, <1>9, <1>10 DEF Reader!Peek, Reader!Read, Reader!Here
<1> QED BY <1>8, <1>11 DEF Reader!Next

\* A call at the end of the object, of which nothing is left to be read.
LEMMA NothingLeft ==
  ASSUME StreamInv, ~Overlong, NEW move \in BOOLEAN, Character(move), engine # "memory",
         gptr >= egptr, delivered = size, UNCHANGED <<engine, size>>
  PROVE  StreamInv' /\ Reader!Next
<1>1. /\ delivered \in Nat /\ egptr \in Nat /\ gptr \in Nat /\ gptr = egptr
      /\ BufferSize \in Nat \ {0} /\ Start \in Nat /\ Start < BufferSize
  BY StreambufAssumption DEF StreamInv, Untouched, Underway, AtEnd, EndOfBuffer, CharSize, BufferSize, Start
<1>8. back = FALSE /\ back' = FALSE
  <2>1. back \in BOOLEAN /\ ~(Underway /\ back)
    BY <1>1 DEF StreamInv, Underway
  <2> QED BY <2>1 DEF StreamInv, Untouched, AtEnd, Character
<1>2. Chunks = {0}
  BY <1>1 DEF Chunks
<1>3. PICK n \in Chunks :
        /\ Filled(n)
        /\ Answer(m_buf', IF n = 0 THEN gptr ELSE Start, IF n = 0 THEN gptr ELSE ChunkEnd(n), move)
  BY <1>1 DEF Character
<1>4. /\ got' = EndOfFile /\ UNCHANGED <<eback, egptr, gptr>> /\ delivered' = delivered
      /\ DOMAIN m_buf' = DOMAIN m_buf
  <2>1. n = 0
    BY <1>2
  <2>2. UNCHANGED <<eback, egptr>> /\ delivered' = delivered /\ DOMAIN m_buf' = DOMAIN m_buf
    BY <1>1, <1>3, <2>1 DEF Filled
  <2>3. got' = EndOfFile /\ gptr' = gptr
    BY <1>1, <1>3, <2>1 DEF Answer
  <2> QED BY <2>2, <2>3
<1>5. StreamInv'
  <2>1. Untouched => Untouched'
    BY <1>4, <1>8 DEF Untouched, EndOfBuffer, BufferSize
  <2>2. Underway \/ AtEnd => AtEnd'
    <3>1. SUFFICES ASSUME Underway \/ AtEnd PROVE AtEnd'
      OBVIOUS
    <3>2. eback = 0 /\ egptr \in 1 .. BufferSize
      BY <3>1 DEF Underway, AtEnd
    <3> QED BY <1>1, <1>4, <1>8, <3>2 DEF AtEnd, BufferSize
  <2>3. engine' \in Engines /\ size' \in Nat /\ delivered' \in 0 .. size' /\ DOMAIN m_buf' = 0 .. BufferSize' - 1
    BY <1>4 DEF StreamInv, BufferSize
  <2>4. ~Overlong'
    BY DEF StreamInv, Overlong, BufferSize
  <2> QED BY <1>8, <2>1, <2>2, <2>3, <2>4, Zenon DEF StreamInv
<1>6. Position = size /\ Position' = size
  BY <1>1, <1>4 DEF Position, Overlong, BufferSize
<1>7. Reader!Peek
  BY <1>1, <1>4, <1>6 DEF Reader!Peek, Reader!Here
<1> QED BY <1>5, <1>7 DEF Reader!Next

\* A call that has the buffer filled with the next chunk.
LEMMA NextChunk ==
  ASSUME StreamInv, ~Overlong, NEW move \in BOOLEAN, Character(move), engine # "memory",
         gptr >= egptr, delivered # size, UNCHANGED <<engine, size>>
  PROVE  StreamInv' /\ Reader!Next
<1>1. /\ delivered \in Nat /\ size \in Nat /\ delivered < size
      /\ egptr \in Nat \ {0} /\ gptr = egptr
      /\ BufferSize \in Nat \ {0} /\ Putback \in 1 .. BufferSize - 1
      /\ Start \in Nat /\ Start < BufferSize
  BY StreambufAssumption DEF StreamInv, Untouched, Underway, AtEnd, EndOfBuffer, CharSize, BufferSize, Start
<1>0. back = FALSE /\ back' = FALSE
  <2>1. back \in BOOLEAN /\ ~(Underway /\ back)
    BY <1>1 DEF StreamInv, Underway
  <2> QED BY <2>1 DEF StreamInv, Untouched, AtEnd, Character
<1>2. DOMAIN m_buf = 0 .. BufferSize - 1
  BY DEF StreamInv
<1>3. PICK n \in Chunks :
        /\ Filled(n)
        /\ Answer(m_buf', IF n = 0 THEN gptr ELSE Start, IF n = 0 THEN gptr ELSE ChunkEnd(n), move)
  BY <1>1 DEF Character
<1>18. engine = "odbc_memo" => Untouched /\ Start = 0 /\ size < BufferSize
  <2>1. SUFFICES ASSUME engine = "odbc_memo" PROVE Untouched /\ Start = 0 /\ size < BufferSize
    OBVIOUS
  <2>2. Untouched
    BY <1>1, <2>1 DEF StreamInv, Underway, AtEnd
  <2>3. Start = 0
    BY <1>1, <2>2 DEF Untouched, Start, Refilled
  <2> QED BY <1>1, <2>1, <2>2, <2>3 DEF Overlong
<1>20. engine = "odbc_memo" => n = size - delivered
  BY <1>1, <1>3, <1>18 DEF Chunks, Untouched
<1>4. n \in 1 .. BufferSize - Start /\ n <= size - delivered
  <2>1. CASE engine = "odbc_memo"
    BY <1>1, <1>18, <1>20, <2>1 DEF Untouched
  <2>2. CASE engine # "odbc_memo"
    BY <1>1, <1>3, <2>2 DEF Chunks
  <2> QED BY <2>1, <2>2
<1>5. engine # "firebird" => delivered + n = size \/ Start + n = BufferSize
  <2>1. CASE engine = "odbc_memo"
    BY <1>1, <1>20, <2>1
  <2>2. CASE engine # "odbc_memo"
    BY <1>1, <1>3, <2>2 DEF Chunks
  <2> QED BY <2>1, <2>2
<1>19. ChunkEnd(n) = Start + n
  BY <1>1, <1>4, <1>5, <1>20 DEF ChunkEnd, EndOfBuffer
<1>6. /\ eback' = 0 /\ egptr' = Start + n /\ delivered' = delivered + n
      /\ m_buf' = [i \in DOMAIN m_buf |->
                     IF i \in Start .. Start + n - 1 THEN delivered + i - Start + 1 ELSE Kept[i]]
  BY <1>1, <1>3, <1>4, <1>19 DEF Filled
<1>7. gptr' = IF move THEN Start + 1 ELSE Start
  BY <1>1, <1>3, <1>4, <1>19 DEF Answer
<1>8. got' = delivered + 1
  <2>1. m_buf'[Start] = delivered + 1 /\ Start \in DOMAIN m_buf'
    BY <1>1, <1>2, <1>4, <1>6
  <2> QED BY <2>1, <1>1, <1>3, <1>4, <1>19 DEF Answer, At
<1>17. PICK next \in Nat : next = LowestHeld(engine', gptr', back') /\ next <= gptr'
  BY <1>1, <1>7 DEF LowestHeld
<1>9. ASSUME ~Refilled
      PROVE  InOrder(m_buf', LowestHeld(engine', gptr', back'), egptr', delivered')
  <2>1. Start = 0
    BY <1>9 DEF Start
  <2>2. Untouched
    BY <1>1, <1>9 DEF StreamInv, Underway, AtEnd, Refilled
  <2>3. \A i \in 0 .. n - 1 : m_buf'[i] = i + 1
    BY <1>1, <1>2, <1>4, <1>6, <2>1, <2>2 DEF Untouched
  <2>4. delivered' = n /\ egptr' = n /\ n \in Nat
    BY <1>1, <1>4, <1>6, <2>1, <2>2 DEF Untouched
  <2>5. InOrder(m_buf', next, n, n)
    BY <1>17, <2>3, <2>4 DEF InOrder
  <2> QED BY <1>17, <2>4, <2>5
<1>10. ASSUME Refilled
       PROVE  InOrder(m_buf', LowestHeld(engine', gptr', back'), egptr', delivered')
  <2>1. Start = Putback
    BY <1>10 DEF Start
  <2>2. Underway
    BY <1>1, <1>10 DEF StreamInv, Untouched, AtEnd, Refilled
  <2> DEFINE low == LowestHeld(engine, gptr, back)
  <2>3. low \in 0 .. egptr - 1 /\ delivered - egptr + low >= 0 /\ egptr <= BufferSize
    BY <1>0, <1>1, <2>2 DEF LowestHeld, Underway, InOrder
  <2> HIDE DEF low
  <2>4. \A i \in 0 .. Putback - 1 :
          egptr - Putback + i >= low => Kept[i] = delivered - Putback + i + 1
    <3> SUFFICES ASSUME NEW i \in 0 .. Putback - 1, egptr - Putback + i >= low
                 PROVE  Kept[i] = delivered - Putback + i + 1
      OBVIOUS
    <3>1. i \in DOMAIN m_buf /\ egptr - Putback + i \in DOMAIN m_buf /\ egptr - Putback + i \in low .. egptr - 1
      BY <1>1, <1>2, <2>3
    <3>2. Kept[i] = m_buf[egptr - Putback + i]
      BY <1>10, <1>1, <3>1 DEF Kept, At
    <3>3. m_buf[egptr - Putback + i] = delivered - egptr + (egptr - Putback + i) + 1
      BY <2>2, <3>1 DEF Underway, InOrder, low
    <3> QED BY <1>1, <3>1, <3>2, <3>3
  <2>5. \A i \in 0 .. Putback - 1 : m_buf'[i] = Kept[i]
    BY <1>1, <1>2, <1>4, <1>6, <2>1
  <2>6. \A i \in Putback .. Putback + n - 1 : m_buf'[i] = delivered - Putback + i + 1
    BY <1>1, <1>2, <1>4, <1>6, <2>1
  <2>7. next <= egptr' /\ (next < Putback => egptr - Putback + next >= low)
    <3>1. CASE engine = "firebird"
      <4>1. low = egptr - 1
        BY <1>0, <1>1, <3>1 DEF LowestHeld, low
      <4>2. next \in Putback - 1 .. Putback
        BY <1>0, <1>1, <1>6, <1>7, <1>17, <2>1, <3>1 DEF LowestHeld
      <4> QED BY <1>1, <1>4, <1>6, <1>7, <1>17, <2>1, <4>1, <4>2
    <3>2. CASE engine # "firebird"
      <4>1. low = 0 /\ next = 0
        BY <1>17, <3>2 DEF LowestHeld, low
      <4>2. egptr = BufferSize
        BY <1>1, <2>2, <3>2 DEF Underway
      <4> QED BY <1>1, <1>4, <1>6, <1>7, <1>17, <2>1, <4>1, <4>2
    <3> QED BY <3>1, <3>2
  <2>8. delivered' - egptr' = delivered - Putback
    BY <1>1, <1>4, <1>6, <2>1
  <2>9. delivered - Putback + next >= 0
    BY <1>1, <1>17, <2>3, <2>7
  <2>10. \A i \in next .. egptr' - 1 : m_buf'[i] = delivered - Putback + i + 1
    <3> SUFFICES ASSUME NEW i \in next .. egptr' - 1
                 PROVE  m_buf'[i] = delivered - Putback + i + 1
      OBVIOUS
    <3>1. CASE i < Putback
      <4>1. i \in 0 .. Putback - 1 /\ egptr - Putback + i >= low
        BY <1>1, <1>17, <2>3, <2>7, <3>1
      <4> QED BY <4>1, <2>4, <2>5
    <3>2. CASE i >= Putback
      BY <1>1, <1>4, <1>6, <1>17, <2>1, <2>6, <2>7, <3>2
    <3> QED BY <1>1, <1>17, <2>7, <3>1, <3>2
  <2>11. egptr' \in Nat /\ delivered' \in Nat
    BY <1>1, <1>4, <1>6
  <2>12. InOrder(m_buf', next, egptr', delivered')
    BY <1>17, <2>8, <2>9, <2>10, <2>11 DEF InOrder
  <2> QED BY <1>17, <2>12
<1>11. Underway'
  <2>1. eback' = 0 /\ egptr' \in 1 .. BufferSize' /\ gptr' \in 0 .. egptr'
    BY <1>1, <1>4, <1>6, <1>7 DEF BufferSize
  <2>2. engine' # "firebird" => delivered' = size' \/ egptr' = BufferSize'
    BY <1>5, <1>6 DEF BufferSize
  <2>4. engine' = "odbc_memo" => delivered' = size'
    BY <1>1, <1>4, <1>6, <1>20
  <2>3. InOrder(m_buf', LowestHeld(engine', gptr', back'), egptr', delivered')
    BY <1>9, <1>10
  <2> QED BY <1>0, <2>1, <2>2, <2>3, <2>4, Zenon DEF Underway
<1>12. StreamInv'
  <2>1. engine' \in Engines /\ size' \in Nat /\ ~Overlong'
    BY DEF StreamInv, Overlong, BufferSize
  <2>2. delivered' \in 0 .. size' /\ DOMAIN m_buf' = 0 .. BufferSize' - 1
    BY <1>1, <1>2, <1>4, <1>6 DEF BufferSize
  <2> QED BY <1>0, <1>11, <2>1, <2>2, Zenon DEF StreamInv
<1>13. Position = delivered /\ Position' = delivered - Start + gptr'
  BY <1>1, <1>4, <1>6, <1>7 DEF Position, Overlong, BufferSize
<1>14. Reader!Peek \/ Reader!Read
  BY <1>1, <1>7, <1>8, <1>13 DEF Reader!Peek, Reader!Read, Reader!Here
<1> QED BY <1>12, <1>14 DEF Reader!Next

\* A call that reads a byte of an object that is the buffer itself.
LEMMA CharacterInMemory ==
  ASSUME StreamInv, NEW move \in BOOLEAN, Character(move), engine = "memory", UNCHANGED <<engine, size>>
  PROVE  StreamInv' /\ Reader!Next
<1>1. InMemory /\ size \in Nat
  BY DEF StreamInv
<1>2. Answer(m_buf, gptr, egptr, move) /\ UNCHANGED <<m_buf, eback, egptr, delivered>>
      /\ back' \in BOOLEAN
  BY DEF Character, StreamInv
<1>3. /\ got' = IF gptr < size THEN gptr + 1 ELSE EndOfFile
      /\ gptr' = IF gptr < size /\ move THEN gptr + 1 ELSE gptr
  BY <1>1, <1>2 DEF InMemory, Answer, At
<1>4. StreamInv'
  BY <1>1, <1>2, <1>3 DEF StreamInv, InMemory, Overlong, BufferSize
<1>5. Position = gptr /\ Position' = gptr'
  BY DEF Position
<1>6. Reader!Peek \/ Reader!Read
  BY <1>1, <1>3, <1>5 DEF Reader!Peek, Reader!Read, Reader!Here, InMemory
<1> QED BY <1>4, <1>6 DEF Reader!Next

\* The client goes back within a chunk: what it may still reach is in order as it was.
LEMMA StillUnderway ==
  ASSUME StreamInv, ~Overlong, engine # "memory", Underway,
         InOrder(m_buf', LowestHeld(engine', gptr', back'), egptr', delivered'),
         eback' = 0, egptr' \in 1 .. BufferSize', gptr' \in 0 .. egptr', gptr' < egptr', back' \in BOOLEAN,
         UNCHANGED <<engine, size, m_buf, eback, egptr, delivered>>
  PROVE  StreamInv'
<1>1. engine' # "firebird" => delivered' = size' \/ egptr' = BufferSize'
  BY DEF Underway, BufferSize
<1>4. engine' = "odbc_memo" => delivered' = size'
  BY DEF Underway
<1>2. Underway'
  BY <1>1, <1>4, Zenon DEF Underway
<1>3. engine' \in Engines /\ size' \in Nat /\ delivered' \in 0 .. size' /\ DOMAIN m_buf' = 0 .. BufferSize' - 1
  BY DEF StreamInv, BufferSize
<1>5. ~Overlong'
  BY DEF StreamInv, Overlong, BufferSize
<1> QED BY <1>2, <1>3, <1>5, Zenon DEF StreamInv

\* The client that goes back is given the byte before the one it read last.
LEMMA GoesBack ==
  ASSUME StreamInv, ~Overlong, MayGoBack, pbackfail
  PROVE  StreamInv' /\ Reader!Next
<1>1. back' = TRUE /\ UNCHANGED <<engine, size, m_buf, eback, egptr, delivered>>
  BY DEF pbackfail
<1>2. CASE engine = "memory"
  <2>1. InMemory /\ size \in Nat
    BY <1>2 DEF StreamInv
  <2>2. IF gptr > 0 THEN gptr' = gptr - 1 /\ got' = gptr ELSE gptr' = gptr /\ got' = EndOfFile
    BY <2>1 DEF pbackfail, InMemory, At
  <2>3. StreamInv'
    BY <1>1, <1>2, <2>1, <2>2 DEF StreamInv, InMemory, Overlong, BufferSize
  <2>4. Position = gptr /\ Position' = gptr'
    BY <1>1, <1>2 DEF Position
  <2>5. Reader!Back
    BY <2>1, <2>2, <2>4 DEF Reader!Back, InMemory
  <2> QED BY <1>1, <2>3, <2>5 DEF Reader!Next
<1>3. CASE engine # "memory"
  <2>1. Underway /\ (engine = "firebird" => back = FALSE)
    BY <1>3 DEF MayGoBack, StreamInv, Untouched, AtEnd
  <2>2. /\ DOMAIN m_buf = 0 .. BufferSize - 1 /\ BufferSize \in Nat /\ egptr \in Nat /\ gptr \in Nat
        /\ delivered \in Nat /\ size \in Nat /\ gptr <= egptr /\ egptr <= BufferSize /\ egptr > 0 /\ eback = 0
    BY <1>3, <2>1, StreambufAssumption DEF StreamInv, Underway, BufferSize
  <2>3. Position = delivered - egptr + gptr /\ Position' = delivered - egptr + gptr'
    BY <1>1, <1>3, <2>2 DEF Position, pbackfail, Overlong, BufferSize
  <2>4. CASE gptr > 0
    <3>1. gptr' = gptr - 1
      BY <2>2, <2>4 DEF pbackfail
    <3>2. got' = m_buf[gptr - 1]
      BY <2>2, <2>4 DEF pbackfail, At
    <3> DEFINE low == LowestHeld(engine, gptr, back)
    <3>3. PICK next \in low .. gptr - 1 : next = LowestHeld(engine', gptr', back') /\ low \in Nat
      BY <1>1, <2>1, <2>2, <2>4, <3>1 DEF LowestHeld
    <3>4. got' = delivered - egptr + gptr /\ delivered - egptr + gptr > 0
      BY <2>1, <2>2, <3>2, <3>3 DEF Underway, InOrder
    <3>8. InOrder(m_buf, low, egptr, delivered)
      BY <2>1 DEF Underway
    <3> HIDE DEF low
    <3>9. InOrder(m_buf, next, egptr, delivered)
      BY <2>2, <3>3, <3>8 DEF InOrder
    <3>5. InOrder(m_buf', LowestHeld(engine', gptr', back'), egptr', delivered')
      BY <1>1, <3>3, <3>9
    <3>6. StreamInv'
      <4>1. eback' = 0 /\ egptr' \in 1 .. BufferSize' /\ gptr' \in 0 .. egptr' /\ gptr' < egptr'
        BY <1>1, <2>2, <2>4, <3>1 DEF BufferSize
      <4> QED BY <1>3, <3>5, <4>1, StillUnderway, <1>1, <2>1
    <3>7. Reader!Back
      BY <2>2, <2>3, <3>1, <3>4 DEF Reader!Back
    <3> QED BY <1>1, <3>6, <3>7 DEF Reader!Next
  <2>5. CASE gptr = 0
    <3>1. gptr' = gptr /\ got' = EndOfFile
      BY <2>2, <2>5 DEF pbackfail
    <3>2. LowestHeld(engine', gptr', back') = LowestHeld(engine, gptr, back)
      BY <1>1, <2>5, <3>1 DEF LowestHeld
    <3>3. InOrder(m_buf', LowestHeld(engine', gptr', back'), egptr', delivered')
      BY <1>1, <2>1, <3>2 DEF Underway
    <3>4. StreamInv'
      <4>1. eback' = 0 /\ egptr' \in 1 .. BufferSize' /\ gptr' \in 0 .. egptr' /\ gptr' < egptr'
        BY <1>1, <2>2, <2>5, <3>1 DEF BufferSize
      <4> QED BY <1>3, <3>3, <4>1, StillUnderway, <1>1, <2>1
    <3>5. Reader!Back
      BY <2>3, <3>1 DEF Reader!Back
    <3> QED BY <1>1, <3>4, <3>5 DEF Reader!Next
  <2> QED BY <2>2, <2>4, <2>5
<1> QED BY <1>2, <1>3

\* The stream over the object in memory is moved.
LEMMA MovedInMemory ==
  ASSUME StreamInv, NEW p \in 0 .. size, NEW answer, Moved(p, answer)
  PROVE  StreamInv' /\ Position' = p /\ Position = gptr /\ gptr \in 0 .. size /\ got' = answer
BY DEF Moved, StreamInv, InMemory, Overlong, BufferSize, Position

\* A memo whose first chunk is its reader's, whatever its gptr is then, or which has been
\* filled again.
LEMMA OverlongKept ==
  ASSUME StreamInv, Overlong, UNCHANGED <<engine, size>>, back' \in BOOLEAN,
         DOMAIN m_buf' = DOMAIN m_buf, delivered' \in 0 .. size,
         FirstChunk' \/ delivered' >= BufferSize
  PROVE  StreamInv'
<1>1. engine = "odbc_memo" /\ BufferSize' = BufferSize /\ Overlong'
  BY DEF Overlong, BufferSize
<1>2. engine' \in Engines /\ size' \in Nat /\ delivered' \in 0 .. size' /\ DOMAIN m_buf' = 0 .. BufferSize' - 1
  BY <1>1 DEF StreamInv
<1>3. engine' # "memory" /\ (FirstChunk' \/ delivered' >= BufferSize')
  BY <1>1
<1> QED BY <1>1, <1>2, <1>3, Zenon DEF StreamInv

\* A character of an Overlong memo: the reader's, from the first chunk.
LEMMA OverlongCharacter ==
  ASSUME StreamInv, Overlong, NEW move \in BOOLEAN, Character(move), UNCHANGED <<engine, size>>
  PROVE  StreamInv' /\ (Reader!Next \/ BehindChunk)
<1>1. /\ engine = "odbc_memo" /\ size \in Nat /\ BufferSize \in Nat /\ size >= BufferSize
      /\ Putback \in Nat \ {0} /\ BufferSize - Putback > 1 /\ EndOfBuffer = 4 * BufferSize
      /\ delivered \in 0 .. size /\ DOMAIN m_buf = 0 .. BufferSize - 1
  BY StreambufAssumption DEF StreamInv, Overlong, BufferSize, EndOfBuffer, CharSize
<1>2. back' \in BOOLEAN
  BY DEF StreamInv, Character
<1>3. ASSUME NEW n \in Chunks, Filled(n)
      PROVE  /\ DOMAIN m_buf' = DOMAIN m_buf /\ delivered' \in delivered .. size
             /\ n = (IF size - delivered < BufferSize - Start - 1 THEN size - delivered
                     ELSE BufferSize - Start - 1)
  BY <1>1, <1>3 DEF Chunks, Filled, Start
<1>4. CASE Untouched
  <2>1. Start = 0 /\ gptr = EndOfBuffer /\ egptr = EndOfBuffer /\ delivered = 0 /\ Position = 0
    BY <1>1, <1>4 DEF Untouched, Start, Refilled, Position
  <2>2. PICK n \in Chunks :
          /\ Filled(n)
          /\ Answer(m_buf', IF n = 0 THEN gptr ELSE Start, IF n = 0 THEN gptr ELSE ChunkEnd(n), move)
    BY <1>1, <2>1 DEF Character
  <2>3. n = BufferSize - 1 /\ n > 0 /\ ChunkEnd(n) = EndOfBuffer
    BY <1>1, <1>3, <2>1, <2>2 DEF ChunkEnd
  <2>4. /\ eback' = 0 /\ egptr' = EndOfBuffer /\ delivered' = BufferSize - 1
        /\ m_buf' = [i \in DOMAIN m_buf |-> IF i \in 0 .. BufferSize - 2 THEN i + 1 ELSE Kept[i]]
    BY <1>1, <2>1, <2>2, <2>3 DEF Filled
  <2>5. got' = 1 /\ gptr' = IF move THEN 1 ELSE 0
    <3>1. 0 \in DOMAIN m_buf' /\ m_buf'[0] = 1
      BY <1>1, <2>4
    <3> QED BY <1>1, <2>1, <2>2, <2>3, <3>1 DEF Answer, At
  <2>6. FirstChunk'
    <3>1. EndOfBuffer' = EndOfBuffer /\ BufferSize' = BufferSize
      BY DEF EndOfBuffer, BufferSize
    <3>2. \A i \in 0 .. BufferSize - 2 : m_buf'[i] = i + 1
      BY <1>1, <2>4
    <3> QED BY <1>1, <2>4, <2>5, <3>1, <3>2 DEF FirstChunk
  <2>7. StreamInv'
    BY <1>1, <1>2, <2>4, <2>6, OverlongKept
  <2>8. Position' = gptr'
    BY <1>1, <2>4 DEF Position, Overlong, BufferSize
  <2>9. Reader!Peek \/ Reader!Read
    BY <1>1, <2>1, <2>5, <2>8 DEF Reader!Peek, Reader!Read, Reader!Here
  <2> QED BY <2>7, <2>9 DEF Reader!Next
<1>5. CASE FirstChunk /\ gptr < egptr
  <2>1. /\ Answer(m_buf, gptr, egptr, move)
        /\ UNCHANGED <<m_buf, eback, egptr, delivered>>
    BY <1>5 DEF Character
  <2>2. gptr \in Nat /\ egptr \in Nat /\ Position = gptr
    BY <1>1, <1>5 DEF FirstChunk, Position
  <2>3. gptr' = (IF move THEN gptr + 1 ELSE gptr) /\ gptr' \in 0 .. egptr
    BY <1>5, <2>1, <2>2 DEF Answer
  <2>4. FirstChunk'
    <3>1. EndOfBuffer' = EndOfBuffer /\ BufferSize' = BufferSize
      BY DEF EndOfBuffer, BufferSize
    <3> QED BY <1>5, <2>1, <2>3, <3>1 DEF FirstChunk
  <2>5. StreamInv'
    BY <1>1, <1>2, <2>1, <2>4, OverlongKept
  <2>6. Position' = gptr'
    BY <1>1, <1>5, <2>1 DEF FirstChunk, Position, Overlong, BufferSize
  <2>7. CASE gptr < BufferSize - 1
    <3>1. got' = gptr + 1
      <4>1. gptr \in DOMAIN m_buf /\ m_buf[gptr] = gptr + 1
        BY <1>1, <1>5, <2>2, <2>7 DEF FirstChunk
      <4> QED BY <1>5, <2>1, <4>1 DEF Answer, At
    <3>3. gptr < size
      BY <1>1, <2>2, <2>7
    <3>2. Reader!Peek \/ Reader!Read
      BY <2>2, <2>3, <2>6, <3>1, <3>3 DEF Reader!Peek, Reader!Read, Reader!Here
    <3> QED BY <2>5, <3>2 DEF Reader!Next
  <2>8. CASE gptr >= BufferSize - 1
    BY <1>1, <1>5, <2>5, <2>8 DEF BehindChunk, FirstChunk
  <2> QED BY <1>1, <2>2, <2>7, <2>8
<1>6. CASE FirstChunk /\ ~(gptr < egptr)
  <2>1. gptr = EndOfBuffer /\ eback = 0 /\ delivered = BufferSize - 1 /\ Start = Putback
    BY <1>1, <1>6 DEF FirstChunk, Start, Refilled
  <2>2. PICK n \in Chunks : Filled(n)
    BY <1>1, <1>6 DEF Character
  <2>3. n \in Nat /\ n > 0 /\ delivered' = delivered + n
    BY <1>1, <1>3, <2>1, <2>2 DEF Filled
  <2>4. delivered' >= BufferSize /\ delivered' \in 0 .. size /\ DOMAIN m_buf' = DOMAIN m_buf
    BY <1>1, <1>3, <2>1, <2>2, <2>3
  <2>5. StreamInv'
    BY <1>2, <2>4, OverlongKept
  <2> QED BY <1>1, <2>1, <2>5 DEF BehindChunk
<1>7. CASE delivered >= BufferSize
  <2>1. BehindChunk
    BY <1>1, <1>7 DEF BehindChunk
  <2>2. DOMAIN m_buf' = DOMAIN m_buf /\ delivered' \in delivered .. size
    BY <1>1, <1>3 DEF Character
  <2>3. StreamInv'
    BY <1>1, <1>2, <1>7, <2>2, OverlongKept
  <2> QED BY <2>1, <2>3
<1> QED BY <1>4, <1>5, <1>6, <1>7 DEF StreamInv

\* The reader of an Overlong memo goes back.
LEMMA OverlongBack ==
  ASSUME StreamInv, Overlong, MayGoBack, pbackfail
  PROVE  StreamInv' /\ (Reader!Next \/ BehindChunk)
<1>1. /\ engine = "odbc_memo" /\ size \in Nat /\ BufferSize \in Nat /\ BufferSize > 1
      /\ EndOfBuffer = 4 * BufferSize
      /\ delivered \in 0 .. size /\ DOMAIN m_buf = 0 .. BufferSize - 1
  BY StreambufAssumption DEF StreamInv, Overlong, BufferSize, EndOfBuffer, CharSize
<1>2. back' \in BOOLEAN /\ UNCHANGED <<engine, size, m_buf, eback, egptr, delivered>>
  BY DEF pbackfail
<1>3. ~Untouched
  BY <1>1 DEF MayGoBack, Untouched
<1>4. CASE FirstChunk
  <2>1. gptr \in 0 .. egptr /\ eback = 0 /\ egptr \in Nat /\ Position = gptr
    BY <1>1, <1>4 DEF FirstChunk, Position
  <2>2. gptr' \in 0 .. egptr
    BY <2>1 DEF pbackfail
  <2>3. FirstChunk'
    <3>1. EndOfBuffer' = EndOfBuffer /\ BufferSize' = BufferSize
      BY <1>2 DEF EndOfBuffer, BufferSize
    <3> QED BY <1>2, <1>4, <2>2, <3>1 DEF FirstChunk
  <2>4. StreamInv'
    BY <1>1, <1>2, <2>3, OverlongKept
  <2>5. Position' = gptr'
    BY <1>1, <1>2, <1>4 DEF FirstChunk, Position, Overlong, BufferSize
  <2>6. CASE gptr >= BufferSize - 1
    BY <1>1, <1>4, <2>4, <2>6 DEF BehindChunk, FirstChunk
  <2>7. CASE gptr = 0
    <3>1. gptr' = gptr /\ got' = EndOfFile
      BY <2>1, <2>7 DEF pbackfail
    <3>2. Reader!Back
      BY <2>1, <2>5, <3>1 DEF Reader!Back
    <3> QED BY <1>2, <2>4, <3>2 DEF Reader!Next
  <2>8. CASE gptr > 0 /\ gptr < BufferSize - 1
    <3>1. gptr' = gptr - 1 /\ got' = At(m_buf, gptr - 1)
      BY <2>1, <2>8 DEF pbackfail
    <3>2. gptr - 1 \in DOMAIN m_buf /\ m_buf[gptr - 1] = gptr
      BY <1>1, <1>4, <2>1, <2>8 DEF FirstChunk
    <3>3. Reader!Back
      BY <2>1, <2>5, <2>8, <3>1, <3>2 DEF Reader!Back, At
    <3> QED BY <1>2, <2>4, <3>3 DEF Reader!Next
  <2> QED BY <1>1, <2>1, <2>6, <2>7, <2>8
<1>5. CASE delivered >= BufferSize
  <2>1. BehindChunk
    BY <1>1, <1>5 DEF BehindChunk
  <2>2. StreamInv'
    BY <1>1, <1>2, <1>5, OverlongKept
  <2> QED BY <2>1, <2>2
<1> QED BY <1>3, <1>4, <1>5 DEF StreamInv

\* Each call keeps the invariant and is a call of the reader.
LEMMA StreamStep ==
  StreamInv /\ [StreamNext]_streamVars =>
    StreamInv' /\ [Reader!Next \/ BehindChunk]_<<size, Position, got>>
<1> SUFFICES ASSUME StreamInv, [StreamNext]_streamVars
             PROVE  StreamInv' /\ [Reader!Next \/ BehindChunk]_<<size, Position, got>>
  OBVIOUS
<1>1. ASSUME NEW move \in BOOLEAN, Character(move), UNCHANGED <<engine, size>>
      PROVE  StreamInv' /\ (Reader!Next \/ BehindChunk)
  <2>1. CASE ~Overlong
    <3>1. gptr \in Int /\ egptr \in Int
      BY <2>1, StreambufAssumption
      DEF StreamInv, InMemory, Untouched, Underway, AtEnd, EndOfBuffer, CharSize, BufferSize
    <3> QED BY <1>1, <2>1, <3>1, FoundInBuffer, NothingLeft, NextChunk, CharacterInMemory
  <2>2. CASE Overlong
    BY <1>1, <2>2, OverlongCharacter
  <2> QED BY <2>1, <2>2
<1>2. CASE underflow \/ uflow
  BY <1>1, <1>2 DEF underflow, uflow
<1>3. CASE MayGoBack /\ pbackfail
  BY <1>3, GoesBack, OverlongBack
<1>4. size \in Nat
  BY DEF StreamInv
<1>5. engine = "memory" => egptr = size /\ gptr \in 0 .. size
  BY DEF StreamInv, InMemory
<1>6. ASSUME NEW p \in Nat, Moved(Seeked(p), Seeked(p))
      PROVE  StreamInv' /\ Reader!Next
  <2>1. Seeked(p) \in 0 .. size
    BY <1>4, <1>5, <1>6 DEF Seeked, Moved
  <2>2. StreamInv' /\ Position' = Seeked(p) /\ got' = Seeked(p)
    BY <1>6, <2>1, MovedInMemory
  <2>3. Reader!Seek
    BY <2>1, <2>2 DEF Reader!Seek
  <2> QED BY <1>6, <2>2, <2>3 DEF Reader!Next, Moved
<1>7. CASE \E p \in 0 .. size + 1 : seekpos(p)
  BY <1>4, <1>6, <1>7 DEF seekpos
<1>8. ASSUME NEW way \in {"beg", "cur", "end"}, NEW off \in -size .. size + 1, From(way) + off >= 0, seekoff(off, way)
      PROVE  StreamInv' /\ Reader!Next
  <2>1. From(way) + off \in Nat
    BY <1>4, <1>5, <1>8 DEF From, seekoff, Moved
  <2> QED BY <1>6, <1>8, <2>1 DEF seekoff
<1>9. ASSUME NEW n \in 0 .. size, xsgetn(n)
      PROVE  StreamInv' /\ Reader!Next
  <2> DEFINE cp == IF n > egptr - gptr THEN egptr - gptr ELSE n
  <2>1. Moved(gptr + cp, cp)
    BY <1>9 DEF xsgetn
  <2>2. cp \in 0 .. size - gptr /\ gptr + cp \in 0 .. size /\ gptr \in Nat
    BY <1>4, <1>5, <1>9 DEF xsgetn, Moved
  <2> HIDE DEF cp
  <2>3. StreamInv' /\ Position' = gptr + cp /\ Position = gptr /\ got' = cp
    BY <2>1, <2>2, MovedInMemory
  <2>4. Reader!ReadMany
    BY <2>2, <2>3 DEF Reader!ReadMany
  <2> QED BY <2>1, <2>3, <2>4 DEF Reader!Next, Moved
<1>10. CASE UNCHANGED streamVars
  <2>1. UNCHANGED <<size, Position, got>>
    BY <1>10 DEF streamVars, Position, Overlong, BufferSize
  <2>2. StreamInv'
    BY <1>10 DEF streamVars, StreamInv, InMemory, Untouched, Underway, AtEnd, FirstChunk, InOrder, LowestHeld,
              Overlong, EndOfBuffer, BufferSize
  <2> QED BY <2>1, <2>2
<1>11. CASE StreamNext
  BY <1>2, <1>3, <1>7, <1>8, <1>9, <1>11 DEF StreamNext
<1> QED BY <1>10, <1>11

\* The client of any of the four stream buffers (of an Overlong memo's, as far as its
\* first chunk goes), whatever the chunks the library gives it and whatever the order of its calls, is a reader
\* of the object: it is given the bytes of the object in their order, each byte that it goes
\* back to is the one before, the end is told at the end only, and a seek of the stream in
\* memory goes where it was asked to.
THEOREM StreamRefinement == StreamSpec => ImplementsInputStream
<1>1. StreamInit => Reader!Init
  <2> SUFFICES ASSUME StreamInit PROVE Reader!Init
    OBVIOUS
  <2>1. Position = 0
    BY StreambufAssumption DEF StreamInit, Position, EndOfBuffer, CharSize, BufferSize
  <2> QED BY <2>1 DEF StreamInit, Reader!Init
<1> QED BY <1>1, StreamInitInvariant, StreamStep, PTL DEF StreamSpec, ImplementsInputStream, Reader!Spec

-----------------------------------------------------------------------------
(* The errors                                                              *)

\* The drivers with one record for an error: the exception is of the SQLSTATE
\* that was reported.
RaisedAtOnce ==
  /\ first_diag = NoRecord
  /\ \/ raised = <<>>
     \/ backend = "firebird" /\ reported = <<>> /\ raised = <<"BUG">>
     \/ reported \in StatesOf(backend) /\ raised = reported

\* The first record that an ODBC driver gave is the one that is raised, unless
\* the list has dropped it.
RaisedFromFirst ==
  /\ \/ first_diag = NoRecord
     \/ first_diag.diag \in 1 .. pushed /\ first_diag.state = sqlstate2id(reported)
  /\ reporting => raised = <<>>
  /\ \/ raised \in {<<>>, <<"EngineException">>}
     \/ /\ first_diag # NoRecord
        /\ raised = IF first_diag.diag \in freed THEN <<"Undefined">> ELSE Raised(OdbcStates, first_diag.state)

\* How far an error has been told, and which of the records are in the list.
ErrorInv ==
  /\ ListInv
  /\ backend \in {"odbc", "sqlite", "firebird", "sdi"}
  /\ reporting => backend = "odbc"
  /\ IF backend = "odbc" THEN RaisedFromFirst ELSE RaisedAtOnce

\* Every SQLSTATE that an engine comes to has an exception.
LEMMA OdbcStateKnown == ASSUME NEW s PROVE sqlstate2id(s) \in OdbcStates
<1>1. FirstEnumerator \in OdbcStates
  BY DEF FirstEnumerator, OdbcStates, OdbcDynamicTypes
<1>2. s[1] \in {"28", "HY", "IM"} => <<s[1], "000">> \in OdbcStates
  BY DEF OdbcStates, OdbcAccessTypes, OdbcGeneralTypes, OdbcDriverTypes, HY, IM
<1> QED BY <1>1, <1>2 DEF sqlstate2id

\* Of SQLite, by the result code.
LEMMA SqliteStateKnown == ASSUME NEW c \in DOMAIN SqliteCodes PROVE sqlite3error_to_sqlstate(c) \in SqliteStates
BY DEF SqliteCodes, sqlite3error_to_sqlstate, SqliteStates, SqliteExceptions

\* Of Firebird, by the code of the first entry of its status vector.
LEMMA FirebirdStateKnown == ASSUME NEW code \in GdsCodes PROVE gdscode2sqlstate(code) \in FirebirdStates
<1>1. \A table \in GdsTables : \A c \in DOMAIN table : table[c] \in FirebirdStates
  BY DEF GdsTables, HandleCodes, LogCodes, SyntaxCodes, ServerCodes, DialectCodes, BackupCodes, ToolCodes,
         General, FirebirdStates, FirebirdExceptions
<1>2. \E table \in GdsTables : code \in DOMAIN table
  BY DEF GdsCodes
<1> DEFINE table == CHOOSE part \in GdsTables : code \in DOMAIN part
<1>3. table \in GdsTables /\ code \in DOMAIN table
  BY <1>2
<1> HIDE DEF table
<1>4. table[code] \in FirebirdStates
  BY <1>1, <1>3
<1> QED BY <1>4 DEF gdscode2sqlstate, table

\* A record with a known SQLSTATE raises its exception.
LEMMA RecordRaisesAtOnce ==
  ASSUME ErrorInv, backend # "odbc", NEW s \in StatesOf(backend), RecordRaises(StatesOf(backend), s)
  PROVE  ErrorInv'
<1>1. ListInv'
  BY PushInvariant DEF ErrorInv, RecordRaises
<1> QED BY <1>1 DEF ErrorInv, RecordRaises, Raised, RaisedAtOnce, StatesOf

\* Nothing has been told yet.
LEMMA ErrorInitInvariant == ErrorInit => ErrorInv
BY InitInvariant DEF ErrorInit, ErrorInv, RaisedFromFirst, RaisedAtOnce

\* The list does not see where its records go.
LEMMA ListAsBefore == ListInv /\ UNCHANGED vars => ListInv'
BY DEF vars, ListInv, TypeOK, KeepsNewest, CursorInList, NoneSkipped, base

\* Each report keeps the invariant.
LEMMA ErrorStep == ErrorInv /\ [ErrorNext]_<<vars, errorVars>> => ErrorInv'
<1> SUFFICES ASSUME ErrorInv, [ErrorNext]_<<vars, errorVars>> PROVE ErrorInv'
  OBVIOUS
<1>1. CASE sqliteFails
  BY <1>1, SqliteStateKnown, RecordRaisesAtOnce DEF sqliteFails, StatesOf, SqliteStates
<1>2. CASE firebirdFails
  <2>1. CASE \E code \in GdsCodes : RecordRaises(FirebirdStates, gdscode2sqlstate(code))
    BY <1>2, <2>1, FirebirdStateKnown, RecordRaisesAtOnce DEF firebirdFails, StatesOf, FirebirdStates
  <2>2. CASE reported' = <<>> /\ raised' = <<"BUG">> /\ UNCHANGED <<vars, backend, reporting, first_diag>>
    BY <1>2, <2>2, ListAsBefore DEF firebirdFails, ErrorInv, RaisedAtOnce
  <2> QED BY <1>2, <2>1, <2>2 DEF firebirdFails
<1>3. CASE firebirdRefuses
  <2>1. \A s \in {<<"08", "002">>, <<"0A", "000">>, <<"24", "000">>, <<"25", "000">>, <<"HY", "000">>} : s \in FirebirdStates
    BY DEF FirebirdStates, FirebirdExceptions
  <2> QED BY <1>3, <2>1, RecordRaisesAtOnce DEF firebirdRefuses, StatesOf, FirebirdStates
<1>4. CASE sdiFails
  <2>1. sdi3error_to_sqlstate \in SdiStates
    BY DEF sdi3error_to_sqlstate, SdiStates, SdiExceptions
  <2> QED BY <1>4, <2>1, RecordRaisesAtOnce DEF sdiFails, StatesOf, SdiStates
<1>5. CASE odbcFails
  BY <1>5, ListAsBefore DEF odbcFails, ErrorInv, RaisedFromFirst
<1>6. CASE copyDiag
  <2>1. PICK s \in OdbcReports :
          /\ first_diag' = First(pushed + 1, s)
          /\ reported' = IF first_diag = NoRecord THEN s ELSE reported
    BY <1>6 DEF copyDiag
  <2>2. ListInv' /\ pushed \in Nat /\ pushed' = pushed + 1
    BY <1>6, PushInvariant, MaxPushAssumption DEF copyDiag, ErrorInv, ListInv, TypeOK, push_back
  <2>3. backend' = "odbc" /\ reporting' /\ raised' = <<>> /\ RaisedFromFirst
    BY <1>6 DEF copyDiag, ErrorInv, RaisedFromFirst
  <2>4. first_diag'.diag \in 1 .. pushed' /\ first_diag'.state = sqlstate2id(reported')
    BY <2>1, <2>2, <2>3 DEF RaisedFromFirst, First
  <2> QED BY <2>2, <2>3, <2>4 DEF ErrorInv, RaisedFromFirst
<1>7. CASE raiseFirst
  <2>1. backend' = "odbc" /\ reporting' = FALSE
    BY <1>7 DEF raiseFirst, ErrorInv
  <2>2. UNCHANGED <<first_diag, reported, freed>> /\ RaisedFromFirst
    BY <1>7 DEF raiseFirst, vars, ErrorInv
  <2>3. \/ raised' = <<"EngineException">>
        \/ /\ first_diag # NoRecord
           /\ raised' = IF first_diag.diag \in freed THEN <<"Undefined">> ELSE Raised(OdbcStates, first_diag.state)
    <3>1. CASE first_diag = NoRecord
      BY <1>7, <3>1 DEF raiseFirst
    <3>2. CASE first_diag # NoRecord /\ first_diag.diag \notin freed
      BY <1>7, <3>2 DEF raiseFirst
    <3>3. CASE first_diag # NoRecord /\ first_diag.diag \in freed
      BY <1>7, <3>3 DEF raiseFirst
    <3> QED BY <3>1, <3>2, <3>3
  <2>4. ListInv' /\ pushed' = pushed
    BY <1>7, ListAsBefore DEF raiseFirst, ErrorInv, vars
  <2>5. RaisedFromFirst'
    BY <2>1, <2>2, <2>3, <2>4 DEF RaisedFromFirst
  <2> QED BY <2>1, <2>4, <2>5 DEF ErrorInv
<1>8. CASE getDiagFails
  BY <1>8, ListAsBefore DEF getDiagFails, ErrorInv, RaisedFromFirst, vars
<1>9. CASE UNCHANGED <<vars, errorVars>>
  BY <1>9, ListAsBefore DEF vars, errorVars, ErrorInv, RaisedFromFirst, RaisedAtOnce
<1> QED BY <1>1, <1>2, <1>3, <1>4, <1>5, <1>6, <1>7, <1>8, <1>9 DEF ErrorNext

\* The class that is told of a SQLSTATE catches its exception.
LEMMA CaughtByClass ==
  ASSUME NEW s, backend = "odbc" => ~Unmapped(s)
  PROVE  TypeIn(backend, <<ClassTold(s), "000">>) \in CaughtAs(s)
BY DEF CaughtAs, BaseOf, ClassTold

\* The first record is deleted when the driver gives more than the list keeps, and only then.
LEMMA FirstDropped ==
  ASSUME ListInv, first_diag # NoRecord, first_diag.diag \in 1 .. pushed
  PROVE  first_diag.diag \in freed <=> RecordsGiven > Capacity
<1>1. /\ pushed \in Nat /\ Capacity \in Nat \ {0} /\ first_diag.diag \in Nat
      /\ Len(m_list) = IF pushed < Capacity THEN pushed ELSE Capacity
      /\ freed = 1 .. (pushed - Len(m_list))
  BY CapacityAssumption, MaxPushAssumption DEF ListInv, TypeOK, KeepsNewest
<1>2. RecordsGiven = pushed - first_diag.diag + 1
  BY DEF RecordsGiven
<1> QED BY <1>1, <1>2

\* SQLSTATEs are pairs.
LEMMA StatesArePairs == ASSUME NEW s \in StatesOf(backend), backend \in {"odbc", "sqlite", "firebird", "sdi"}
                        PROVE  s = <<s[1], s[2]>>
BY DEF StatesOf, OdbcStates, OdbcDynamicTypes, OdbcAccessTypes, OdbcGeneralTypes, OdbcDriverTypes,
       SqliteExceptions, SdiExceptions, FirebirdExceptions

\* The generic engine numbers all of its SQLSTATEs alike.
LEMMA SameTypeInGeneric ==
  ASSUME NEW client \in {backend, "generic"}, NEW s \in StatesOf(client)
  PROVE  TypeIn(client, s) = TypeIn(backend, s)
BY DEF TypeIn, BasicStates, StatesOf

\* How the exception comes from the report, by the invariant.
RaisedAs ==
  \/ raised = reported /\ reported \in StatesOf(backend) /\ ~(backend = "odbc" /\ Unmapped(reported))
  \/ backend = "odbc" /\ Unmapped(reported) /\ raised = FirstEnumerator
  \/ /\ backend = "odbc" /\ ~Unmapped(reported) /\ reported \notin OdbcStates
     /\ raised = <<reported[1], "000">>

LEMMA RaisedFromReport ==
  ASSUME ErrorInv, raised \notin {<<>>, <<"EngineException">>, <<"BUG">>, <<"Undefined">>}
  PROVE  RaisedAs /\ raised \in StatesOf(backend)
<1>1. CASE backend # "odbc"
  BY <1>1 DEF ErrorInv, RaisedAtOnce, RaisedAs
<1>2. CASE backend = "odbc"
  <2>1. raised = Raised(OdbcStates, sqlstate2id(reported))
    BY <1>2 DEF ErrorInv, RaisedFromFirst
  <2>2. raised = sqlstate2id(reported) /\ raised \in OdbcStates
    BY <2>1, OdbcStateKnown DEF Raised
  <2> QED BY <1>2, <2>2 DEF sqlstate2id, RaisedAs, Unmapped, StatesOf
<1> QED BY <1>1, <1>2

\* What is thrown instead of a SQLSTATE's exception, and when.
LEMMA RaisedInstead ==
  ASSUME ErrorInv
  PROVE  /\ raised = <<"EngineException">> => backend = "odbc"
         /\ raised = <<"BUG">> => backend = "firebird" /\ reported = <<>>
         /\ raised \notin {<<>>, <<"EngineException">>} => (raised = <<"Undefined">> <=> RecordsGiven > Capacity)
<1>1. \A s \in StatesOf(backend) : s \notin {<<>>, <<"EngineException">>, <<"BUG">>, <<"Undefined">>}
  <2> SUFFICES ASSUME NEW s \in StatesOf(backend) PROVE s = <<s[1], s[2]>>
    OBVIOUS
  <2> QED BY StatesArePairs DEF ErrorInv
<1>2. CASE backend # "odbc"
  <2>1. RecordsGiven = 0
    BY <1>2 DEF ErrorInv, RaisedAtOnce, RecordsGiven
  <2> QED BY <1>1, <1>2, <2>1, CapacityAssumption DEF ErrorInv, RaisedAtOnce
<1>3. CASE backend = "odbc"
  <2>1. Raised(OdbcStates, sqlstate2id(reported)) \in StatesOf(backend)
    BY <1>3, OdbcStateKnown DEF Raised, StatesOf
  <2>2. raised \in {<<>>, <<"EngineException">>} \/
        /\ first_diag # NoRecord /\ first_diag.diag \in 1 .. pushed
        /\ raised = IF first_diag.diag \in freed THEN <<"Undefined">> ELSE Raised(OdbcStates, sqlstate2id(reported))
    BY <1>3 DEF ErrorInv, RaisedFromFirst
  <2>3. CASE raised \in {<<>>, <<"EngineException">>}
    BY <1>3, <2>3
  <2>4. CASE raised \notin {<<>>, <<"EngineException">>}
    <3>1. first_diag.diag \in freed <=> RecordsGiven > Capacity
      BY <2>2, <2>4, FirstDropped DEF ErrorInv
    <3> QED BY <1>1, <1>3, <2>1, <2>2, <2>4, <3>1
  <2> QED BY <2>3, <2>4
<1> QED BY <1>2, <1>3

\* What was raised is what the invariant says of the report.
LEMMA RaisedIsTold == ErrorInv => ErrorTold
<1> SUFFICES ASSUME ErrorInv, raised \notin {<<>>, <<"EngineException">>, <<"BUG">>, <<"Undefined">>},
                    NEW client \in {backend, "generic"}
             PROVE  /\ <<ClassTold(reported), "000">> \in StatesOf(client) =>
                         TypeIn(client, <<ClassTold(reported), "000">>) \in CaughtAs(raised)
                    /\ reported \in StatesOf(backend) \intersect StatesOf(client) /\ ~(backend = "odbc" /\ Unmapped(reported)) =>
                         TypeIn(client, reported) \in CaughtAs(raised)
  BY RaisedInstead DEF ErrorTold
<1>1. RaisedAs
  BY RaisedFromReport
<1>2. ASSUME <<ClassTold(reported), "000">> \in StatesOf(client)
      PROVE  TypeIn(client, <<ClassTold(reported), "000">>) \in CaughtAs(raised)
  <2>1. TypeIn(client, <<ClassTold(reported), "000">>) = TypeIn(backend, <<ClassTold(reported), "000">>)
    BY <1>2, SameTypeInGeneric
  <2>2. CASE raised = reported /\ ~(backend = "odbc" /\ Unmapped(reported))
    BY <2>1, <2>2, CaughtByClass
  <2>3. CASE backend = "odbc" /\ Unmapped(reported) /\ raised = FirstEnumerator
    <3>1. <<ClassTold(reported), "000">> = raised
      BY <2>3 DEF ClassTold, FirstEnumerator
    <3> QED BY <2>1, <3>1 DEF CaughtAs
  <2>4. CASE backend = "odbc" /\ ~Unmapped(reported) /\ reported \notin OdbcStates /\ raised = <<reported[1], "000">>
    <3>1. reported \notin {<<"25", "S02">>, <<"25", "S03">>}
      BY <2>4 DEF OdbcStates, OdbcAccessTypes
    <3> QED BY <2>1, <2>4, <3>1 DEF ClassTold, CaughtAs
  <2> QED BY <1>1, <2>2, <2>3, <2>4 DEF RaisedAs
<1>3. ASSUME reported \in StatesOf(backend) \intersect StatesOf(client), ~(backend = "odbc" /\ Unmapped(reported))
      PROVE  TypeIn(client, reported) \in CaughtAs(raised)
  <2>1. TypeIn(client, reported) = TypeIn(backend, reported)
    BY <1>3, SameTypeInGeneric
  <2>2. raised = reported
    BY <1>1, <1>3 DEF StatesOf, RaisedAs
  <2> QED BY <2>1, <2>2 DEF CaughtAs
<1> QED BY <1>2, <1>3

\* Whatever a library reports and however many records its driver gives: the exception is that
\* of the SQLSTATE reported first, or of a class that is fixed for the report (its own, but
\* for the reports without an entry, 40000 among them, and for 25S02 and 25S03); it is undefined
\* exactly when the driver gives more records than the list keeps, and none of a SQLSTATE
\* when the driver fails to give the records or the code of a Firebird error is unknown.
THEOREM ErrorsAreTold == ErrorSpec => []ErrorTold
BY ErrorInitInvariant, ErrorStep, RaisedIsTold, PTL DEF ErrorSpec

-----------------------------------------------------------------------------
(* The driver tables                                                       *)

\* What a connection and its environment hold, as far as the library does what it is asked.
HandlesOf(of, e, d, connected) ==
  {h \in {"env", "dbc"} :
     \/ /\ h = "env" /\ of \in {"ODBC30Drv", "SDIDrv"}
        /\ e = "alive" \/ (e = "deleted" /\ of = "ODBC30Drv" /\ d = "alive")
     \/ /\ h = "dbc" /\ d = "alive" /\ (of = "ODBC30Drv" \/ connected)}

\* The handles of a library that does all it is asked are those of the objects that are there.
InOrderReleased ==
  /\ failure # "none" => early
  /\ env = "deleted" /\ dbc = "alive" => early
  /\ failure = "none" => /\ handles = HandlesOf(driver, env, dbc, m_isConnected)
                         /\ dbc = "none" => m_isConnected = FALSE

\* The part of it that says where the variables are.
DriverTypeOK ==
  /\ driver \in Tables /\ opens \in BOOLEAN /\ asserts \in BOOLEAN
  /\ env \in {"none", "alive", "deleted"} /\ dbc \in {"none", "alive", "deleted"}
  /\ handles \subseteq {"env", "dbc", "lost"} /\ m_isConnected \in BOOLEAN /\ erred \in BOOLEAN

\* The environment that is alive has the table of its driver, and a table that is gone is
\* called by a connection that has outlived it only.
DriverInv ==
  /\ DriverTypeOK
  /\ entries = IF env = "alive" THEN getproc(driver) ELSE NoTable
  /\ env = "none" => dbc = "none" /\ called = NoCall
  /\ opens /\ lacks = {} /\ ~erred => InOrderReleased
  /\ CallsReach
  /\ EngineAsNamed

\* The functions of a table that are looked up have a member.
LEMMA LoadsAreMembers == ASSUME NEW t \in Tables PROVE Loads(t) \subseteq DOMAIN Initial(t)
BY DEF Tables, Loads, Initial, SdiLoads, SqliteLoads, OdbcLoads, FbLoads, SdiInitial, SqliteInitial, OdbcInitial, FbInitial,
       OdbcMembers

\* What a call may come to that is no function.
Outsiders == {NullPointer, Dangling, "LibFunctionException"}

\* Every wrapper tests a member that is looked up, and calls one.
LEMMA WrappedIsLoaded ==
  ASSUME NEW t \in Tables, NEW name \in Wrapped(t)
  PROVE  name \in Loads(t) /\ Guard(name) \in Loads(t)
         /\ name # NullPointer /\ name # Dangling /\ name # "LibFunctionException"
<1>1. t = "ODBC30Drv" => {"SQLConnectA", "SQLNumResultCols"} \subseteq Wrapped(t)
  BY DEF Wrapped, OdbcWrapped
<1>2. t # "ODBC30Drv" => Wrapped(t) \intersect {"SQLFreeHandle", "SQLGetData"} = {}
  BY PlainAssumption DEF Tables, Wrapped, SdiWrapped, SqliteWrapped, FbWrapped
<1>3. Wrapped(t) \intersect Outsiders = {}
  BY PlainAssumption DEF Tables, Outsiders, NullPointer, Dangling, Wrapped, SdiWrapped, SqliteWrapped, OdbcWrapped, FbWrapped
<1>4. Wrapped(t) \subseteq Loads(t)
  BY DEF Tables, Wrapped, Loads, SdiLoads, SdiMembers, SqliteLoads, SqliteMembers, OdbcLoads, FbLoads, FbMembers
<1> QED BY <1>1, <1>2, <1>3, <1>4 DEF Outsiders, Guard, OdbcGuard

\* What a wrapper reaches in a table that is there.
LEMMA ReachedByGuard ==
  ASSUME driver \in Tables, NEW name \in Wrapped(driver)
  PROVE  /\ getproc(driver) # NoTable
         /\ Reached(getproc(driver), name) = IF opens /\ Guard(name) \notin lacks THEN addrofsymbol(name)
                                             ELSE "LibFunctionException"
<1> DEFINE table == getproc(driver)
<1>1. name \in Loads(driver) /\ Guard(name) \in Loads(driver) /\ Guard(name) # NullPointer
  <2>1. Guard(name) # NullPointer
    BY WrappedIsLoaded DEF Guard, OdbcGuard, NullPointer
  <2> QED BY <2>1, WrappedIsLoaded
<1>2. name \in DOMAIN table /\ Guard(name) \in DOMAIN table
  BY <1>1, LoadsAreMembers DEF getproc
<1>3. table[name] = addrofsymbol(name) /\ table[Guard(name)] = addrofsymbol(Guard(name))
  BY <1>1, <1>2 DEF getproc
<1> HIDE DEF table
<1>4. table # NoTable
  BY <1>2 DEF NoTable
<1>5. Reached(table, name) = IF table[Guard(name)] = NullPointer THEN "LibFunctionException" ELSE table[name]
  BY <1>4 DEF Reached
<1>6. table[Guard(name)] = NullPointer <=> ~(opens /\ Guard(name) \notin lacks)
  BY <1>1, <1>3 DEF addrofsymbol
<1> QED BY <1>3, <1>4, <1>5, <1>6 DEF table

\* A library that has everything answers.
LEMMA CompleteAnswers ==
  ASSUME driver \in Tables, opens, lacks = {}, NEW name \in Wrapped(driver)
  PROVE  Answers(getproc(driver), name)
BY ReachedByGuard DEF Answers, addrofsymbol

-----------------------------------------------------------------------------

\* What is known of the worlds that an operation may lead to, and of those in which the
\* library has failed.
Endings == {"returns", "throws", "abort", "undefined"}
Worlds  == [handles : SUBSET {"env", "dbc", "lost"}, m_isConnected : BOOLEAN, erred : BOOLEAN, end : Endings]
Spoilt  == {w \in Worlds : w.erred = TRUE}

\* The world that an operation starts from.
LEMMA WorldIsOne ==
  DriverTypeOK => /\ World \in Worlds
                  /\ World.handles = handles /\ World.m_isConnected = m_isConnected
                  /\ World.erred = erred /\ World.end = "returns"
BY DEF DriverTypeOK, World, Worlds, Endings

\* How an operation ends says nothing of what it has done before.
LEMMA EndsKept ==
  ASSUME NEW W \in {Worlds, Spoilt}, NEW w \in W, NEW how \in Endings
  PROVE  Ends(w, how) \subseteq W
<1>0. w \in Worlds /\ (W = Spoilt => w.erred = TRUE)
  BY DEF Spoilt
<1>1. [w EXCEPT !.end = how] \in Worlds
  BY <1>0 DEF Worlds
<1>2. [w EXCEPT !.end = how].erred = w.erred
  BY <1>0 DEF Worlds
<1>3. [w EXCEPT !.end = how] \in W
  BY <1>0, <1>1, <1>2 DEF Spoilt
<1> QED BY <1>3 DEF Ends

LEMMA RaisesKept ==
  ASSUME NEW W \in {Worlds, Spoilt}, NEW w \in W
  PROVE  Raises(w) \subseteq W
BY EndsKept DEF Raises, Endings

LEMMA FailingKept ==
  ASSUME NEW W \in {Worlds, Spoilt}, NEW w \in W
  PROVE  Failing(w) \in W
<1>1. w \in Worlds
  BY DEF Spoilt
<1>2. Failing(w) \in Worlds /\ Failing(w).erred = TRUE
  BY <1>1 DEF Worlds, Failing
<1> QED BY <1>2 DEF Spoilt

\* Once the library has failed, it has failed.
LEMMA FailingSpoils == ASSUME NEW w \in Worlds PROVE Failing(w) \in Spoilt
<1>1. Failing(w) \in Worlds /\ Failing(w).erred = TRUE
  BY DEF Worlds, Failing
<1> QED BY <1>1 DEF Spoilt

\* The handles and the flag of a connection change within the worlds.
LEMMA MembersKept ==
  ASSUME NEW W \in {Worlds, Spoilt}, NEW w \in W, NEW h \in {"env", "dbc"}
  PROVE  /\ Frees(w, h) \in W /\ Loses(w, h) \in W /\ Takes(w, h) \in W
         /\ NowConnected(w) \in W /\ NotConnected(w) \in W
<1>1. w \in Worlds
  BY DEF Spoilt
<1>2. Frees(w, h) \in Worlds /\ Frees(w, h).erred = w.erred
  BY <1>1 DEF Worlds, Frees
<1>3. Loses(w, h) \in Worlds /\ Loses(w, h).erred = w.erred
  BY <1>1 DEF Worlds, Loses
<1>4. Takes(w, h) \in Worlds /\ Takes(w, h).erred = w.erred
  <2> DEFINE v == Loses(w, h)
  <2>1. v \in Worlds
    BY <1>3
  <2> HIDE DEF v
  <2>2. [v EXCEPT !.handles = @ \union {h}] \in Worlds /\ [v EXCEPT !.handles = @ \union {h}].erred = v.erred
    BY <2>1 DEF Worlds
  <2> QED BY <1>3, <2>2 DEF Takes, v
<1>5. NowConnected(w) \in Worlds /\ NowConnected(w).erred = w.erred
  BY <1>1 DEF Worlds, NowConnected
<1>6. NotConnected(w) \in Worlds /\ NotConnected(w).erred = w.erred
  BY <1>1 DEF Worlds, NotConnected
<1> QED BY <1>2, <1>3, <1>4, <1>5, <1>6 DEF Spoilt

\* What the members are then.
LEMMA AfterMembers ==
  ASSUME NEW w \in Worlds, NEW h \in {"env", "dbc"}
  PROVE  /\ Frees(w, h).handles = w.handles \ {h}
         /\ Frees(w, h).m_isConnected = w.m_isConnected /\ Frees(w, h).end = w.end
         /\ h \notin w.handles => Takes(w, h).handles = w.handles \union {h}
         /\ Takes(w, h).m_isConnected = w.m_isConnected /\ Takes(w, h).end = w.end
         /\ NowConnected(w).handles = w.handles /\ NowConnected(w).end = w.end /\ NowConnected(w).m_isConnected = TRUE
         /\ NotConnected(w).handles = w.handles /\ NotConnected(w).end = w.end /\ NotConnected(w).m_isConnected = FALSE
<1>1. /\ Frees(w, h).handles = w.handles \ {h}
      /\ Frees(w, h).m_isConnected = w.m_isConnected /\ Frees(w, h).end = w.end
  BY DEF Worlds, Frees
<1>2. /\ NowConnected(w).handles = w.handles /\ NowConnected(w).end = w.end
      /\ NotConnected(w).handles = w.handles /\ NotConnected(w).end = w.end
  BY DEF Worlds, NowConnected, NotConnected
<1>3. NowConnected(w).m_isConnected = TRUE /\ NotConnected(w).m_isConnected = FALSE
  BY DEF Worlds, NowConnected, NotConnected
<1>4. Loses(w, h).m_isConnected = w.m_isConnected /\ Loses(w, h).end = w.end
      /\ (h \notin w.handles => Loses(w, h).handles = w.handles)
  BY DEF Worlds, Loses
<1> DEFINE v == Loses(w, h)
<1>5. v \in Worlds
  BY MembersKept
<1> HIDE DEF v
<1>6. [v EXCEPT !.handles = @ \union {h}].handles = v.handles \union {h}
      /\ [v EXCEPT !.handles = @ \union {h}].m_isConnected = v.m_isConnected
      /\ [v EXCEPT !.handles = @ \union {h}].end = v.end
  BY <1>5 DEF Worlds
<1>7. Takes(w, h).m_isConnected = w.m_isConnected /\ Takes(w, h).end = w.end
      /\ (h \notin w.handles => Takes(w, h).handles = w.handles \union {h})
  BY <1>4, <1>6 DEF Takes, v
<1> QED BY <1>1, <1>2, <1>3, <1>7

\* A call leads from worlds to worlds, whether or not the function is there.
LEMMA OutcomesKept ==
  ASSUME NEW W \in {Worlds, Spoilt}, NEW w \in W, NEW table, NEW name,
         NEW succeeded, NEW failed, succeeded \subseteq W, failed \subseteq W
  PROVE  Outcomes(table, name, w, succeeded, failed) \subseteq W
<1>1. Raises(w) \subseteq W /\ Ends(w, "undefined") \subseteq W
  BY EndsKept, RaisesKept DEF Endings
<1> QED BY <1>1 DEF Outcomes

\* A function that is there decides what its call comes to.
LEMMA OutcomesServed ==
  ASSUME NEW table, NEW name, Answers(table, name), name # "LibFunctionException", NEW w, NEW succeeded, NEW failed
  PROVE  Outcomes(table, name, w, succeeded, failed) = succeeded \union failed
BY DEF Outcomes, Answers

\* A call through a deleted table is undefined.
LEMMA OutcomesDangling ==
  ASSUME NEW name, name # Dangling, NEW w, NEW succeeded, NEW failed
  PROVE  Outcomes(NoTable, name, w, succeeded, failed) = Ends(w, "undefined")
BY DEF Outcomes, Answers, Reached, Dangling

-----------------------------------------------------------------------------
(* Every operation leads from worlds to worlds, and from a world in which  *)
(* the library has failed to such ones.                                    *)

LEMMA OdbcVersionKept ==
  ASSUME NEW W \in {Worlds, Spoilt}, NEW w \in W, NEW table
  PROVE  OdbcVersionSet(table, w) \subseteq W
<1>1. (IF "env" \in w.handles THEN Failing(w) ELSE w) \in W
  <2>1. ("env" \in w.handles) \in BOOLEAN
    OBVIOUS
  <2> QED BY <2>1, FailingKept
<1>2. Asserted(IF "env" \in w.handles THEN Failing(w) ELSE w, Done) \subseteq W
  BY <1>1, EndsKept DEF Asserted, Endings, Done
<1> QED BY <1>2, OutcomesKept DEF OdbcVersionSet, Calling, Done, Asserted

LEMMA EnvMadeKept ==
  ASSUME NEW W \in {Worlds, Spoilt}, World \in W, NEW table
  PROVE  EnvMade(table) \subseteq W
<1>1. Failing(World) \in W /\ Takes(World, "env") \in W
  BY FailingKept, MembersKept
<1>2. OdbcVersionSet(table, Takes(World, "env")) \subseteq W /\ OdbcVersionSet(table, Failing(World)) \subseteq W
  BY <1>1, OdbcVersionKept
<1>3. Ends(Failing(World), "abort") \subseteq W
  BY <1>1, EndsKept DEF Endings
<1>4. OdbcEnvMade(table) \subseteq W
  BY <1>2, <1>3, OutcomesKept DEF OdbcEnvMade, Calling, Asserted
<1>5. SdiEnvMade(table) \subseteq W
  BY <1>1, OutcomesKept DEF SdiEnvMade, Calling, Done
<1> QED BY <1>4, <1>5 DEF EnvMade

LEMMA EnvReleasedKept ==
  ASSUME NEW W \in {Worlds, Spoilt}, World \in W
  PROVE  EnvReleased \subseteq W
<1>1. Frees(World, "env") \in W
  BY MembersKept
<1>2. ASSUME NEW can \in BOOLEAN
      PROVE  (IF can THEN Failing(World) ELSE World) \in W /\ Ends(IF can THEN Failing(World) ELSE World, "abort") \subseteq W
  BY FailingKept, EndsKept DEF Endings
<1>3. CASE driver = "ODBC30Drv"
  <2> DEFINE can == "env" \in handles /\ "dbc" \notin handles
  <2>1. can \in BOOLEAN
    OBVIOUS
  <2>2. EnvReleased = Outcomes(entries, "SQLFreeHandle", World, IF can THEN {Frees(World, "env")} ELSE {}, Asserted(IF can THEN Failing(World) ELSE World, Done))
    BY <1>3 DEF EnvReleased, Calling, Asserted
  <2> HIDE DEF can
  <2>3. Asserted(IF can THEN Failing(World) ELSE World, Done) \subseteq W
    BY <1>2, <2>1 DEF Asserted, Done
  <2> QED BY <1>1, <2>2, <2>3, OutcomesKept
<1>4. CASE driver = "SDIDrv" /\ "env" \in handles
  <2>1. EnvReleased = Outcomes(entries, "SDIDeallocEnv", World, {Frees(World, "env")}, {Failing(World)})
    BY <1>4 DEF EnvReleased, Calling, Done
  <2> QED BY <1>1, <2>1, FailingKept, OutcomesKept
<1>5. CASE driver # "ODBC30Drv" /\ ~(driver = "SDIDrv" /\ "env" \in handles)
  BY <1>5 DEF EnvReleased
<1> QED BY <1>3, <1>4, <1>5

LEMMA DbcMadeKept ==
  ASSUME NEW W \in {Worlds, Spoilt}, World \in W
  PROVE  DbcMade \subseteq W
<1>1. OdbcDbcMade(World) \subseteq W
  <2> DEFINE can == "env" \in World.handles
  <2>1. can \in BOOLEAN
    OBVIOUS
  <2>2. OdbcDbcMade(World)
          = Outcomes(entries, "SQLAllocHandle", World, IF can THEN {Takes(World, "dbc")} ELSE {}, Asserted(IF can THEN Failing(World) ELSE World, Done))
    BY DEF OdbcDbcMade, Calling, Asserted
  <2> HIDE DEF can
  <2>3. (IF can THEN Failing(World) ELSE World) \in W /\ Ends(IF can THEN Failing(World) ELSE World, "abort") \subseteq W
    BY <2>1, FailingKept, EndsKept DEF Endings
  <2> QED BY <2>2, <2>3, OutcomesKept, MembersKept DEF Asserted, Done
<1>2. Ends(World, "abort") \subseteq W
  BY EndsKept DEF Endings
<1> QED BY <1>1, <1>2 DEF DbcMade, Asserted

LEMMA OdbcInfoKept ==
  ASSUME NEW W \in {Worlds, Spoilt}, NEW w \in W
  PROVE  OdbcInfoRead(w) \subseteq W
<1>1. NowConnected(w) \in W
  BY MembersKept
<1>2. Raises(Failing(NowConnected(w))) \subseteq W
  BY <1>1, FailingKept, RaisesKept
<1> QED BY <1>1, <1>2, OutcomesKept DEF OdbcInfoRead, Calling, Done

LEMMA OdbcTriesKept ==
  ASSUME NEW W \in {Worlds, Spoilt}, NEW w \in W, NEW f, NEW g
  PROVE  OdbcTries(w, f) \subseteq W /\ OdbcTriesBoth(w, f, g) \subseteq W
<1>1. ASSUME NEW v \in W, NEW h PROVE OdbcTries(v, h) \subseteq W
  <2>3. ("dbc" \in v.handles) \in BOOLEAN
    OBVIOUS
  <2>1. (IF "dbc" \in v.handles THEN Failing(v) ELSE v) \in W
    BY <2>3, FailingKept
  <2>2. Raises(IF "dbc" \in v.handles THEN Failing(v) ELSE v) \subseteq W
    BY <2>1, RaisesKept
  <2> QED BY <2>2, OutcomesKept, OdbcInfoKept DEF OdbcTries, Calling
<1>2. (IF "dbc" \in w.handles THEN Failing(w) ELSE w) \in W
  <2>1. ("dbc" \in w.handles) \in BOOLEAN
    OBVIOUS
  <2> QED BY <2>1, FailingKept
<1>3. OdbcTries(IF "dbc" \in w.handles THEN Failing(w) ELSE w, g) \subseteq W
  BY <1>1, <1>2
<1>4. OdbcTriesBoth(w, f, g) \subseteq W
  BY <1>3, OutcomesKept, OdbcInfoKept DEF OdbcTriesBoth, Calling
<1> QED BY <1>1, <1>4

LEMMA SdiOpensKept ==
  ASSUME NEW W \in {Worlds, Spoilt}, NEW w \in W
  PROVE  SdiOpens(w) \subseteq W /\ SdiOptionSet(w) \subseteq W /\ SdiAllocates(w) \subseteq W /\ SdiFreesDbc(w) \subseteq W
<1>1. ASSUME NEW v \in W PROVE SdiOpens(v) \subseteq W
  <2>1. NowConnected(v) \in W /\ Raises(Failing(v)) \subseteq W
    BY MembersKept, FailingKept, RaisesKept
  <2> QED BY <2>1, OutcomesKept DEF SdiOpens, Calling
<1>2. ASSUME NEW v \in W PROVE SdiOptionSet(v) \subseteq W
  <2>1. SdiOpens(v) \subseteq W /\ SdiOpens(Failing(v)) \subseteq W
    BY <1>1, FailingKept
  <2> QED BY <2>1, OutcomesKept DEF SdiOptionSet, Calling
<1>3. SdiAllocates(w) \subseteq W
  <2>1. SdiOptionSet(Takes(w, "dbc")) \subseteq W /\ Raises(Failing(w)) \subseteq W
    BY <1>2, MembersKept, FailingKept, RaisesKept
  <2> QED BY <2>1, OutcomesKept DEF SdiAllocates, Calling
<1>4. SdiFreesDbc(w) \subseteq W
  <2>1. Frees(w, "dbc") \in W /\ Failing(w) \in W
    BY MembersKept, FailingKept
  <2> QED BY <2>1, OutcomesKept DEF SdiFreesDbc, Calling, Done
<1> QED BY <1>1, <1>2, <1>3, <1>4

LEMMA ConnectsKept ==
  ASSUME NEW W \in {Worlds, Spoilt}, World \in W, driver \in Tables
  PROVE  Connects \subseteq W
<1>0. Raises(World) \subseteq W /\ Ends(World, "abort") \subseteq W /\ Failing(World) \in W
      /\ NowConnected(Takes(World, "dbc")) \in W
  BY EndsKept, RaisesKept, FailingKept, MembersKept DEF Endings
<1>1. OdbcConnects \subseteq W
  <2>1. OdbcAttempts(World) \subseteq W
    BY <1>0, OdbcTriesKept DEF OdbcAttempts
  <2> QED BY <1>0, <2>1 DEF OdbcConnects, Asserted
<1>2. SdiConnects \subseteq W
  BY <1>0, SdiOpensKept DEF SdiConnects, Asserted
<1>3. SqliteConnects \subseteq W
  <2>1. Raises(Takes(Failing(World), "dbc")) \subseteq W /\ Raises(Loses(Failing(World), "dbc")) \subseteq W
    BY <1>0, MembersKept, RaisesKept
  <2> QED BY <1>0, <2>1, OutcomesKept DEF SqliteConnects, Calling
<1>4. FirebirdConnects \subseteq W
  <2>1. (IF "dbc" \notin handles THEN Failing(World) ELSE World) \in W
    BY FailingKept
  <2>2. Raises(IF "dbc" \notin handles THEN Failing(World) ELSE World) \subseteq W
    BY <2>1, RaisesKept
  <2> QED BY <1>0, <2>2, OutcomesKept DEF FirebirdConnects, Calling
<1> QED BY <1>1, <1>2, <1>3, <1>4 DEF Connects, Tables

LEMMA DisconnectsKept ==
  ASSUME NEW W \in {Worlds, Spoilt}, World \in W, driver \in Tables
  PROVE  Disconnects \subseteq W
<1>0. Raises(Failing(World)) \subseteq W /\ NotConnected(World) \in W /\ NotConnected(Frees(World, "dbc")) \in W
  BY RaisesKept, FailingKept, MembersKept
<1>1. OdbcDisconnects \subseteq W
  BY <1>0, OutcomesKept DEF OdbcDisconnects, Calling
<1>2. SdiDisconnects \subseteq W
  BY <1>0, OutcomesKept, SdiOpensKept DEF SdiDisconnects, Calling
<1>3. SqliteDisconnects \subseteq W
  BY <1>0, OutcomesKept DEF SqliteDisconnects, Calling
<1>4. FirebirdDisconnects \subseteq W
  BY <1>0, OutcomesKept DEF FirebirdDisconnects, Calling
<1> QED BY <1>1, <1>2, <1>3, <1>4 DEF Disconnects, Tables

LEMMA DbcReleasedKept ==
  ASSUME NEW W \in {Worlds, Spoilt}, World \in W, driver \in Tables
  PROVE  DbcReleased \subseteq W
<1>1. ASSUME NEW w \in W PROVE OdbcFreesDbc(w) \subseteq W
  <2> DEFINE can == "dbc" \in w.handles
  <2>1. can \in BOOLEAN
    OBVIOUS
  <2>2. OdbcFreesDbc(w) = Outcomes(entries, "SQLFreeHandle", w, IF can THEN {Frees(w, "dbc")} ELSE {}, Asserted(IF can THEN Failing(w) ELSE w, Done))
    BY DEF OdbcFreesDbc, Calling, Asserted
  <2> HIDE DEF can
  <2>3. (IF can THEN Failing(w) ELSE w) \in W /\ Ends(IF can THEN Failing(w) ELSE w, "abort") \subseteq W
    BY <2>1, FailingKept, EndsKept DEF Endings
  <2> QED BY <2>2, <2>3, OutcomesKept, MembersKept DEF Asserted, Done
<1> QED BY <1>1, DisconnectsKept DEF DbcReleased, AndThen

-----------------------------------------------------------------------------
(* What the operations come to with a library that has everything and does *)
(* what it is asked.                                                       *)

Complete == driver \in Tables /\ opens /\ lacks = {}

\* A library that has all its functions is asked for each of them.
LEMMA Served ==
  ASSUME Complete, NEW name \in Wrapped(driver), NEW w, NEW succeeded, NEW failed
  PROVE  Outcomes(getproc(driver), name, w, succeeded, failed) = succeeded \union failed
<1>1. Answers(getproc(driver), name) /\ name # "LibFunctionException"
  BY CompleteAnswers, WrappedIsLoaded DEF Complete
<1> QED BY <1>1 DEF Outcomes, Answers

\* The functions that the four drivers connect with are wrapped.
LEMMA UsedOfOdbc ==
  {"SQLAllocHandle", "SQLFreeHandle", "SQLConnectA", "SQLConnectW", "SQLDriverConnectA", "SQLDriverConnectW",
   "SQLDisconnect", "SQLSetEnvAttr", "SQLGetInfoW"} \subseteq Wrapped("ODBC30Drv")
BY DEF Wrapped, OdbcWrapped

LEMMA UsedOfSdi ==
  {"SDISetDbcOption", "SDIAllocEnv", "SDIDeallocEnv", "SDIAllocDbc", "SDIDeallocDbc", "SDIConnect", "SDIDisconnect"}
    \subseteq Wrapped("SDIDrv")
BY DEF Wrapped, SdiWrapped

LEMMA UsedOfSqlite == {"sqlite3_open_v2", "sqlite3_close"} \subseteq Wrapped("SQLite3Drv")
BY DEF Wrapped, SqliteWrapped

LEMMA UsedOfFirebird == {"isc_attach_database", "isc_detach_database"} \subseteq Wrapped("FBClientDrv")
BY DEF Wrapped, FbWrapped

LEMMA SpoiltByFailing ==
  ASSUME NEW w \in Worlds
  PROVE  /\ Failing(w) \in Spoilt /\ Raises(Failing(w)) \subseteq Spoilt
         /\ Ends(Failing(w), "abort") \subseteq Spoilt
BY FailingSpoils, RaisesKept, EndsKept DEF Endings

\* The constructor of an environment takes its handle, or the library has failed.
LEMMA EnvMadeServed ==
  ASSUME DriverTypeOK, Complete, handles = {}
  PROVE  EnvMade(getproc(driver))
           \subseteq {IF driver \in {"ODBC30Drv", "SDIDrv"} THEN Takes(World, "env") ELSE World} \union Spoilt
<1>1. World \in Worlds /\ World.handles = {}
  BY WorldIsOne
<1> DEFINE v == Takes(World, "env")
<1>2. v \in Worlds /\ v.handles = {"env"}
  BY <1>1, MembersKept, AfterMembers
<1>3. Failing(World) \in Spoilt
  BY <1>1, SpoiltByFailing
<1>4. CASE driver = "ODBC30Drv"
  <2> DEFINE can == "env" \in v.handles
  <2>1. can = TRUE
    BY <1>2
  <2>2. OdbcVersionSet(getproc(driver), v)
          = Outcomes(getproc(driver), "SQLSetEnvAttr", v, IF can THEN {v} ELSE {}, Asserted(IF can THEN Failing(v) ELSE v, Done))
    BY DEF OdbcVersionSet, Calling, Done, Asserted
  <2> HIDE DEF can
  <2>3. Asserted(IF can THEN Failing(v) ELSE v, Done) \subseteq Spoilt
    BY <1>2, <2>1, SpoiltByFailing DEF Asserted, Done
  <2>4. OdbcVersionSet(getproc(driver), v) \subseteq {v} \union Spoilt
    BY <1>4, <2>1, <2>2, <2>3, Served, UsedOfOdbc
  <2>5. OdbcVersionSet(getproc(driver), Failing(World)) \subseteq Spoilt
    BY <1>3, OdbcVersionKept
  <2>6. Ends(Failing(World), "abort") \subseteq Spoilt
    BY <1>1, SpoiltByFailing
  <2> HIDE DEF v
  <2>7. OdbcEnvMade(getproc(driver)) \subseteq {v} \union Spoilt
    BY <1>4, <2>4, <2>5, <2>6, Served, UsedOfOdbc DEF OdbcEnvMade, Calling, Asserted, v
  <2> QED BY <1>4, <2>7 DEF EnvMade, v
<1>5. CASE driver = "SDIDrv"
  <2>1. SdiEnvMade(getproc(driver)) \subseteq {v} \union Spoilt
    BY <1>3, <1>5, Served, UsedOfSdi DEF SdiEnvMade, Calling, Done
  <2> QED BY <1>5, <2>1 DEF EnvMade
<1>6. CASE driver \notin {"ODBC30Drv", "SDIDrv"}
  BY <1>6 DEF EnvMade
<1> QED BY <1>4, <1>5, <1>6

\* With its connection gone an environment gives back its handle.
LEMMA EnvReleasedServed ==
  ASSUME DriverTypeOK, Complete, entries = getproc(driver),
         "env" \in handles <=> driver \in {"ODBC30Drv", "SDIDrv"}
  PROVE  /\ "dbc" \notin handles \/ driver # "ODBC30Drv" =>
              EnvReleased \subseteq {IF driver \in {"ODBC30Drv", "SDIDrv"} THEN Frees(World, "env") ELSE World} \union Spoilt
         /\ "dbc" \in handles /\ driver = "ODBC30Drv" =>
              EnvReleased \subseteq {World} \union Ends(World, "abort")
<1>1. World \in Worlds
  BY WorldIsOne
<1>2. CASE driver = "ODBC30Drv"
  <2> DEFINE can == "env" \in handles /\ "dbc" \notin handles
  <2>1. EnvReleased = Outcomes(entries, "SQLFreeHandle", World, IF can THEN {Frees(World, "env")} ELSE {}, Asserted(IF can THEN Failing(World) ELSE World, Done))
    BY <1>2 DEF EnvReleased, Calling, Asserted
  <2>2. can = ("dbc" \notin handles)
    BY <1>2
  <2>3. can = TRUE \/ can = FALSE
    OBVIOUS
  <2> HIDE DEF can
  <2>4. EnvReleased = (IF can THEN {Frees(World, "env")} ELSE {}) \union Asserted(IF can THEN Failing(World) ELSE World, Done)
    BY <1>2, <2>1, Served, UsedOfOdbc
  <2>5. CASE can = TRUE
    <3>1. Asserted(IF can THEN Failing(World) ELSE World, Done) \subseteq Spoilt
      BY <1>1, <2>5, SpoiltByFailing DEF Asserted, Done
    <3> QED BY <1>2, <2>2, <2>4, <2>5, <3>1
  <2>6. CASE can = FALSE
    <3>1. EnvReleased = Asserted(World, Done)
      BY <2>4, <2>6
    <3> QED BY <1>2, <2>2, <2>6, <3>1 DEF Asserted, Done
  <2> QED BY <2>3, <2>5, <2>6
<1>3. CASE driver = "SDIDrv"
  <2>1. EnvReleased = Outcomes(entries, "SDIDeallocEnv", World, {Frees(World, "env")}, {Failing(World)})
    BY <1>3 DEF EnvReleased, Calling, Done
  <2> QED BY <1>1, <1>3, <2>1, Served, UsedOfSdi, SpoiltByFailing
<1>4. CASE driver \notin {"ODBC30Drv", "SDIDrv"}
  BY <1>4 DEF EnvReleased
<1> QED BY <1>2, <1>3, <1>4

\* The constructor of a connection takes its handle, if it has one from the start.
LEMMA DbcMadeServed ==
  ASSUME DriverTypeOK, Complete, entries = getproc(driver), driver = "ODBC30Drv" => "env" \in handles
  PROVE  DbcMade \subseteq {IF driver = "ODBC30Drv" THEN Takes(World, "dbc") ELSE World} \union Spoilt
<1>1. World \in Worlds /\ World.handles = handles
  BY WorldIsOne
<1>2. CASE driver = "ODBC30Drv"
  <2> DEFINE can == "env" \in World.handles
  <2>1. can = TRUE
    BY <1>1, <1>2
  <2>2. OdbcDbcMade(World)
          = Outcomes(entries, "SQLAllocHandle", World, IF can THEN {Takes(World, "dbc")} ELSE {}, Asserted(IF can THEN Failing(World) ELSE World, Done))
    BY DEF OdbcDbcMade, Calling, Asserted
  <2> HIDE DEF can
  <2>3. Asserted(IF can THEN Failing(World) ELSE World, Done) \subseteq Spoilt
    BY <1>1, <2>1, SpoiltByFailing DEF Asserted, Done
  <2>4. OdbcDbcMade(World) \subseteq {Takes(World, "dbc")} \union Spoilt
    BY <1>2, <2>1, <2>2, <2>3, Served, UsedOfOdbc
  <2> QED BY <1>2, <2>4 DEF DbcMade
<1>3. CASE driver # "ODBC30Drv"
  BY <1>3 DEF DbcMade
<1> QED BY <1>2, <1>3

\* A connect makes a connection, or raises: SQLDriverConnect() is tried where SQLConnect() failed.
LEMMA OdbcConnectsServed ==
  ASSUME DriverTypeOK, Complete, entries = getproc(driver), driver = "ODBC30Drv", "dbc" \in handles
  PROVE  OdbcConnects \subseteq {NowConnected(World)} \union Raises(World) \union Spoilt
<1>1. World \in Worlds /\ World.handles = handles
  BY WorldIsOne
<1>2. OdbcInfoRead(World) \subseteq {NowConnected(World)} \union Spoilt
  <2>1. NowConnected(World) \in Worlds
    BY <1>1, MembersKept
  <2>2. OdbcInfoRead(World)
          = Outcomes(entries, "SQLGetInfoW", NowConnected(World), {NowConnected(World)}, Raises(Failing(NowConnected(World))))
    BY DEF OdbcInfoRead, Calling, Done
  <2> QED BY <2>1, <2>2, Served, UsedOfOdbc, SpoiltByFailing
<1>3. ASSUME NEW f \in Wrapped("ODBC30Drv"), NEW g
      PROVE  OdbcTriesBoth(World, f, g) \subseteq {NowConnected(World)} \union Spoilt
  <2> DEFINE can == "dbc" \in World.handles
  <2>1. can = TRUE
    BY <1>1
  <2>2. OdbcTriesBoth(World, f, g)
          = Outcomes(entries, f, World, IF can THEN OdbcInfoRead(World) ELSE {}, OdbcTries(IF can THEN Failing(World) ELSE World, g))
    BY DEF OdbcTriesBoth, Calling
  <2> HIDE DEF can
  <2>3. OdbcTries(IF can THEN Failing(World) ELSE World, g) \subseteq Spoilt
    BY <1>1, <2>1, SpoiltByFailing, OdbcTriesKept
  <2> QED BY <1>2, <2>1, <2>2, <2>3, Served
<1> QED BY <1>3, UsedOfOdbc DEF OdbcConnects, OdbcAttempts

\* The other three take the handle of the connection with it.
LEMMA SdiConnectsServed ==
  ASSUME DriverTypeOK, Complete, entries = getproc(driver), driver = "SDIDrv", "dbc" \notin handles
  PROVE  SdiConnects \subseteq {NowConnected(Takes(World, "dbc"))} \union Spoilt
<1> DEFINE v == Takes(World, "dbc")
<1>1. World \in Worlds /\ v \in Worlds
  BY WorldIsOne, MembersKept
<1> HIDE DEF v
<1>2. SdiOpens(v) = Outcomes(entries, "SDIConnect", v, {NowConnected(v)}, Raises(Failing(v)))
  BY DEF SdiOpens, Calling
<1>3. SdiOpens(v) \subseteq {NowConnected(v)} \union Spoilt
  BY <1>1, <1>2, Served, UsedOfSdi, SpoiltByFailing
<1>4. SdiOptionSet(v) = Outcomes(entries, "SDISetDbcOption", v, SdiOpens(v), SdiOpens(Failing(v)))
  BY DEF SdiOptionSet, Calling
<1>5. SdiOpens(Failing(v)) \subseteq Spoilt
  BY <1>1, SpoiltByFailing, SdiOpensKept
<1>6. SdiOptionSet(v) \subseteq {NowConnected(v)} \union Spoilt
  BY <1>3, <1>4, <1>5, Served, UsedOfSdi
<1>7. SdiConnects = Outcomes(entries, "SDIAllocDbc", World, SdiOptionSet(v), Raises(Failing(World)))
  BY DEF SdiConnects, SdiAllocates, Calling, v
<1> QED BY <1>1, <1>6, <1>7, Served, UsedOfSdi, SpoiltByFailing DEF v

LEMMA SqliteConnectsServed ==
  ASSUME DriverTypeOK, Complete, entries = getproc(driver), driver = "SQLite3Drv"
  PROVE  SqliteConnects \subseteq {NowConnected(Takes(World, "dbc"))} \union Spoilt
<1>1. Failing(World) \in Spoilt
  BY WorldIsOne, SpoiltByFailing
<1>2. Raises(Takes(Failing(World), "dbc")) \subseteq Spoilt /\ Raises(Loses(Failing(World), "dbc")) \subseteq Spoilt
  BY <1>1, MembersKept, RaisesKept
<1>3. SqliteConnects
        = Outcomes(entries, "sqlite3_open_v2", World, {NowConnected(Takes(World, "dbc"))},
                   Raises(Takes(Failing(World), "dbc")) \union Raises(Loses(Failing(World), "dbc")))
  BY DEF SqliteConnects, Calling
<1> QED BY <1>2, <1>3, Served, UsedOfSqlite

LEMMA FirebirdConnectsServed ==
  ASSUME DriverTypeOK, Complete, entries = getproc(driver), driver = "FBClientDrv", "dbc" \notin handles
  PROVE  FirebirdConnects \subseteq {NowConnected(Takes(World, "dbc"))} \union Spoilt
<1> DEFINE can == "dbc" \notin handles
<1>1. can = TRUE
  OBVIOUS
<1>2. FirebirdConnects
        = Outcomes(entries, "isc_attach_database", World, IF can THEN {NowConnected(Takes(World, "dbc"))} ELSE {}, Raises(IF can THEN Failing(World) ELSE World))
  BY DEF FirebirdConnects, Calling
<1> HIDE DEF can
<1>3. Raises(IF can THEN Failing(World) ELSE World) \subseteq Spoilt
  BY <1>1, WorldIsOne, SpoiltByFailing
<1> QED BY <1>1, <1>2, <1>3, Served, UsedOfFirebird

\* A disconnect gives the connection back, and does nothing when there is none.
LEMMA DisconnectsServed ==
  ASSUME DriverTypeOK, Complete, entries = getproc(driver)
  PROVE  /\ driver = "ODBC30Drv" => Disconnects \subseteq {World, NotConnected(World)} \union Spoilt
         /\ driver # "ODBC30Drv" /\ "dbc" \notin handles => Disconnects = {World}
         /\ driver # "ODBC30Drv" /\ "dbc" \in handles =>
              Disconnects \subseteq {NotConnected(Frees(World, "dbc")), Frees(NotConnected(World), "dbc")} \union Spoilt
<1>1. World \in Worlds /\ NotConnected(World) \in Worlds
  BY WorldIsOne, MembersKept
<1>2. Raises(Failing(World)) \subseteq Spoilt /\ Failing(NotConnected(World)) \in Spoilt
  BY <1>1, SpoiltByFailing
<1>3. CASE driver = "ODBC30Drv"
  <2>1. OdbcDisconnects = IF "dbc" \in handles /\ m_isConnected
                          THEN Outcomes(entries, "SQLDisconnect", World, {NotConnected(World)}, Raises(Failing(World)))
                          ELSE {World}
    BY DEF OdbcDisconnects, Calling
  <2>2. OdbcDisconnects \subseteq {World, NotConnected(World)} \union Spoilt
    BY <1>2, <1>3, <2>1, Served, UsedOfOdbc
  <2> QED BY <1>3, <2>2 DEF Disconnects
<1>4. CASE driver = "SDIDrv"
  <2> DEFINE v == NotConnected(World)
  <2>1. SdiFreesDbc(v) = Outcomes(entries, "SDIDeallocDbc", v, {Frees(v, "dbc")}, {Failing(v)})
    BY DEF SdiFreesDbc, Calling, Done
  <2>2. SdiFreesDbc(v) \subseteq {Frees(v, "dbc")} \union Spoilt
    BY <1>2, <1>4, <2>1, Served, UsedOfSdi
  <2>3. SdiDisconnects = IF "dbc" \in handles
                         THEN Outcomes(entries, "SDIDisconnect", World, SdiFreesDbc(v), Raises(Failing(World)))
                         ELSE {World}
    BY DEF SdiDisconnects, Calling
  <2> HIDE DEF v
  <2>4. "dbc" \in handles => SdiDisconnects \subseteq {Frees(v, "dbc")} \union Spoilt
    BY <1>2, <1>4, <2>2, <2>3, Served, UsedOfSdi
  <2> QED BY <1>4, <2>3, <2>4 DEF Disconnects, v
<1>5. CASE driver = "SQLite3Drv"
  <2>1. SqliteDisconnects = IF "dbc" \in handles
                            THEN Outcomes(entries, "sqlite3_close", World, {NotConnected(Frees(World, "dbc"))}, Raises(Failing(World)))
                            ELSE {World}
    BY DEF SqliteDisconnects, Calling
  <2>2. "dbc" \in handles => SqliteDisconnects \subseteq {NotConnected(Frees(World, "dbc"))} \union Spoilt
    BY <1>2, <1>5, <2>1, Served, UsedOfSqlite
  <2> QED BY <1>5, <2>1, <2>2 DEF Disconnects
<1>6. CASE driver = "FBClientDrv"
  <2>1. FirebirdDisconnects = IF "dbc" \in handles
                              THEN Outcomes(entries, "isc_detach_database", World, {NotConnected(Frees(World, "dbc"))}, Raises(Failing(World)))
                              ELSE {World}
    BY DEF FirebirdDisconnects, Calling
  <2>2. "dbc" \in handles => FirebirdDisconnects \subseteq {NotConnected(Frees(World, "dbc"))} \union Spoilt
    BY <1>2, <1>6, <2>1, Served, UsedOfFirebird
  <2> QED BY <1>6, <2>1, <2>2 DEF Disconnects
<1> QED BY <1>3, <1>4, <1>5, <1>6 DEF Complete, Tables

\* The destructor of an ODBC connection disconnects and then gives back its handle.
LEMMA OdbcReleasedServed ==
  ASSUME DriverTypeOK, Complete, entries = getproc(driver), driver = "ODBC30Drv", "dbc" \in handles
  PROVE  DbcReleased \subseteq {Frees(World, "dbc"), Frees(NotConnected(World), "dbc")} \union Spoilt
<1>1. World \in Worlds /\ World.handles = handles /\ NotConnected(World) \in Worlds
      /\ NotConnected(World).handles = handles
  BY WorldIsOne, MembersKept, AfterMembers
<1>2. ASSUME NEW w \in Worlds, "dbc" \in w.handles
      PROVE  OdbcFreesDbc(w) \subseteq {Frees(w, "dbc")} \union Spoilt
  <2> DEFINE can == "dbc" \in w.handles
  <2>1. can = TRUE
    BY <1>2
  <2>2. OdbcFreesDbc(w) = Outcomes(entries, "SQLFreeHandle", w, IF can THEN {Frees(w, "dbc")} ELSE {}, Asserted(IF can THEN Failing(w) ELSE w, Done))
    BY DEF OdbcFreesDbc, Calling, Asserted
  <2> HIDE DEF can
  <2>3. Asserted(IF can THEN Failing(w) ELSE w, Done) \subseteq Spoilt
    BY <2>1, SpoiltByFailing DEF Asserted, Done
  <2> QED BY <2>1, <2>2, <2>3, Served, UsedOfOdbc
<1>3. ASSUME NEW w \in Spoilt PROVE OdbcFreesDbc(w) \subseteq Spoilt
  <2> DEFINE can == "dbc" \in w.handles
  <2>1. can \in BOOLEAN
    OBVIOUS
  <2>2. OdbcFreesDbc(w) = Outcomes(entries, "SQLFreeHandle", w, IF can THEN {Frees(w, "dbc")} ELSE {}, Asserted(IF can THEN Failing(w) ELSE w, Done))
    BY DEF OdbcFreesDbc, Calling, Asserted
  <2> HIDE DEF can
  <2>3. (IF can THEN Failing(w) ELSE w) \in Spoilt /\ Ends(IF can THEN Failing(w) ELSE w, "abort") \subseteq Spoilt
    BY <2>1, FailingKept, EndsKept DEF Endings
  <2> QED BY <2>2, <2>3, OutcomesKept, MembersKept DEF Asserted, Done
<1>4. \A w \in Disconnects : w = World \/ w = NotConnected(World) \/ w \in Spoilt
  BY DisconnectsServed
<1>5. ASSUME NEW v \in DbcReleased
      PROVE  v \in {Frees(World, "dbc"), Frees(NotConnected(World), "dbc")} \union Spoilt
  <2>1. PICK w \in Disconnects : v \in (IF w.end = "returns" THEN OdbcFreesDbc(w) ELSE {w})
    BY DEF DbcReleased, AndThen
  <2>2. CASE w \in Spoilt
    BY <1>3, <2>1, <2>2
  <2>3. CASE w = World
    <3>1. w.end = "returns"
      BY <2>3, WorldIsOne
    <3> QED BY <1>1, <1>2, <2>1, <2>3, <3>1
  <2>4. CASE w = NotConnected(World)
    <3>1. w.end = "returns"
      BY <1>1, <2>4, WorldIsOne, AfterMembers
    <3> QED BY <1>1, <1>2, <2>1, <2>4, <3>1
  <2> QED BY <1>4, <2>2, <2>3, <2>4
<1> QED BY <1>5

-----------------------------------------------------------------------------
(* What the operations of a connection come to whose environment is gone.  *)

LEMMA EndsAre ==
  ASSUME NEW v \in Worlds, NEW how \in Endings, NEW w \in Ends(v, how)
  PROVE  w.end = how /\ w.handles = v.handles /\ w.m_isConnected = v.m_isConnected /\ w.erred = v.erred
BY DEF Ends, Worlds

Broken == {"abort", "undefined"}

\* A call through the deleted table, and a failed assertion.
LEMMA BrokenCalls ==
  ASSUME DriverTypeOK
  PROVE  /\ \A w \in Ends(World, "undefined") \union Ends(World, "abort") : w.end \in Broken
         /\ \A name, succeeded, failed : name # Dangling =>
              Outcomes(NoTable, name, World, succeeded, failed) = Ends(World, "undefined")
<1>1. World \in Worlds
  BY WorldIsOne
<1> QED BY <1>1, EndsAre, OutcomesDangling DEF Broken, Endings

LEMMA ConnectsDangling ==
  ASSUME DriverTypeOK, entries = NoTable, NEW w \in Connects
  PROVE  w.end \in Broken \/ w \in Raises(World)
<1>1. OdbcAttempts(World) \subseteq Raises(World) \union Ends(World, "undefined")
  <2>1. ASSUME NEW f, NEW g, f # Dangling PROVE OdbcTriesBoth(World, f, g) = Ends(World, "undefined")
    BY <2>1, BrokenCalls DEF OdbcTriesBoth, Calling
  <2> QED BY <2>1 DEF OdbcAttempts, Dangling
<1>2. OdbcConnects \subseteq Raises(World) \union Ends(World, "undefined") \union Ends(World, "abort")
  BY <1>1 DEF OdbcConnects, Asserted
<1>3. SdiAllocates(World) = Ends(World, "undefined")
  BY BrokenCalls DEF SdiAllocates, Calling, Dangling
<1>4. SdiConnects \subseteq Ends(World, "undefined") \union Ends(World, "abort")
  BY <1>3 DEF SdiConnects, Asserted
<1>5. SqliteConnects = Ends(World, "undefined")
  BY BrokenCalls DEF SqliteConnects, Calling, Dangling
<1>6. FirebirdConnects = Ends(World, "undefined")
  BY BrokenCalls DEF FirebirdConnects, Calling, Dangling
<1>7. Connects \subseteq Raises(World) \union Ends(World, "undefined") \union Ends(World, "abort")
  BY <1>2, <1>4, <1>5, <1>6 DEF Connects, DriverTypeOK, Tables
<1> QED BY <1>7, BrokenCalls

LEMMA DisconnectsDangling ==
  ASSUME DriverTypeOK, entries = NoTable, NEW w \in Disconnects
  PROVE  w.end \in Broken \/ (w = World /\ ("dbc" \in handles => driver = "ODBC30Drv"))
<1>1. OdbcDisconnects \subseteq {World} \union Ends(World, "undefined")
  BY BrokenCalls DEF OdbcDisconnects, Calling, Dangling
<1>2. SdiDisconnects = IF "dbc" \in handles THEN Ends(World, "undefined") ELSE {World}
  BY BrokenCalls DEF SdiDisconnects, Calling, Dangling
<1>3. SqliteDisconnects = IF "dbc" \in handles THEN Ends(World, "undefined") ELSE {World}
  BY BrokenCalls DEF SqliteDisconnects, Calling, Dangling
<1>4. FirebirdDisconnects = IF "dbc" \in handles THEN Ends(World, "undefined") ELSE {World}
  BY BrokenCalls DEF FirebirdDisconnects, Calling, Dangling
<1>5. w \in Ends(World, "undefined") \/ (w = World /\ ("dbc" \in handles => driver = "ODBC30Drv"))
  BY <1>1, <1>2, <1>3, <1>4 DEF Disconnects, DriverTypeOK, Tables
<1> QED BY <1>5, BrokenCalls

LEMMA DbcReleasedDangling ==
  ASSUME DriverTypeOK, entries = NoTable, NEW w \in DbcReleased
  PROVE  w.end \in Broken \/ (w = World /\ driver # "ODBC30Drv" /\ "dbc" \notin handles)
<1>1. CASE driver # "ODBC30Drv"
  BY <1>1, DisconnectsDangling DEF DbcReleased
<1>2. CASE driver = "ODBC30Drv"
  <2>1. PICK v \in Disconnects : w \in (IF v.end = "returns" THEN OdbcFreesDbc(v) ELSE {v})
    BY <1>2 DEF DbcReleased, AndThen
  <2>2. CASE v.end \in Broken
    BY <2>1, <2>2 DEF Broken
  <2>3. CASE v = World
    <3>1. OdbcFreesDbc(World) = Ends(World, "undefined")
      BY BrokenCalls DEF OdbcFreesDbc, Calling, Dangling
    <3> QED BY <2>1, <2>3, <3>1, WorldIsOne, BrokenCalls
  <2> QED BY <2>1, <2>2, <2>3, DisconnectsDangling
<1> QED BY <1>1, <1>2

-----------------------------------------------------------------------------
(* The steps                                                               *)

\* The members after an operation.
LEMMA Settled ==
  ASSUME NEW w \in Worlds, Settle(w)
  PROVE  /\ handles' = w.handles /\ m_isConnected' = w.m_isConnected /\ erred' = w.erred
         /\ handles' \subseteq {"env", "dbc", "lost"} /\ m_isConnected' \in BOOLEAN /\ erred' \in BOOLEAN
         /\ w.end \in {"returns", "throws"} => failure' = "none"
         /\ w.end \in Broken => failure' = w.end
BY DEF Settle, Worlds, Broken

\* An exception leaves a destructor as the end of the program.
LEMMA Destructed ==
  ASSUME NEW W \in {Worlds, Spoilt}, NEW w \in W
  PROVE  /\ InDestructor(w) \in W
         /\ InDestructor(w).handles = w.handles /\ InDestructor(w).m_isConnected = w.m_isConnected
         /\ w.end # "throws" => InDestructor(w) = w
         /\ w.end = "throws" => InDestructor(w).end = "abort"
<1>1. w \in Worlds
  BY DEF Spoilt
<1>2. [w EXCEPT !.end = "abort"] \in Ends(w, "abort")
  BY DEF Ends
<1>3. [w EXCEPT !.end = "abort"] \in W
  BY <1>2, EndsKept DEF Endings
<1>4. [w EXCEPT !.end = "abort"].handles = w.handles /\ [w EXCEPT !.end = "abort"].m_isConnected = w.m_isConnected
      /\ [w EXCEPT !.end = "abort"].end = "abort"
  BY <1>1, <1>2, EndsAre DEF Endings
<1> QED BY <1>3, <1>4 DEF InDestructor

LEMMA WorldSpoilt == ASSUME DriverTypeOK, erred PROVE World \in Spoilt
<1>1. erred = TRUE
  BY DEF DriverTypeOK
<1> QED BY <1>1, WorldIsOne DEF Spoilt

\* Whatever did not fail had not failed before.
LEMMA StillGood ==
  ASSUME DriverTypeOK, NEW w \in Worlds, World \in Spoilt => w \in Spoilt,
         erred' = w.erred, opens' = opens, lacks' = lacks, opens', lacks' = {}, ~erred'
  PROVE  opens /\ lacks = {} /\ ~erred /\ w \notin Spoilt
<1>1. w \notin Spoilt
  <2>1. ASSUME w \in Spoilt PROVE FALSE
    <3>1. w.erred = TRUE
      BY <2>1 DEF Spoilt
    <3> QED BY <3>1
  <2> QED BY <2>1
<1> QED BY <1>1, WorldSpoilt


\* A step after which the program has called nothing and asked for nothing.
LEMMA Forgotten == ASSUME Forget PROVE CallsReach' /\ EngineAsNamed'
BY DEF Forget, CallsReach, EngineAsNamed

\* A new connection has its handle at once in ODBC, and none in the others.
LEMMA NewDbcStep == ASSUME DriverInv, failure = "none", NewDbc PROVE DriverInv'
<1>1. DriverTypeOK /\ entries = getproc(driver) /\ dbc = "none" /\ env = "alive"
  BY DEF DriverInv, NewDbc
<1>2. PICK w \in DbcMade : Settle(w) /\ dbc' = IF w.end = "returns" THEN "alive" ELSE "none"
  BY DEF NewDbc
<1>3. w \in Worlds /\ (World \in Spoilt => w \in Spoilt)
  BY <1>1, DbcMadeKept, WorldIsOne
<1>4. DriverTypeOK'
  BY <1>1, <1>2, <1>3, Settled DEF DriverTypeOK, NewDbc, tableVars
<1>5. ASSUME opens', lacks' = {}, ~erred' PROVE InOrderReleased'
  <2>1. opens /\ lacks = {} /\ ~erred /\ w \notin Spoilt
    BY <1>1, <1>2, <1>3, <1>5, StillGood, Settled DEF NewDbc, tableVars
  <2>2. handles = HandlesOf(driver, "alive", "none", m_isConnected) /\ m_isConnected = FALSE
    BY <1>1, <2>1 DEF DriverInv, InOrderReleased, NewDbc
  <2>3. driver = "ODBC30Drv" => "env" \in handles
    BY <2>2 DEF HandlesOf
  <2>4. w = IF driver = "ODBC30Drv" THEN Takes(World, "dbc") ELSE World
    BY <1>1, <1>2, <2>1, <2>3, DbcMadeServed DEF Complete, DriverTypeOK
  <2>5. "dbc" \notin handles /\ World \in Worlds /\ World.handles = handles /\ World.m_isConnected = m_isConnected
        /\ World.end = "returns"
    BY <1>1, <2>2, WorldIsOne DEF HandlesOf
  <2>6. w.end = "returns" /\ w.m_isConnected = FALSE
        /\ w.handles = IF driver = "ODBC30Drv" THEN handles \union {"dbc"} ELSE handles
    BY <2>2, <2>4, <2>5, AfterMembers
  <2>7. dbc' = "alive" /\ env' = "alive" /\ failure' = "none" /\ driver' = driver /\ m_isConnected' = FALSE
        /\ handles' = IF driver = "ODBC30Drv" THEN handles \union {"dbc"} ELSE handles
    BY <1>1, <1>2, <1>3, <2>6, Settled DEF NewDbc, tableVars
  <2>8. handles' = HandlesOf(driver, "alive", "alive", FALSE)
    BY <2>2, <2>7 DEF HandlesOf
  <2> QED BY <2>7, <2>8 DEF InOrderReleased
<1>6. entries' = (IF env = "alive" THEN getproc(driver) ELSE NoTable)'
  BY <1>1 DEF NewDbc, tableVars, getproc, addrofsymbol
<1>7. env' # "none"
  BY <1>1 DEF NewDbc
<1> QED BY <1>4, <1>5, <1>6, <1>7, Forgotten DEF DriverInv, NewDbc

\* After a connect the handle and the flag say the same.
LEMMA ConnectDbcStep == ASSUME DriverInv, failure = "none", ConnectDbc PROVE DriverInv'
<1>1. DriverTypeOK /\ dbc = "alive" /\ m_isConnected = FALSE /\ env # "none"
      /\ entries = IF env = "alive" THEN getproc(driver) ELSE NoTable
  <2>1. DriverTypeOK /\ dbc = "alive" /\ ~m_isConnected
    BY DEF DriverInv, ConnectDbc
  <2>2. m_isConnected = FALSE
    BY <2>1 DEF DriverTypeOK
  <2> QED BY <2>1, <2>2 DEF DriverInv
<1>2. PICK w \in Connects : Settle(w)
  BY DEF ConnectDbc
<1>3. w \in Worlds /\ (World \in Spoilt => w \in Spoilt)
  BY <1>1, ConnectsKept, WorldIsOne DEF DriverTypeOK
<1>u. /\ driver' = driver /\ opens' = opens /\ lacks' = lacks /\ asserts' = asserts /\ env' = env
      /\ entries' = entries /\ dbc' = dbc /\ early' = early
  BY DEF ConnectDbc, tableVars
<1>4. DriverTypeOK'
  BY <1>1, <1>2, <1>3, <1>u, Settled DEF DriverTypeOK
<1>5. ASSUME opens', lacks' = {}, ~erred' PROVE InOrderReleased'
  <2>1. opens /\ lacks = {} /\ ~erred /\ w \notin Spoilt
    BY <1>1, <1>2, <1>3, <1>5, <1>u, StillGood, Settled
  <2>2. handles = HandlesOf(driver, env, "alive", FALSE) /\ (env = "deleted" => early)
    BY <1>1, <2>1 DEF DriverInv, InOrderReleased
  <2>3. World \in Worlds /\ World.handles = handles /\ World.m_isConnected = m_isConnected /\ World.end = "returns"
    BY <1>1, WorldIsOne
  <2>4. ASSUME NEW v \in Raises(World), w = v
        PROVE  w.end = "throws" /\ w.handles = handles /\ w.m_isConnected = FALSE
    BY <1>1, <2>3, <2>4, EndsAre DEF Raises, Endings
  <2>5. CASE env = "deleted"
    <3>1. w.end \in Broken \/ w \in Raises(World)
      BY <1>1, <1>2, <2>5, ConnectsDangling
    <3>2. failure' = "none" => handles' = handles /\ m_isConnected' = FALSE
      <4>1. CASE w.end \in Broken
        BY <1>2, <1>3, <4>1, Settled DEF Broken
      <4>2. CASE w \in Raises(World)
        BY <1>2, <1>3, <2>4, <4>2, Settled
      <4> QED BY <3>1, <4>1, <4>2
    <3> QED BY <1>1, <1>u, <2>2, <2>5, <3>2 DEF InOrderReleased
  <2>6. CASE env = "alive"
    <3>1. ("dbc" \in handles) <=> driver = "ODBC30Drv"
      BY <2>2 DEF HandlesOf
    <3>2. entries = getproc(driver) /\ Complete
      BY <1>1, <2>1, <2>6 DEF Complete, DriverTypeOK
    <3>3. w \in Raises(World) \/ (driver = "ODBC30Drv" /\ w = NowConnected(World))
          \/ (driver # "ODBC30Drv" /\ w = NowConnected(Takes(World, "dbc")))
      BY <1>1, <1>2, <2>1, <3>1, <3>2, OdbcConnectsServed, SdiConnectsServed, SqliteConnectsServed, FirebirdConnectsServed
         DEF Connects, DriverTypeOK, Tables
    <3>4. CASE w \in Raises(World)
      <4>1. failure' = "none" /\ handles' = handles /\ m_isConnected' = FALSE
        BY <1>2, <1>3, <2>4, <3>4, Settled
      <4> QED BY <1>1, <1>u, <2>2, <2>6, <4>1 DEF InOrderReleased
    <3>5. CASE driver = "ODBC30Drv" /\ w = NowConnected(World)
      <4>1. w.end = "returns" /\ w.handles = handles /\ w.m_isConnected = TRUE
        BY <2>3, <3>5, AfterMembers
      <4>2. failure' = "none" /\ handles' = handles /\ m_isConnected' = TRUE
        BY <1>2, <1>3, <4>1, Settled
      <4>3. handles' = HandlesOf(driver, "alive", "alive", TRUE)
        BY <2>2, <2>6, <3>5, <4>2 DEF HandlesOf
      <4> QED BY <1>1, <1>u, <2>6, <4>2, <4>3 DEF InOrderReleased
    <3>6. CASE driver # "ODBC30Drv" /\ w = NowConnected(Takes(World, "dbc"))
      <4>1. Takes(World, "dbc") \in Worlds
        BY <2>3, MembersKept
      <4>2. "dbc" \notin World.handles /\ World \in Worlds
        BY <2>3, <3>1, <3>6
      <4>3. Takes(World, "dbc").end = World.end /\ Takes(World, "dbc").handles = World.handles \union {"dbc"}
        BY <4>2, AfterMembers
      <4>4. /\ NowConnected(Takes(World, "dbc")).end = Takes(World, "dbc").end
            /\ NowConnected(Takes(World, "dbc")).handles = Takes(World, "dbc").handles
            /\ NowConnected(Takes(World, "dbc")).m_isConnected = TRUE
        BY <4>1, AfterMembers
      <4>5. w.end = "returns" /\ w.handles = handles \union {"dbc"} /\ w.m_isConnected = TRUE
        BY <2>3, <3>6, <4>3, <4>4
      <4>6. failure' = "none" /\ handles' = handles \union {"dbc"} /\ m_isConnected' = TRUE
        BY <1>2, <1>3, <4>5, Settled
      <4>7. handles' = HandlesOf(driver, "alive", "alive", TRUE)
        BY <2>2, <2>6, <3>6, <4>6 DEF HandlesOf
      <4> QED BY <1>1, <1>u, <2>6, <4>6, <4>7 DEF InOrderReleased
    <3> QED BY <3>3, <3>4, <3>5, <3>6
  <2> QED BY <1>1, <2>5, <2>6 DEF DriverTypeOK
<1>6. entries' = (IF env = "alive" THEN getproc(driver) ELSE NoTable)'
  BY <1>1, <1>u DEF getproc, addrofsymbol
<1> QED BY <1>1, <1>4, <1>5, <1>6, <1>u, Forgotten DEF DriverInv, ConnectDbc

\* The handle and the connection go in either order.
LEMMA FreedAndNot ==
  ASSUME NEW v \in Worlds,
         NEW w \in {Frees(v, "dbc"), NotConnected(Frees(v, "dbc")), Frees(NotConnected(v), "dbc")}
  PROVE  /\ w.end = v.end /\ w.handles = v.handles \ {"dbc"}
         /\ w \in {NotConnected(Frees(v, "dbc")), Frees(NotConnected(v), "dbc")} => w.m_isConnected = FALSE
<1>1. Frees(v, "dbc") \in Worlds /\ NotConnected(v) \in Worlds
  BY MembersKept
<1>2. Frees(v, "dbc").handles = v.handles \ {"dbc"} /\ Frees(v, "dbc").end = v.end
  BY AfterMembers
<1>3. NotConnected(v).handles = v.handles /\ NotConnected(v).end = v.end /\ NotConnected(v).m_isConnected = FALSE
  BY AfterMembers
<1>4. ASSUME NEW u \in Worlds
      PROVE  NotConnected(u).handles = u.handles /\ NotConnected(u).end = u.end /\ NotConnected(u).m_isConnected = FALSE
  BY AfterMembers
<1>5. ASSUME NEW u \in Worlds
      PROVE  Frees(u, "dbc").handles = u.handles \ {"dbc"} /\ Frees(u, "dbc").end = u.end
             /\ Frees(u, "dbc").m_isConnected = u.m_isConnected
  BY AfterMembers
<1>6. NotConnected(Frees(v, "dbc")).handles = v.handles \ {"dbc"} /\ NotConnected(Frees(v, "dbc")).end = v.end
      /\ NotConnected(Frees(v, "dbc")).m_isConnected = FALSE
  BY <1>1, <1>2, <1>4
<1>7. Frees(NotConnected(v), "dbc").handles = v.handles \ {"dbc"} /\ Frees(NotConnected(v), "dbc").end = v.end
      /\ Frees(NotConnected(v), "dbc").m_isConnected = FALSE
  BY <1>1, <1>3, <1>5
<1> QED BY <1>2, <1>6, <1>7

\* A disconnect gives back what the connect took.
LEMMA DisconnectDbcStep == ASSUME DriverInv, failure = "none", DisconnectDbc PROVE DriverInv'
<1>1. DriverTypeOK /\ dbc = "alive" /\ env # "none" /\ entries = IF env = "alive" THEN getproc(driver) ELSE NoTable
  BY DEF DriverInv, DisconnectDbc
<1>2. PICK w \in Disconnects : Settle(w)
  BY DEF DisconnectDbc
<1>3. w \in Worlds /\ (World \in Spoilt => w \in Spoilt)
  BY <1>1, <1>2, DisconnectsKept, WorldIsOne DEF DriverTypeOK
<1>u. /\ driver' = driver /\ opens' = opens /\ lacks' = lacks /\ asserts' = asserts /\ env' = env
      /\ entries' = entries /\ dbc' = dbc /\ early' = early
  BY DEF DisconnectDbc, tableVars
<1>4. DriverTypeOK'
  BY <1>1, <1>2, <1>3, <1>u, Settled DEF DriverTypeOK
<1>5. ASSUME opens', lacks' = {}, ~erred' PROVE InOrderReleased'
  <2>1. opens /\ lacks = {} /\ ~erred /\ w \notin Spoilt
    BY <1>1, <1>2, <1>3, <1>5, <1>u, StillGood, Settled
  <2>2. handles = HandlesOf(driver, env, "alive", m_isConnected) /\ (env = "deleted" => early)
    BY <1>1, <2>1 DEF DriverInv, InOrderReleased
  <2>3. World \in Worlds /\ World.handles = handles /\ World.m_isConnected = m_isConnected /\ World.end = "returns"
    BY <1>1, WorldIsOne
  <2>5. CASE env = "deleted"
    <3>1. w.end \in Broken \/ w = World
      BY <1>1, <1>2, <2>5, DisconnectsDangling
    <3>2. failure' = "none" => handles' = handles /\ m_isConnected' = m_isConnected
      BY <1>2, <1>3, <2>3, <3>1, Settled DEF Broken
    <3> QED BY <1>1, <1>u, <2>2, <2>5, <3>2 DEF InOrderReleased
  <2>6. CASE env = "alive"
    <3>2. entries = getproc(driver) /\ Complete
      BY <1>1, <2>1, <2>6 DEF Complete, DriverTypeOK
    <3>3. w = World \/ (driver = "ODBC30Drv" /\ w = NotConnected(World))
          \/ (driver # "ODBC30Drv" /\ w \in {NotConnected(Frees(World, "dbc")), Frees(NotConnected(World), "dbc")})
      BY <1>1, <1>2, <2>1, <3>2, DisconnectsServed
    <3>5. CASE w = World
      <4>1. failure' = "none" /\ handles' = handles /\ m_isConnected' = m_isConnected
        BY <1>2, <1>3, <2>3, <3>5, Settled
      <4> QED BY <1>1, <1>u, <2>2, <2>6, <4>1 DEF InOrderReleased
    <3>6. CASE driver = "ODBC30Drv" /\ w = NotConnected(World)
      <4>0. w.end = "returns" /\ w.handles = handles /\ w.m_isConnected = FALSE
        BY <2>3, <3>6, AfterMembers
      <4>1. failure' = "none" /\ handles' = handles /\ m_isConnected' = FALSE
        BY <1>2, <1>3, <4>0, Settled
      <4>2. handles' = HandlesOf(driver, "alive", "alive", FALSE)
        BY <2>2, <2>6, <3>6, <4>1 DEF HandlesOf
      <4> QED BY <1>1, <1>u, <2>6, <4>1, <4>2 DEF InOrderReleased
    <3>7. CASE driver # "ODBC30Drv" /\ w \in {NotConnected(Frees(World, "dbc")), Frees(NotConnected(World), "dbc")}
      <4>1. w.end = "returns" /\ w.handles = handles \ {"dbc"} /\ w.m_isConnected = FALSE
        BY <2>3, <3>7, FreedAndNot
      <4>2. failure' = "none" /\ handles' = handles \ {"dbc"} /\ m_isConnected' = FALSE
        BY <1>2, <1>3, <4>1, Settled
      <4>3. handles' = HandlesOf(driver, "alive", "alive", FALSE)
        BY <2>2, <2>6, <3>7, <4>2 DEF HandlesOf
      <4> QED BY <1>1, <1>u, <2>6, <4>2, <4>3 DEF InOrderReleased
    <3> QED BY <3>3, <3>5, <3>6, <3>7
  <2> QED BY <1>1, <2>5, <2>6 DEF DriverTypeOK
<1>6. entries' = (IF env = "alive" THEN getproc(driver) ELSE NoTable)'
  BY <1>1, <1>u DEF getproc, addrofsymbol
<1> QED BY <1>1, <1>4, <1>5, <1>6, <1>u, Forgotten DEF DriverInv, DisconnectDbc

\* The destructor of a connection leaves nothing behind but the environment.
LEMMA DeleteDbcStep == ASSUME DriverInv, failure = "none", DeleteDbc PROVE DriverInv'
<1>1. DriverTypeOK /\ dbc = "alive" /\ env # "none" /\ entries = IF env = "alive" THEN getproc(driver) ELSE NoTable
  BY DEF DriverInv, DeleteDbc
<1>2. PICK w \in DbcReleased : Settle(InDestructor(w))
  BY DEF DeleteDbc
<1>3. w \in Worlds /\ (World \in Spoilt => w \in Spoilt)
  BY <1>1, <1>2, DbcReleasedKept, WorldIsOne DEF DriverTypeOK
<1>u. /\ driver' = driver /\ opens' = opens /\ lacks' = lacks /\ asserts' = asserts /\ env' = env
      /\ entries' = entries /\ dbc' = "deleted" /\ early' = early
  BY DEF DeleteDbc, tableVars
<1>d. InDestructor(w) \in Worlds /\ (World \in Spoilt => InDestructor(w) \in Spoilt)
      /\ (w \in Spoilt => InDestructor(w) \in Spoilt)
  BY <1>3, Destructed
<1>4. DriverTypeOK'
  BY <1>1, <1>2, <1>d, <1>u, Settled DEF DriverTypeOK
<1>5. ASSUME opens', lacks' = {}, ~erred' PROVE InOrderReleased'
  <2>1. opens /\ lacks = {} /\ ~erred /\ w \notin Spoilt
    BY <1>1, <1>2, <1>d, <1>5, <1>u, StillGood, Settled
  <2>2. handles = HandlesOf(driver, env, "alive", m_isConnected) /\ (env = "deleted" => early)
    BY <1>1, <2>1 DEF DriverInv, InOrderReleased
  <2>3. World \in Worlds /\ World.handles = handles /\ World.m_isConnected = m_isConnected /\ World.end = "returns"
    BY <1>1, WorldIsOne
  <2>5. CASE env = "deleted"
    <3>1. w.end \in Broken \/ (w = World /\ driver # "ODBC30Drv" /\ "dbc" \notin handles)
      BY <1>1, <1>2, <2>5, DbcReleasedDangling
    <3>2. w.end # "throws" => InDestructor(w) = w
      BY <1>3, Destructed
    <3>3. CASE w.end \in Broken
      <4>1. failure' # "none"
        BY <1>2, <1>3, <3>2, <3>3, Settled DEF Broken
      <4> QED BY <1>u, <2>2, <2>5, <4>1 DEF InOrderReleased
    <3>4. CASE w = World /\ driver # "ODBC30Drv" /\ "dbc" \notin handles
      <4>1. failure' = "none" /\ handles' = handles
        BY <1>2, <1>3, <2>3, <3>2, <3>4, Settled
      <4>2. handles' = HandlesOf(driver, "deleted", "deleted", m_isConnected')
        BY <2>2, <2>5, <3>4, <4>1 DEF HandlesOf
      <4> QED BY <1>u, <2>2, <2>5, <4>1, <4>2 DEF InOrderReleased
    <3> QED BY <3>1, <3>3, <3>4
  <2>6. CASE env = "alive"
    <3>1. "dbc" \in handles <=> (driver = "ODBC30Drv" \/ m_isConnected)
      BY <2>2 DEF HandlesOf
    <3>2. entries = getproc(driver) /\ Complete
      BY <1>1, <2>1, <2>6 DEF Complete, DriverTypeOK
    <3>4. \/ driver # "ODBC30Drv" /\ "dbc" \notin handles /\ w = World
          \/ w \in {Frees(World, "dbc"), NotConnected(Frees(World, "dbc")), Frees(NotConnected(World), "dbc")}
      BY <1>1, <1>2, <2>1, <3>1, <3>2, DisconnectsServed, OdbcReleasedServed DEF DbcReleased
    <3>5. w.end = "returns" /\ w.handles = handles \ {"dbc"}
      BY <2>3, <3>4, FreedAndNot
    <3>6. failure' = "none" /\ handles' = handles \ {"dbc"}
      <4>1. InDestructor(w) = w
        BY <1>3, <3>5, Destructed
      <4> QED BY <1>2, <1>3, <3>5, <4>1, Settled
    <3>7. handles' = HandlesOf(driver, "alive", "deleted", m_isConnected')
      BY <2>2, <2>6, <3>6 DEF HandlesOf
    <3> QED BY <1>u, <2>6, <3>6, <3>7 DEF InOrderReleased
  <2> QED BY <1>1, <2>5, <2>6 DEF DriverTypeOK
<1>6. entries' = (IF env = "alive" THEN getproc(driver) ELSE NoTable)'
  BY <1>1, <1>u DEF getproc, addrofsymbol
<1> QED BY <1>1, <1>4, <1>5, <1>6, <1>u, Forgotten DEF DriverInv, DeleteDbc

-----------------------------------------------------------------------------
(* The parts of a text                                                     *)

\* A set of natural numbers has a smallest one.
LEMMA SmallestOf == ASSUME NEW S, S \subseteq Nat, S # {} PROVE \E k \in S : \A i \in S : k =< i
<1>1. PICK k \in S : \A i \in S : <<i, k>> \notin OpToRel(<, Nat)
  BY WFMin, NatLessThanWellFounded, Zenon
<1>2. ASSUME NEW i \in S PROVE ~ (i < k)
  <2>1. i \in Nat /\ k \in Nat /\ <<i, k>> \notin OpToRel(<, Nat)
    BY <1>1
  <2>2. <<i, k>> \in OpToRel(<, Nat) <=> i < k
    BY <2>1 DEF OpToRel
  <2> QED BY <2>1, <2>2
<1> QED BY <1>2

\* A text without a colon is all there is behind it.
LEMMA NoColon ==
  ASSUME NEW S, NEW text \in Seq(S), \A i \in 1..Len(text) : text[i] # ":"
  PROVE  Colon(text) = 0 /\ BehindColon(text) = text
<1>1. Colon(text) = 0
  BY DEF Colon, SelectInSeq
<1> QED BY <1>1 DEF BehindColon

\* The colon of a text is its first one.
LEMMA FirstColon ==
  ASSUME NEW S, NEW text \in Seq(S), NEW k \in 1..Len(text), text[k] = ":", \A i \in 1..(k - 1) : text[i] # ":"
  PROVE  Colon(text) = k
<1> DEFINE I == {i \in 1..Len(text) : text[i] = ":"}
<1>1. k \in I /\ \A i \in I : k =< i
  OBVIOUS
<1>2. Min(I) = k
  <2>1. Min(I) \in I /\ \A i \in I : Min(I) =< i
    BY <1>1 DEF Min
  <2>2. \A i \in I : i \in Int
    OBVIOUS
  <2>3. k \in I /\ k =< Min(I) /\ Min(I) =< k /\ k \in Int /\ Min(I) \in Int
    <3> HIDE DEF I
    <3> QED BY <1>1, <2>1, <2>2
  <2> QED BY <2>3
<1>3. Colon(text) = IF I # {} THEN Min(I) ELSE 0
  BY DEF Colon, SelectInSeq
<1> HIDE DEF I
<1> QED BY <1>1, <1>2, <1>3

\* A colon is none or the first one.
LEMMA ColonIsPosition ==
  ASSUME NEW S, NEW text \in Seq(S)
  PROVE  Colon(text) \in 0..Len(text)
<1>1. CASE \A i \in 1..Len(text) : text[i] # ":"
  BY <1>1, NoColon
<1>2. CASE ~ \A i \in 1..Len(text) : text[i] # ":"
  <2> DEFINE I == {i \in 1..Len(text) : text[i] = ":"}
  <2>1. I # {} /\ I \subseteq Nat
    BY <1>2
  <2>2. PICK k \in I : \A i \in I : k =< i
    <3> HIDE DEF I
    <3>1. PICK j \in I : TRUE
      BY <2>1
    <3>2. \E k \in I : \A i \in I : k =< i
      BY <2>1, SmallestOf
    <3> QED BY <3>2
  <2>3. Colon(text) = k
    BY <2>2, FirstColon
  <2> QED BY <2>2, <2>3
<1> QED BY <1>1, <1>2

\* Small sequences of parts.
LEMMA OnePart == ASSUME NEW a, a # ":" PROVE \A i \in 1..Len(<<a>>) : <<a>>[i] # ":"
<1>1. Len(<<a>>) = 1 /\ <<a>>[1] = a
  OBVIOUS
<1>2. \A i \in 1..1 : i = 1
  OBVIOUS
<1> QED BY <1>1, <1>2

LEMMA SequencesOfParts ==
  ASSUME NEW S, NEW a \in S, NEW b \in S
  PROVE  <<>> \in Seq(S) /\ <<a>> \in Seq(S) /\ <<a, b>> \in Seq(S)
OBVIOUS

LEMMA PairOfParts == ASSUME NEW S, NEW a \in S, NEW b \in S PROVE <<a>> \o <<b>> = <<a, b>>
<1> DEFINE s == <<a>>
           t == <<b>>
           u == <<a, b>>
<1>1. s \in Seq(S) /\ t \in Seq(S) /\ u \in Seq(S) /\ Len(s) = 1 /\ Len(t) = 1 /\ Len(u) = 2
      /\ s[1] = a /\ t[1] = b /\ u[1] = a /\ u[2] = b
  OBVIOUS
<1> HIDE DEF s, t, u
<1>2. s \o t \in Seq(S) /\ Len(s \o t) = 2
      /\ \A i \in 1..2 : (s \o t)[i] = IF i =< 1 THEN s[i] ELSE t[i - 1]
  BY <1>1, ConcatProperties
<1>3. (s \o t)[1] = u[1] /\ (s \o t)[2] = u[2]
  BY <1>1, <1>2
<1>4. \A i \in 1..2 : (s \o t)[i] = u[i]
  <2> TAKE i \in 1..2
  <2>1. i = 1 \/ i = 2
    OBVIOUS
  <2> QED BY <1>3, <2>1
<1>5. s \o t = u
  BY <1>1, <1>2, <1>4, SeqEqual
<1> QED BY <1>5 DEF s, t, u

\* The first part of a text ends at its first colon.
LEMMA PartBeforeColon ==
  ASSUME NEW S, ":" \in S, NEW a \in S, a # ":", NEW rest \in Seq(S)
  PROVE  LET text == <<a, ":">> \o rest
         IN  Colon(text) = 2 /\ UpToColon(text) = <<a>> /\ BehindColon(text) = rest
<1> DEFINE head == <<a, ":">>
           text == head \o rest
<1>0. head \in Seq(S) /\ Len(head) = 2 /\ head[1] = a /\ head[2] = ":"
  OBVIOUS
<1> HIDE DEF head
<1>1. text \in Seq(S) /\ Len(text) = 2 + Len(rest) /\ text[1] = a /\ text[2] = ":"
      /\ \A i \in 1..Len(rest) : text[i + 2] = rest[i]
  <2>1. text \in Seq(S) /\ Len(text) = Len(head) + Len(rest)
        /\ \A i \in 1..(Len(head) + Len(rest)) : text[i] = IF i =< Len(head) THEN head[i] ELSE rest[i - Len(head)]
    BY <1>0, ConcatProperties
  <2>2. \A i \in 1..Len(rest) : text[i + Len(head)] = rest[i]
    <3> HIDE DEF text
    <3> TAKE i \in 1..Len(rest)
    <3>1. i + Len(head) \in 1..(Len(head) + Len(rest)) /\ ~ (i + Len(head) =< Len(head)) /\ i + Len(head) - Len(head) = i
      BY <1>0
    <3> QED BY <2>1, <3>1
  <2> HIDE DEF text
  <2> QED BY <1>0, <2>1, <2>2
<1> HIDE DEF text
<1>2. Colon(text) = 2
  BY <1>1, FirstColon
<1>3. UpToColon(text) = <<a>>
  <2>1. SubSeq(text, 1, 1) \in Seq(S) /\ Len(SubSeq(text, 1, 1)) = 1 /\ SubSeq(text, 1, 1)[1] = a
    BY <1>1
  <2>2. <<a>> \in Seq(S) /\ Len(<<a>>) = 1 /\ <<a>>[1] = a
    OBVIOUS
  <2>3. \A i \in 1..1 : SubSeq(text, 1, 1)[i] = <<a>>[i]
    BY <2>1, <2>2
  <2>4. SubSeq(text, 1, 1) = <<a>>
    BY <2>1, <2>2, <2>3, SeqEqual
  <2> QED BY <1>2, <2>4 DEF UpToColon
<1>4. BehindColon(text) = rest
  BY <1>1, <1>2 DEF BehindColon
<1> QED BY <1>2, <1>3, <1>4 DEF text, head

\* A text may have nothing before its colon.
LEMMA ColonAhead ==
  ASSUME NEW S, ":" \in S, NEW rest \in Seq(S)
  PROVE  LET text == <<":">> \o rest
         IN  Colon(text) = 1 /\ UpToColon(text) = <<>> /\ BehindColon(text) = rest
<1> DEFINE head == <<":">>
           text == head \o rest
<1>0. head \in Seq(S) /\ Len(head) = 1 /\ head[1] = ":"
  OBVIOUS
<1> HIDE DEF head
<1>1. text \in Seq(S) /\ Len(text) = 1 + Len(rest) /\ text[1] = ":"
      /\ \A i \in 1..Len(rest) : text[i + 1] = rest[i]
  <2>1. text \in Seq(S) /\ Len(text) = Len(head) + Len(rest)
        /\ \A i \in 1..(Len(head) + Len(rest)) : text[i] = IF i =< Len(head) THEN head[i] ELSE rest[i - Len(head)]
    BY <1>0, ConcatProperties
  <2>2. \A i \in 1..Len(rest) : text[i + Len(head)] = rest[i]
    <3> HIDE DEF text
    <3> TAKE i \in 1..Len(rest)
    <3>1. i + Len(head) \in 1..(Len(head) + Len(rest)) /\ ~ (i + Len(head) =< Len(head)) /\ i + Len(head) - Len(head) = i
      BY <1>0
    <3> QED BY <2>1, <3>1
  <2> HIDE DEF text
  <2> QED BY <1>0, <2>1, <2>2
<1> HIDE DEF text
<1>2. Colon(text) = 1
  BY <1>1, FirstColon
<1>3. UpToColon(text) = <<>>
  BY <1>1, <1>2 DEF UpToColon
<1>4. BehindColon(text) = rest
  BY <1>1, <1>2 DEF BehindColon
<1> QED BY <1>2, <1>3, <1>4 DEF text, head

\* What an engine without a name and a library leave: the driver is read from it.
LEMMA ParsedText ==
  ASSUME NEW p \in Asked
  PROVE  /\ p.engine # "" =>
              /\ parse_driver(TextFor(p)).engine = <<p.engine>> /\ parse_driver(TextFor(p)).lib = p.lib
              /\ parse_driver(TextFor(p)).driver = IF p.driver = "" THEN <<>> ELSE <<p.driver>>
         /\ p.engine = "" /\ p.driver # "" =>
              \/ parse_driver(TextFor(p)).engine = <<>>
              \/ parse_driver(TextFor(p)).engine = <<p.driver>> /\ p.driver \notin DBMSs
         /\ p.engine = "" /\ p.driver = "" =>
              /\ parse_driver(TextFor(p)).engine = <<>>
              /\ \A m \in DOMAIN EngineOfDriver : parse_driver(TextFor(p)).driver # <<m>>
<1> DEFINE S == STRING \union {":"}
           e == p.engine
           d == p.driver
           l == p.lib
<1>1. ":" \in S /\ e \in S /\ d \in S /\ e # ":" /\ d # ":" /\ l \in Seq(STRING)
      /\ (e = "" /\ l # <<>> => d \notin DBMSs /\ l[1] \notin DOMAIN EngineOfDriver)
  BY AskedAssumption
<1>2. l \in Seq(S)
  BY <1>1, SeqMonotonic
<1>3. TextFor(p) = (IF e = "" THEN <<>> ELSE <<e, ":">>) \o (IF d = "" THEN <<>> ELSE <<d>>)
                   \o (IF l = <<>> THEN <<>> ELSE <<":">> \o l)
  BY DEF TextFor
<1> HIDE DEF S, e, d, l
<1> DEFINE rest == (IF d = "" THEN <<>> ELSE <<d>>) \o (IF l = <<>> THEN <<>> ELSE <<":">> \o l)
<1>4. <<d>> \in Seq(S) /\ <<>> \in Seq(S) /\ <<":">> \in Seq(S) /\ <<":">> \o l \in Seq(S) /\ <<e, ":">> \in Seq(S)
  <2>1. <<d>> \in Seq(S) /\ <<>> \in Seq(S) /\ <<":">> \in Seq(S) /\ <<e, ":">> \in Seq(S)
    BY <1>1, SequencesOfParts
  <2>2. <<":">> \o l \in Seq(S)
    BY <1>2, <2>1, ConcatProperties
  <2> QED BY <2>1, <2>2
<1>5. /\ d = "" /\ l = <<>> => rest = <<>>
      /\ d = "" /\ l # <<>> => rest = <<":">> \o l
      /\ d # "" /\ l = <<>> => rest = <<d>>
      /\ d # "" /\ l # <<>> => rest = <<d, ":">> \o l
  <2>1. <<d>> \o (<<":">> \o l) = <<d, ":">> \o l
    <3>1. <<d>> \o <<":">> = <<d, ":">>
      BY <1>1, PairOfParts
    <3> QED BY <1>2, <1>4, <3>1, ConcatAssociative
  <2>2. <<>> \o (<<":">> \o l) = <<":">> \o l /\ <<d>> \o <<>> = <<d>> /\ <<>> \o <<>> = <<>>
    BY <1>4, ConcatEmptySeq
  <2> QED BY <2>1, <2>2
<1>6. rest \in Seq(S) /\ TextFor(p) = (IF e = "" THEN rest ELSE <<e, ":">> \o rest)
  <2> DEFINE u == IF d = "" THEN <<>> ELSE <<d>>
             v == IF l = <<>> THEN <<>> ELSE <<":">> \o l
             w == <<e, ":">>
  <2>1. u \in Seq(S) /\ v \in Seq(S) /\ w \in Seq(S)
    BY <1>4
  <2>2. rest = u \o v /\ TextFor(p) = ((IF e = "" THEN <<>> ELSE w) \o u) \o v
    BY <1>3
  <2> HIDE DEF u, v, w, rest
  <2>p. rest \in Seq(S)
    BY <2>1, <2>2, ConcatProperties
  <2>q. w \o (u \o v) = (w \o u) \o v
    BY <2>1, ConcatAssociative
  <2>r. <<>> \o u = u
    BY <2>1, ConcatEmptySeq
  <2>3. rest \in Seq(S) /\ w \o (u \o v) = (w \o u) \o v /\ <<>> \o u = u
    BY <2>p, <2>q, <2>r
  <2>4. TextFor(p) = IF e = "" THEN rest ELSE w \o rest
    BY <2>2, <2>3
  <2> QED BY <2>3, <2>4 DEF w
<1> HIDE DEF rest
<1>w. Colon(<<d, ":">> \o l) = 2 /\ UpToColon(<<d, ":">> \o l) = <<d>> /\ BehindColon(<<d, ":">> \o l) = l
  BY <1>1, <1>2, PartBeforeColon
\* the driver and the library
<1>7. ASSUME NEW text, BehindColon(text) = rest
      PROVE  parse_driver(text).driver = (IF d = "" THEN <<>> ELSE <<d>>) /\ parse_driver(text).lib = l
  <2>1. CASE l = <<>>
    <3>1. Colon(rest) = 0
      <4>1. \A i \in 1..Len(rest) : rest[i] # ":"
        <5>1. rest = <<>> \/ rest = <<d>>
          BY <1>5, <2>1
        <5>2. \A i \in 1..Len(<<d>>) : <<d>>[i] # ":"
          BY <1>1, OnePart
        <5>3. \A i \in 1..Len(<<>>) : <<>>[i] # ":"
          OBVIOUS
        <5> QED BY <5>1, <5>2, <5>3
      <4> QED BY <1>6, <4>1, NoColon
    <3> QED BY <1>5, <1>7, <2>1, <3>1 DEF parse_driver
  <2>2. CASE d = "" /\ l # <<>>
    <3>1. Colon(rest) = 1 /\ UpToColon(rest) = <<>> /\ BehindColon(rest) = l
      BY <1>1, <1>2, <1>5, <2>2, ColonAhead
    <3>2. Colon(rest) # 0
      BY <3>1
    <3> QED BY <1>7, <2>2, <3>1, <3>2 DEF parse_driver
  <2>3. CASE d # "" /\ l # <<>>
    <3>1. Colon(rest) = 2 /\ UpToColon(rest) = <<d>> /\ BehindColon(rest) = l
      BY <1>5, <1>w, <2>3
    <3>2. Colon(rest) # 0
      BY <3>1
    <3> QED BY <1>7, <2>3, <3>1, <3>2 DEF parse_driver
  <2> QED BY <2>1, <2>2, <2>3
<1>8. CASE e # ""
  <2> DEFINE text == <<e, ":">> \o rest
  <2>1. Colon(text) = 2 /\ UpToColon(text) = <<e>> /\ BehindColon(text) = rest
    BY <1>1, <1>6, PartBeforeColon
  <2>2. TextFor(p) = text
    BY <1>6, <1>8
  <2> HIDE DEF text
  <2>3. parse_driver(text).driver = (IF d = "" THEN <<>> ELSE <<d>>) /\ parse_driver(text).lib = l
    BY <1>7, <2>1
  <2>4. parse_driver(text).engine = <<e>>
    BY <2>1 DEF parse_driver
  <2> QED BY <1>8, <2>2, <2>3, <2>4 DEF e, d, l
<1>9. CASE e = ""
  <2>1. TextFor(p) = rest
    BY <1>6, <1>9
  <2>2. CASE d # "" /\ l = <<>>
    <3>1. Colon(rest) = 0
      <4>1. \A i \in 1..Len(rest) : rest[i] # ":"
        <5>1. rest = <<d>>
          BY <1>5, <2>2
        <5>2. \A i \in 1..Len(<<d>>) : <<d>>[i] # ":"
          BY <1>1, OnePart
        <5> QED BY <5>1, <5>2
      <4> QED BY <1>6, <4>1, NoColon
    <3> QED BY <1>9, <2>1, <2>2, <3>1 DEF parse_driver, e, d
  <2>3. CASE d # "" /\ l # <<>>
    <3>1. Colon(rest) = 2 /\ UpToColon(rest) = <<d>>
      BY <1>5, <1>w, <2>3
    <3> QED BY <1>1, <1>9, <2>1, <2>3, <3>1 DEF parse_driver, e, d
  <2>4. CASE d = "" /\ l = <<>>
    <3>1. rest = <<>>
      BY <1>5, <2>4
    <3>2. Colon(rest) = 0 /\ BehindColon(rest) = rest
      <4>1. \A i \in 1..Len(rest) : rest[i] # ":"
        BY <3>1
      <4> QED BY <1>6, <4>1, NoColon
    <3>3. parse_driver(rest).engine = <<>> /\ parse_driver(rest).driver = <<>>
      BY <3>1, <3>2 DEF parse_driver
    <3>4. \A m : <<>> # <<m>>
      OBVIOUS
    <3> QED BY <1>9, <2>1, <2>4, <3>3, <3>4 DEF parse_driver, e, d
  <2>5. CASE d = "" /\ l # <<>>
    <3>1. Colon(rest) = 1 /\ UpToColon(rest) = <<>> /\ BehindColon(rest) = l
      BY <1>1, <1>2, <1>5, <2>5, ColonAhead
    <3>2. parse_driver(rest).engine = <<>> /\ parse_driver(rest).driver = (IF Colon(l) = 0 THEN l ELSE UpToColon(l))
      BY <3>1 DEF parse_driver
    <3>3. ASSUME NEW m \in DOMAIN EngineOfDriver, parse_driver(rest).driver = <<m>> PROVE FALSE
      <4>1. l[1] # m
        BY <1>1, <1>9, <2>5
      <4>2. CASE Colon(l) = 0
        BY <3>2, <3>3, <4>1, <4>2
      <4>3. CASE Colon(l) # 0
        <5>1. Colon(l) \in 1..Len(l)
          BY <1>2, <4>3, ColonIsPosition
        <5>2. SubSeq(l, 1, Colon(l) - 1) = <<m>>
          BY <3>2, <3>3, <4>3 DEF UpToColon
        <5> DEFINE k == Colon(l)
        <5>3. Len(SubSeq(l, 1, k - 1)) = k - 1 /\ (k > 1 => SubSeq(l, 1, k - 1)[1] = l[1])
          <6>1. k \in 1..Len(l)
            BY <5>1
          <6> HIDE DEF k
          <6> QED BY <1>2, <6>1
        <5>4. Len(<<m>>) = 1 /\ <<m>>[1] = m
          OBVIOUS
        <5>5. k - 1 = 1 /\ k > 1
          BY <5>1, <5>2, <5>3, <5>4
        <5> QED BY <4>1, <5>2, <5>3, <5>4, <5>5
      <4> QED BY <4>2, <4>3
    <3> QED BY <1>9, <2>1, <2>5, <3>2, <3>3 DEF e, d
  <2> QED BY <2>2, <2>3, <2>4, <2>5
<1> QED BY <1>8, <1>9

\* Which environment is given for the parts of a text.
LEMMA OnePartEqual == \A a, b : (<<a>> = <<b>> <=> a = b) /\ <<>> # <<b>> /\ Head(<<a>>) = a
OBVIOUS

LEMMA EnvOfParts ==
  ASSUME NEW dbms, NEW text
  PROVE  LET driverOf == parse_driver(text).driver
             fits == \/ dbms = "sqlite" /\ driverOf = <<"libsqlite">>
                     \/ dbms = "odbc" /\ driverOf = <<"libodbc">>
                     \/ dbms = "firebird" /\ driverOf = <<"libfbclient">>
                     \/ dbms = "sdi" /\ driverOf = <<"libsdi">> /\ parse_driver(text).lib # <<>>
         IN  /\ fits => EnvOf(dbms, text) = TableOf[dbms]
             /\ ~fits => EnvOf(dbms, text) = "EngineException"
BY DEF EnvOf, SqliteEnvOf, OdbcEnvOf, FirebirdEnvOf, SdiEnvOf, TableOf

\* The four engines and the generic one give an environment for the texts that name it, and
\* raise for the others.
LEMMA GivenAsNamed ==
  ASSUME NEW dbms \in DBMSs \union {"generic"}, NEW p \in Asked
  PROVE  LET fits == /\ p.driver \in DOMAIN EngineOfDriver /\ p.engine = EngineOfDriver[p.driver]
                     /\ (p.engine = "sdi" => p.lib # <<>>)
             answer == createEnv(dbms, TextFor(p))
         IN  /\ fits /\ dbms \in {"generic", p.engine} =>
                  answer = TableOf[p.engine] /\ parse_driver(TextFor(p)).lib = p.lib
             /\ ~fits /\ dbms = "generic" => answer = "EngineException"
             /\ p.driver = "" => answer = "EngineException"
<1> DEFINE text == TextFor(p)
           fits == /\ p.driver \in DOMAIN EngineOfDriver /\ p.engine = EngineOfDriver[p.driver]
                   /\ (p.engine = "sdi" => p.lib # <<>>)
<1>1. fits <=> \/ p.engine = "sqlite" /\ p.driver = "libsqlite"
               \/ p.engine = "odbc" /\ p.driver = "libodbc"
               \/ p.engine = "firebird" /\ p.driver = "libfbclient"
               \/ p.engine = "sdi" /\ p.driver = "libsdi" /\ p.lib # <<>>
  BY DEF EngineOfDriver
<1> DEFINE part == IF p.driver = "" THEN <<>> ELSE <<p.driver>>
<1>2. \A name \in DOMAIN EngineOfDriver : part = <<name>> <=> p.driver = name
  BY OnePartEqual DEF EngineOfDriver
<1>p. p.engine # "" => /\ parse_driver(text).engine = <<p.engine>> /\ parse_driver(text).lib = p.lib
                       /\ parse_driver(text).driver = part
  BY ParsedText DEF text, part
<1> HIDE DEF text, part, fits
<1>3. /\ p.engine # "" => /\ parse_driver(text).engine = <<p.engine>> /\ parse_driver(text).lib = p.lib
                          /\ parse_driver(text).driver = part
      /\ p.engine = "" /\ p.driver # "" =>
           \/ parse_driver(text).engine = <<>>
           \/ parse_driver(text).engine = <<p.driver>> /\ p.driver \notin DBMSs
      /\ p.engine = "" /\ p.driver = "" =>
           /\ parse_driver(text).engine = <<>>
           /\ \A m \in DOMAIN EngineOfDriver : parse_driver(text).driver # <<m>>
  BY <1>p, ParsedText DEF text
<1>4. createEnv(dbms, text) = IF dbms # "generic" THEN EnvOf(dbms, text)
                              ELSE IF parse_driver(text).engine = <<>> THEN "EngineException"
                              ELSE EnvOf(Head(parse_driver(text).engine), text)
  BY DEF createEnv
<1>5. DOMAIN EngineOfDriver = {"libsqlite", "libodbc", "libfbclient", "libsdi"}
  BY DEF EngineOfDriver
<1>6. ASSUME p.driver = "" PROVE createEnv(dbms, text) = "EngineException"
  <2>1. \A m \in DOMAIN EngineOfDriver : parse_driver(text).driver # <<m>>
    <3>1. CASE p.engine = ""
      BY <1>3, <1>6, <3>1
    <3>2. CASE p.engine # ""
      <4>1. parse_driver(text).driver = part /\ part = <<>>
        BY <1>3, <1>6, <3>2 DEF part
      <4> QED BY <4>1, OnePartEqual
    <3> QED BY <3>1, <3>2
  <2>2. \A name : EnvOf(name, text) = "EngineException"
    BY <1>5, <2>1, EnvOfParts
  <2> QED BY <1>4, <2>2
<1>7. CASE p.engine # ""
  <2>1. \A name : /\ name = p.engine /\ fits => EnvOf(name, text) = TableOf[name]
                  /\ name = p.engine /\ ~fits => EnvOf(name, text) = "EngineException"
    <3> TAKE name
    <3>1. parse_driver(text).driver = part /\ parse_driver(text).lib = p.lib
      BY <1>3, <1>7
    <3> QED BY <1>1, <1>2, <1>5, <3>1, EnvOfParts
  <2>2. parse_driver(text).engine = <<p.engine>> /\ <<p.engine>> # <<>> /\ Head(<<p.engine>>) = p.engine
    BY <1>3, <1>7, OnePartEqual
  <2>3. createEnv(dbms, text) = EnvOf(IF dbms = "generic" THEN p.engine ELSE dbms, text)
    BY <1>4, <2>2
  <2> QED BY <1>3, <1>6, <1>7, <2>1, <2>3 DEF text, fits
<1>8. CASE p.engine = ""
  <2>1. ~ fits
    BY <1>1, <1>8
  <2>2. dbms = "generic" => createEnv(dbms, text) = "EngineException"
    <3>1. CASE parse_driver(text).engine = <<>>
      BY <1>4, <3>1
    <3>2. CASE parse_driver(text).engine = <<p.driver>> /\ p.driver \notin DBMSs
      <4>1. Head(<<p.driver>>) = p.driver /\ <<p.driver>> # <<>>
        BY OnePartEqual
      <4>2. EnvOf(p.driver, text) = "EngineException"
        BY <3>2, EnvOfParts DEF DBMSs
      <4> QED BY <1>4, <3>2, <4>1, <4>2
    <3> QED BY <1>3, <1>8, <3>1, <3>2
  <2> QED BY <1>6, <2>1, <2>2 DEF text, fits
<1> QED BY <1>7, <1>8

-----------------------------------------------------------------------------

\* A new environment is of the engine and the library that its text names.
LEMMA NewEnvStep ==
  ASSUME DriverInv, failure = "none", NEW dbms \in DBMSs \union {"generic"}, NEW asked \in Asked, NewEnv(dbms, asked)
  PROVE  DriverInv'
<1>1. DriverTypeOK /\ env = "none" /\ dbc = "none" /\ entries = NoTable /\ called = NoCall
  BY DEF DriverInv, NewEnv
<1>u. /\ driver' = driver /\ opens' = opens /\ lacks' = lacks /\ asserts' = asserts /\ dbc' = dbc /\ early' = early
      /\ called' = called
  BY DEF NewEnv, tableVars
<1>2. EngineAsNamed'
  <2>1. made' = [dbms |-> dbms, asked |-> asked, given |-> createEnv(dbms, TextFor(asked)),
                 opened |-> parse_driver(TextFor(asked)).lib]
    BY DEF NewEnv
  <2>2. made'.dbms = dbms /\ made'.asked = asked /\ made'.given = createEnv(dbms, TextFor(asked))
        /\ made'.opened = parse_driver(TextFor(asked)).lib
    BY <2>1
  <2> QED BY <2>2, GivenAsNamed DEF EngineAsNamed
<1>3. CallsReach'
  BY <1>1, <1>u DEF CallsReach
<1>4. CASE UNCHANGED <<env, entries, handleVars, failure>>
  <2>1. handles' = handles /\ m_isConnected' = m_isConnected /\ erred' = erred /\ env' = env /\ entries' = entries
        /\ failure' = failure
    BY <1>4 DEF handleVars
  <2>2. DriverTypeOK'
    BY <1>1, <1>u, <2>1 DEF DriverTypeOK
  <2>3. opens' /\ lacks' = {} /\ ~erred' => InOrderReleased'
    BY <1>u, <2>1 DEF DriverInv, InOrderReleased
  <2> QED BY <1>1, <1>2, <1>3, <1>u, <2>1, <2>2, <2>3 DEF DriverInv
<1>5. CASE \E w \in EnvMade(getproc(driver)) :
             /\ Settle(w)
             /\ IF w.end = "returns" THEN env' = "alive" /\ entries' = getproc(driver)
                                     ELSE env' = "deleted" /\ entries' = NoTable
  <2>1. PICK w \in EnvMade(getproc(driver)) :
             /\ Settle(w)
             /\ IF w.end = "returns" THEN env' = "alive" /\ entries' = getproc(driver)
                                     ELSE env' = "deleted" /\ entries' = NoTable
    BY <1>5
  <2>2. w \in Worlds /\ (World \in Spoilt => w \in Spoilt)
    BY <1>1, <2>1, EnvMadeKept, WorldIsOne
  <2>3. DriverTypeOK'
    BY <1>1, <1>u, <2>1, <2>2, Settled DEF DriverTypeOK
  <2>4. ASSUME opens', lacks' = {}, ~erred' PROVE InOrderReleased'
    <3>1. opens /\ lacks = {} /\ ~erred /\ w \notin Spoilt
      BY <1>1, <1>u, <2>1, <2>2, <2>4, StillGood, Settled
    <3>2. handles = HandlesOf(driver, "none", "none", m_isConnected) /\ m_isConnected = FALSE
      BY <1>1, <3>1 DEF DriverInv, InOrderReleased
    <3>3. handles = {}
      BY <3>2 DEF HandlesOf
    <3>4. w = IF driver \in {"ODBC30Drv", "SDIDrv"} THEN Takes(World, "env") ELSE World
      BY <1>1, <2>1, <3>1, <3>3, EnvMadeServed DEF Complete, DriverTypeOK
    <3>5. World \in Worlds /\ World.handles = {} /\ World.m_isConnected = FALSE /\ World.end = "returns"
      BY <1>1, <3>2, <3>3, WorldIsOne
    <3>6. w.end = "returns" /\ w.m_isConnected = FALSE
          /\ w.handles = IF driver \in {"ODBC30Drv", "SDIDrv"} THEN {"env"} ELSE {}
      <4>1. CASE driver \in {"ODBC30Drv", "SDIDrv"}
        <5>1. w = Takes(World, "env")
          BY <3>4, <4>1
        <5>2. w.end = "returns" /\ w.m_isConnected = FALSE /\ w.handles = {} \union {"env"}
          BY <3>5, <5>1, AfterMembers
        <5> QED BY <4>1, <5>2
      <4>2. CASE driver \notin {"ODBC30Drv", "SDIDrv"}
        BY <3>4, <3>5, <4>2
      <4> QED BY <4>1, <4>2
    <3>7. env' = "alive" /\ failure' = "none" /\ m_isConnected' = FALSE
          /\ handles' = IF driver \in {"ODBC30Drv", "SDIDrv"} THEN {"env"} ELSE {}
      BY <2>1, <2>2, <3>6, Settled
    <3>8. handles' = HandlesOf(driver, "alive", "none", FALSE)
      BY <3>7 DEF HandlesOf
    <3> QED BY <1>1, <1>u, <3>7, <3>8 DEF InOrderReleased
  <2>5. entries' = (IF env = "alive" THEN getproc(driver) ELSE NoTable)'
    BY <1>u, <2>1 DEF getproc, addrofsymbol
  <2>6. env' # "none"
    BY <2>1
  <2> QED BY <1>2, <1>3, <2>3, <2>4, <2>5, <2>6 DEF DriverInv
<1> QED BY <1>4, <1>5 DEF NewEnv

\* An ODBC environment keeps its handle as long as it has a connection.
LEMMA DeleteEnvStep == ASSUME DriverInv, failure = "none", DeleteEnv PROVE DriverInv'
<1>1. DriverTypeOK /\ env = "alive" /\ entries = getproc(driver)
  BY DEF DriverInv, DeleteEnv
<1>2. PICK w \in EnvReleased : Settle(InDestructor(w))
  BY DEF DeleteEnv
<1>3. w \in Worlds /\ (World \in Spoilt => w \in Spoilt)
  BY <1>1, <1>2, EnvReleasedKept, WorldIsOne
<1>u. /\ driver' = driver /\ opens' = opens /\ lacks' = lacks /\ asserts' = asserts /\ env' = "deleted"
      /\ entries' = NoTable /\ dbc' = dbc /\ early' = (dbc = "alive")
  BY DEF DeleteEnv, tableVars
<1>d. InDestructor(w) \in Worlds /\ (World \in Spoilt => InDestructor(w) \in Spoilt)
      /\ (w \in Spoilt => InDestructor(w) \in Spoilt)
  BY <1>3, Destructed
<1>4. DriverTypeOK'
  BY <1>1, <1>2, <1>d, <1>u, Settled DEF DriverTypeOK
<1>5. ASSUME opens', lacks' = {}, ~erred' PROVE InOrderReleased'
  <2>1. opens /\ lacks = {} /\ ~erred /\ w \notin Spoilt
    BY <1>1, <1>2, <1>d, <1>5, <1>u, StillGood, Settled
  <2>2. handles = HandlesOf(driver, "alive", dbc, m_isConnected) /\ (dbc = "none" => m_isConnected = FALSE)
    BY <1>1, <2>1 DEF DriverInv, InOrderReleased, DeleteEnv
  <2>3. World \in Worlds /\ World.handles = handles /\ World.m_isConnected = m_isConnected /\ World.end = "returns"
    BY <1>1, WorldIsOne
  <2>4. ("env" \in handles <=> driver \in {"ODBC30Drv", "SDIDrv"}) /\ ("dbc" \in handles => dbc = "alive")
        /\ (driver = "ODBC30Drv" => ("dbc" \in handles <=> dbc = "alive"))
    BY <2>2 DEF HandlesOf
  <2>5. Complete
    BY <1>1, <2>1 DEF Complete, DriverTypeOK
  <2>6. w.end # "throws" => InDestructor(w) = w
    BY <1>3, Destructed
  <2>7. CASE "dbc" \in handles /\ driver = "ODBC30Drv"
    <3>1. w = World \/ w \in Ends(World, "abort")
      BY <1>1, <1>2, <2>1, <2>4, <2>5, <2>7, EnvReleasedServed
    <3>2. early'
      BY <1>u, <2>4, <2>7
    <3>3. failure' = "none" => handles' = handles /\ m_isConnected' = m_isConnected
      <4>1. CASE w = World
        BY <1>2, <1>3, <2>3, <2>6, <4>1, Settled
      <4>2. CASE w \in Ends(World, "abort")
        <5>1. w.end = "abort"
          BY <2>3, <4>2, EndsAre DEF Endings
        <5> QED BY <1>2, <1>3, <2>6, <5>1, Settled DEF Broken
      <4> QED BY <3>1, <4>1, <4>2
    <3>4. failure' = "none" => handles' = HandlesOf(driver, "deleted", dbc, m_isConnected')
      BY <2>2, <2>4, <2>7, <3>3 DEF HandlesOf
    <3> QED BY <1>u, <2>2, <3>2, <3>3, <3>4 DEF InOrderReleased
  <2>8. CASE ~("dbc" \in handles /\ driver = "ODBC30Drv")
    <3>1. w = IF driver \in {"ODBC30Drv", "SDIDrv"} THEN Frees(World, "env") ELSE World
      BY <1>1, <1>2, <2>1, <2>4, <2>5, <2>8, EnvReleasedServed
    <3>2. w.end = "returns" /\ w.m_isConnected = m_isConnected /\ w.handles = handles \ {"env"}
      <4>1. driver \notin {"ODBC30Drv", "SDIDrv"} => "env" \notin handles
        BY <2>4
      <4>2. CASE driver \in {"ODBC30Drv", "SDIDrv"}
        <5>1. w = Frees(World, "env")
          BY <3>1, <4>2
        <5> QED BY <2>3, <5>1, AfterMembers
      <4>3. CASE driver \notin {"ODBC30Drv", "SDIDrv"}
        BY <2>3, <3>1, <4>1, <4>3
      <4> QED BY <4>2, <4>3
    <3>3. failure' = "none" /\ handles' = handles \ {"env"} /\ m_isConnected' = m_isConnected
      BY <1>2, <1>3, <2>6, <3>2, Settled
    <3>4. handles' = HandlesOf(driver, "deleted", dbc, m_isConnected)
      BY <2>2, <2>4, <2>8, <3>3 DEF HandlesOf
    <3> QED BY <1>u, <2>2, <3>3, <3>4 DEF InOrderReleased
  <2> QED BY <2>7, <2>8
<1>6. entries' = (IF env = "alive" THEN getproc(driver) ELSE NoTable)'
  BY <1>u
<1> QED BY <1>1, <1>4, <1>5, <1>6, <1>u, Forgotten DEF DriverInv, DeleteEnv

\* A wrapper of a living table reaches its function or tells that it is missing.
LEMMA CallStep ==
  ASSUME DriverInv, failure = "none", NEW name \in Wrapped(driver), Call(name)
  PROVE  DriverInv'
<1>1. DriverTypeOK /\ dbc = "alive" /\ env # "none" /\ entries = IF env = "alive" THEN getproc(driver) ELSE NoTable
  BY DEF DriverInv, Call
<1>u. /\ driver' = driver /\ opens' = opens /\ lacks' = lacks /\ asserts' = asserts /\ env' = env
      /\ entries' = entries /\ dbc' = dbc /\ early' = early /\ handles' = handles /\ m_isConnected' = m_isConnected
      /\ erred' = erred
  BY DEF Call, tableVars, handleVars
<1>2. called'.name = name /\ called'.reached = Reached(entries, name)
      /\ failure' = IF called'.reached \in {Dangling, NullPointer} THEN "undefined" ELSE failure
  BY DEF Call
<1>3. driver \in Tables /\ name # NullPointer /\ name # Dangling
  BY <1>1, WrappedIsLoaded DEF DriverTypeOK
<1>4. env = "alive" => Reached(entries, name) = IF opens /\ Guard(name) \notin lacks THEN addrofsymbol(name)
                                               ELSE "LibFunctionException"
  BY <1>1, <1>3, ReachedByGuard
<1>5. CallsReach'
  <2>1. name \notin Misguarded => Guard(name) = name
    <3>1. {"SQLFreeHandle", "SQLGetData"} \subseteq OdbcLoads
      BY DEF OdbcLoads, OdbcWrapped
    <3> QED BY <3>1 DEF Misguarded, Guard, OdbcGuard
  <2> QED BY <1>2, <1>4, <1>u, <2>1 DEF CallsReach, addrofsymbol
<1>6. EngineAsNamed'
  BY DEF Call, EngineAsNamed
<1>7. ASSUME opens', lacks' = {}, ~erred' PROVE InOrderReleased'
  <2>1. InOrderReleased
    BY <1>7, <1>u DEF DriverInv
  <2>2. env = "alive" => failure' = "none"
    <3>1. env = "alive" => Reached(entries, name) = name
      BY <1>4, <1>7, <1>u DEF addrofsymbol
    <3> QED BY <1>2, <1>3, <3>1
  <2>3. env = "deleted" => early
    BY <1>1, <2>1 DEF InOrderReleased
  <2> QED BY <1>1, <1>u, <2>1, <2>2, <2>3 DEF InOrderReleased, DriverTypeOK
<1>8. DriverTypeOK'
  BY <1>1, <1>u DEF DriverTypeOK
<1>9. entries' = (IF env = "alive" THEN getproc(driver) ELSE NoTable)'
  BY <1>1, <1>u DEF getproc, addrofsymbol
<1> QED BY <1>1, <1>5, <1>6, <1>7, <1>8, <1>9, <1>u DEF DriverInv

\* DriverInv is inductive.
LEMMA DriverInvariant == DriverSpec => []DriverInv
<1>1. DriverInit => DriverInv
  <2> SUFFICES ASSUME DriverInit PROVE DriverInv
    OBVIOUS
  <2>1. DriverTypeOK
    BY DEF DriverInit, DriverTypeOK
  <2>2. handles = HandlesOf(driver, env, dbc, m_isConnected)
    BY DEF DriverInit, HandlesOf
  <2> QED BY <2>1, <2>2 DEF DriverInit, DriverInv, InOrderReleased, CallsReach, EngineAsNamed
<1>2. DriverInv /\ [DriverNext]_driverVars => DriverInv'
  <2> SUFFICES ASSUME DriverInv, [DriverNext]_driverVars PROVE DriverInv'
    OBVIOUS
  <2>1. CASE DriverNext
    BY <2>1, NewEnvStep, DeleteEnvStep, NewDbcStep, ConnectDbcStep, DisconnectDbcStep, DeleteDbcStep, CallStep
       DEF DriverNext
  <2>2. CASE UNCHANGED driverVars
    <3>1. /\ driver' = driver /\ opens' = opens /\ lacks' = lacks /\ asserts' = asserts /\ env' = env
          /\ entries' = entries /\ dbc' = dbc /\ early' = early /\ handles' = handles
          /\ m_isConnected' = m_isConnected /\ erred' = erred /\ called' = called /\ made' = made /\ failure' = failure
      BY <2>2 DEF driverVars, tableVars, handleVars
    <3>2. DriverTypeOK' /\ CallsReach' /\ EngineAsNamed'
      BY <3>1 DEF DriverInv, DriverTypeOK, CallsReach, EngineAsNamed
    <3>3. opens' /\ lacks' = {} /\ ~erred' => InOrderReleased'
      BY <3>1 DEF DriverInv, InOrderReleased
    <3>4. entries' = (IF env = "alive" THEN getproc(driver) ELSE NoTable)'
      BY <3>1 DEF DriverInv, getproc, addrofsymbol
    <3> QED BY <3>1, <3>2, <3>3, <3>4 DEF DriverInv
  <2> QED BY <2>1, <2>2
<1> QED BY <1>1, <1>2, PTL DEF DriverSpec

\* Whatever functions the library lacks, whatever it refuses, whatever text the client asks with
\* and whatever the order in which environments and connections are made, connected,
\* disconnected and deleted: a wrapper of a living table reaches its own function or raises,
\* but for the misguarded two; once the connection is gone the handles that were taken are given
\* back, unless the environment went first or the library has failed; and the environment that
\* is given is the one that the text names.
THEOREM TablesAreSound == DriverSpec => []DriverSound
<1>1. DriverInv => DriverSound
  <2> SUFFICES ASSUME DriverInv PROVE HandlesReleased
    BY DEF DriverInv, DriverSound
  <2>1. ASSUME opens, lacks = {}, ~erred, failure = "none", env = "deleted", dbc # "alive" PROVE handles = {}
    <3>1. handles = HandlesOf(driver, "deleted", dbc, m_isConnected)
      BY <2>1 DEF DriverInv, InOrderReleased
    <3> QED BY <2>1, <3>1 DEF HandlesOf
  <2> QED BY <2>1 DEF DriverInv, InOrderReleased, HandlesReleased
<1> QED BY <1>1, DriverInvariant, PTL

-----------------------------------------------------------------------------
(* The large objects of a column                                           *)

Text == Seq(Characters)

LobBuffers ==
  {b \in [data : Text, at : Nat, row : Nat] : b.at <= Len(b.data) /\ (b.row = 0 => b.data = <<>>)}

Accessors == [row : Nat, stream : LobBuffers, text : LobBuffers, cache : LobBuffers]

\* Untold, of an accessor of the engine r.
Hidden(r, a) ==
  \/ IsSet(a.cache) /\ (a.cache.row # a.row \/ Value(a) = NullLob)
  \/ r = "sdi" /\ IsSet(a.stream)
  \/ \E i \in DOMAIN a.stream.data : a.stream.data[i] = Lost

\* What is left of the object: what was decoded already, and what the stream has.
Left(a) == Rest(a.text) \o (IF IsSet(a.stream) THEN Rest(a.stream) ELSE Contents(a))

\* Buffers are of rows that have been; only MEMOs of a server are decoded into the text
\* and stay there.
Tidy(r, l, a) ==
  /\ a \in Accessors
  /\ a.row <= Len(Lobs)
  /\ a.stream.row <= a.row /\ a.text.row <= a.row /\ a.cache.row <= a.row
  /\ r \in Embedded \/ l # "MEMO" => Rest(a.text) = <<>>
  /\ r = "sdi" => ~IsSet(a.cache)

\* The object is in the cache, or still to be read.
WholeKept(r, a) ==
  ~Hidden(r, a) => IF IsSet(a.cache) THEN a.cache.data = Contents(a) ELSE Left(a) = Contents(a)

LobInv ==
  /\ reader \in Readers /\ lobType \in {"BLOB", "MEMO", "WMEMO"}
  /\ lobType = "WMEMO" => reader \in Odbc
  /\ Tidy(reader, lobType, accessor)
  /\ OnLob /\ ~spent => WholeKept(reader, accessor)
  /\ ~OnLob => accessor = [row |-> 0, stream |-> Unset, text |-> Unset, cache |-> Unset]
  /\ handed \subseteq {"stream", "text", "cache"}
  /\ reader = "sdi" => handed = {}
  /\ copied \in LobBuffers /\ received \in Text /\ spent \in BOOLEAN
  /\ IsSet(copied) => copied.data = received

\* Appending to a text and reading on is reading on and appending.
LEMMA RestAdded ==
  ASSUME NEW S, NEW d \in Seq(S), NEW s \in Seq(S), NEW k \in 0..Len(d)
  PROVE  SubSeq(d \o s, k + 1, Len(d \o s)) = SubSeq(d, k + 1, Len(d)) \o s
<1> DEFINE w == d \o s
           n == Len(d)
           z == Len(s)
<1>1. w \in Seq(S) /\ Len(w) = n + z /\ n \in Nat /\ z \in Nat /\ k \in 0..n
  OBVIOUS
<1>2. SubSeq(w, k + 1, n) = SubSeq(d, k + 1, n)
  <2>1. CASE k = n
    <3>1. k + 1 \in Int /\ n \in Int /\ n < k + 1
      BY <1>1, <2>1
    <3> QED BY <3>1, SubSeqEmpty
  <2>2. CASE k < n
    <3>1. k + 1 \in 1..n /\ n \in 1..n
      BY <1>1, <2>2
    <3> QED BY <3>1, SubSeqOfConcat1
  <2> QED BY <1>1, <2>1, <2>2
<1>3. SubSeq(w, n + 1, n + z) = s
  <2>1. CASE z = 0
    <3>1. n + 1 \in Int /\ n + z \in Int /\ n + z < n + 1
      BY <1>1, <2>1
    <3>2. s = <<>>
      BY <2>1
    <3> QED BY <3>1, <3>2, SubSeqEmpty
  <2>2. CASE z > 0
    <3>1. n + 1 \in n + 1 .. n + z /\ n + z \in n + 1 .. n + z
      BY <1>1, <2>2
    <3>2. SubSeq(w, n + 1, n + z) = SubSeq(s, (n + 1) - n, (n + z) - n)
      BY <3>1, SubSeqOfConcat2
    <3>3. (n + 1) - n = 1 /\ (n + z) - n = z
      BY <1>1
    <3> HIDE DEF n
    <3> QED BY <3>2, <3>3, SubSeqFull
  <2> QED BY <1>1, <2>1, <2>2
<1> HIDE DEF w, n, z
<1>4. SubSeq(w, k + 1, n) \o SubSeq(w, n + 1, n + z) = SubSeq(w, k + 1, n + z)
  <2>1. k + 1 \in 1 .. Len(w) + 1 /\ n \in (k + 1) - 1 .. Len(w) /\ n + z \in n .. Len(w)
    BY <1>1
  <2> QED BY <1>1, <2>1, ConcatAdjacentSubSeq
<1> QED BY <1>1, <1>2, <1>3, <1>4 DEF w, n

LEMMA BufferFacts ==
  ASSUME NEW b \in LobBuffers
  PROVE  /\ Rest(b) \in Text /\ Drained(b) \in LobBuffers /\ Rest(Drained(b)) = <<>>
         /\ Drained(b).row = b.row /\ Drained(b).data = b.data
         /\ b.at = 0 => Rest(b) = b.data
         /\ b.row = 0 => Rest(b) = <<>>
<1> USE DEF LobBuffers, Text
<1>1. Rest(b) \in Text
  BY DEF Rest
<1>2. Drained(b) \in LobBuffers /\ Drained(b).row = b.row /\ Drained(b).data = b.data /\ Drained(b).at = Len(b.data)
  BY DEF Drained
<1>3. Rest(Drained(b)) = <<>>
  BY <1>2 DEF Rest
<1>4. b.at = 0 => Rest(b) = b.data
  BY DEF Rest
<1>5. b.row = 0 => Rest(b) = <<>>
  BY DEF Rest
<1> QED BY <1>1, <1>2, <1>3, <1>4, <1>5

LEMMA UnsetIsBuffer == Unset \in LobBuffers /\ ~IsSet(Unset) /\ Unset.data = <<>> /\ Unset.row = 0 /\ Rest(Unset) = <<>>
<1>1. <<>> \in Text
  BY DEF Text
<1> QED BY <1>1 DEF Unset, LobBuffers, IsSet, Rest

LEMMA BufferedIs ==
  ASSUME NEW a \in Accessors, a.row # 0, NEW s \in Text
  PROVE  /\ Buffered(a, s) \in LobBuffers /\ IsSet(Buffered(a, s)) /\ Buffered(a, s).data = s
         /\ Buffered(a, s).row = a.row /\ Rest(Buffered(a, s)) = s /\ Buffered(a, s).at = 0
<1>1. Len(s) \in Nat /\ SubSeq(s, 1, Len(s)) = s
  BY DEF Text
<1> QED BY <1>1 DEF Buffered, LobBuffers, IsSet, Rest, Text, Accessors

LEMMA AddedIs ==
  ASSUME NEW a \in Accessors, a.row # 0, NEW b \in LobBuffers, NEW s \in Text
  PROVE  /\ Added(a, b, s) \in LobBuffers /\ Added(a, b, s).row = a.row
         /\ Rest(Added(a, b, s)) = Rest(b) \o s
<1>1. b.data \in Text /\ b.at \in 0..Len(b.data)
  BY DEF LobBuffers, Text
<1>2. b.data \o s \in Text /\ Len(b.data \o s) = Len(b.data) + Len(s) /\ Len(s) \in Nat
  BY <1>1 DEF Text
<1>3. /\ Added(a, b, s) \in [data : Text, at : Nat, row : Nat]
      /\ Added(a, b, s).data = b.data \o s /\ Added(a, b, s).at = b.at /\ Added(a, b, s).row = a.row
  <2> DEFINE x == b.data \o s
  <2>1. b \in [data : Text, at : Nat, row : Nat] /\ x \in Text /\ a.row \in Nat
    BY <1>2 DEF LobBuffers, Accessors
  <2>2. Added(a, b, s) = [b EXCEPT !.data = x, !.row = a.row]
    BY DEF Added
  <2> HIDE DEF x
  <2>3. [b EXCEPT !.data = x, !.row = a.row] \in [data : Text, at : Nat, row : Nat]
    BY <2>1
  <2>4. /\ [b EXCEPT !.data = x, !.row = a.row].data = x
        /\ [b EXCEPT !.data = x, !.row = a.row].at = b.at
        /\ [b EXCEPT !.data = x, !.row = a.row].row = a.row
    BY <2>1
  <2> QED BY <2>2, <2>3, <2>4 DEF x
<1>4. Added(a, b, s) \in LobBuffers
  BY <1>1, <1>2, <1>3 DEF LobBuffers, Text
<1>5. Rest(Added(a, b, s)) = Rest(b) \o s
  <2>1. b.data \in Seq(Characters) /\ s \in Seq(Characters)
    BY <1>1 DEF Text
  <2>2. SubSeq(b.data \o s, b.at + 1, Len(b.data \o s)) = SubSeq(b.data, b.at + 1, Len(b.data)) \o s
    BY <1>1, <2>1, RestAdded
  <2> QED BY <1>3, <2>2 DEF Rest
<1> QED BY <1>3, <1>4, <1>5

\* The characters of every object are Characters.
LEMMA ContentsIsText ==
  ASSUME NEW a \in Accessors, a.row # 0, a.row <= Len(Lobs)
  PROVE  Contents(a) \in Text
<1>1. a.row \in 1..Len(Lobs)
  BY LobsAssumption DEF Accessors
<1>2. Lobs[a.row] \in {NullLob} \union Seq(Characters)
  BY <1>1, LobsAssumption
<1> QED BY <1>2 DEF Contents, Value, Text

\* What an operation may make of the accessor.
Follows(r, l, a, b) == Tidy(r, l, b) /\ b.row = a.row /\ (WholeKept(r, a) => WholeKept(r, b))

LEMMA AnsweredPasses ==
  ASSUME NEW a, NEW r PROVE /\ Answered(a, r).accessor = a /\ Answered(a, r).ret = r
                           /\ Passed(Answered(a, r)) <=> r \notin Failures
BY DEF Answered, Passed

LEMMA FailuresAre ==
  /\ <<>> \notin Failures
  /\ <<"NullException">> \in Failures /\ <<"ConvertException">> \in Failures /\ <<"EngineException">> \in Failures
BY DEF Failures

\* Opening the stream changes nothing of what is left.
LEMMA OpenedIs ==
  ASSUME NEW a, Tidy(reader, lobType, a), a.row # 0
  PROVE  LET o == Opened(a)
         IN  /\ o.accessor \in Accessors /\ o.accessor.row = a.row /\ o.accessor.stream.row <= a.row
             /\ o.accessor.text = a.text /\ o.accessor.cache = a.cache
             /\ Hidden(reader, a) => Hidden(reader, o.accessor)
             /\ Left(o.accessor) = Left(a)
             /\ IF Value(a) = NullLob /\ reader \notin Odbc THEN o.accessor = a /\ o.ret = <<"NullException">>
                ELSE IsSet(o.accessor.stream) /\ o.ret = <<>>
<1> DEFINE o == Opened(a)
           n == [a EXCEPT !.stream = Buffered(a, Contents(a))]
<1>1. a \in Accessors /\ a.row <= Len(Lobs) /\ a.stream.row <= a.row /\ a.row \in Nat /\ a.stream \in LobBuffers
  BY DEF Tidy, Accessors
<1>2. CASE Value(a) = NullLob /\ reader \notin Odbc
  <2>1. o.accessor = a /\ o.ret = <<"NullException">>
    BY <1>2 DEF Opened, Answered
  <2> QED BY <1>1, <1>2, <2>1
<1>3. CASE ~(Value(a) = NullLob /\ reader \notin Odbc) /\ IsSet(a.stream)
  <2>1. o.accessor = a /\ o.ret = <<>>
    BY <1>3 DEF Opened, Answered
  <2> QED BY <1>1, <1>3, <2>1
<1>4. CASE ~(Value(a) = NullLob /\ reader \notin Odbc) /\ ~IsSet(a.stream)
  <2>1. o.accessor = n /\ o.ret = <<>>
    BY <1>4 DEF Opened, Answered
  <2>2. Contents(a) \in Text
    BY <1>1, ContentsIsText
  <2> DEFINE s == Buffered(a, Contents(a))
  <2>3. s \in LobBuffers /\ IsSet(s) /\ s.row = a.row /\ Rest(s) = Contents(a)
    BY <1>1, <2>2, BufferedIs
  <2> HIDE DEF s
  <2>4. /\ n \in Accessors /\ n.row = a.row /\ n.stream = s /\ n.text = a.text /\ n.cache = a.cache
    BY <1>1, <2>3 DEF Accessors, s
  <2> HIDE DEF n
  <2>5. Hidden(reader, a) => Hidden(reader, n)
    <3>1. a.stream.data = <<>>
      BY <1>1, <1>4 DEF IsSet, LobBuffers
    <3> QED BY <1>4, <2>3, <2>4, <3>1 DEF Hidden, Value
  <2>6. Left(n) = Left(a)
    BY <1>4, <2>3, <2>4 DEF Left
  <2> QED BY <1>1, <1>4, <2>1, <2>3, <2>4, <2>5, <2>6
<1> QED BY <1>2, <1>3, <1>4

\* Decoding moves what is left into the text.
LEMMA OpensIs ==
  ASSUME NEW a, Tidy(reader, lobType, a), a.row # 0, NEW type \in {"BLOB", "MEMO"},
         type = "BLOB" => Rest(a.text) = <<>>
  PROVE  LET o == Opens(type, a)
         IN  /\ o.accessor \in Accessors /\ o.accessor.row = a.row
             /\ o.accessor.stream.row <= a.row /\ o.accessor.text.row <= a.row
             /\ o.accessor.cache = a.cache
             /\ type = "BLOB" \/ lobType = "WMEMO" => o.accessor.text = a.text
             /\ Hidden(reader, a) => Hidden(reader, o.accessor)
             /\ Left(o.accessor) = Left(a)
             /\ IF Value(a) = NullLob /\ reader \notin Odbc THEN o.accessor = a /\ o.ret = <<"NullException">>
                ELSE /\ IsSet(o.accessor.stream) /\ o.ret = <<>>
                     /\ Rest(o.accessor[Source(type)]) = Left(a)
                     /\ Source(type) = "stream" => Rest(o.accessor.text) = <<>>
                     /\ Source(type) = "text" => Rest(o.accessor.stream) = <<>>
<1> DEFINE o == Opens(type, a)
           p == Opened(a)
           b == p.accessor
<1>1. a \in Accessors /\ a.row <= Len(Lobs) /\ a.row \in Nat /\ a.text.row <= a.row /\ a.text \in LobBuffers
      /\ (lobType = "WMEMO" => Rest(a.text) = <<>>)
  BY DEF Tidy, Accessors
<1>2. /\ b \in Accessors /\ b.row = a.row /\ b.stream.row <= a.row /\ b.text = a.text /\ b.cache = a.cache
      /\ Hidden(reader, a) => Hidden(reader, b)
      /\ Left(b) = Left(a)
      /\ IF Value(a) = NullLob /\ reader \notin Odbc THEN b = a /\ p.ret = <<"NullException">>
         ELSE IsSet(b.stream) /\ p.ret = <<>>
  BY OpenedIs
<1>3. b.stream \in LobBuffers /\ b.text \in LobBuffers /\ Rest(b.stream) \in Text /\ Rest(b.text) \in Text
  BY <1>2, BufferFacts DEF Accessors
<1>4. CASE type = "BLOB" \/ lobType = "WMEMO" \/ ~Passed(p)
  <2>1. o = p
    BY <1>4 DEF Opens, Decoded
  <2>2. ~Passed(p) => Value(a) = NullLob /\ reader \notin Odbc
    BY <1>2, FailuresAre DEF Passed
  <2>3. type = "BLOB" \/ lobType = "WMEMO" => Source(type) = "stream" /\ Rest(b.text) = <<>>
    BY <1>1, <1>2 DEF Source
  <2>4. IsSet(b.stream) /\ Rest(b.text) = <<>> => Rest(b.stream) = Left(b)
    BY <1>3 DEF Left, Text
  <2> QED BY <1>1, <1>2, <1>4, <2>1, <2>2, <2>3, <2>4
<1>5. CASE type = "MEMO" /\ lobType # "WMEMO" /\ Passed(p)
  <2> DEFINE x == Added(a, b.text, Rest(b.stream))
             y == Drained(b.stream)
             n == [b EXCEPT !.text = x, !.stream = y]
  <2>1. o.accessor = n /\ o.ret = <<>>
    BY <1>5 DEF Opens, Decoded, Answered
  <2>2. IsSet(b.stream) /\ ~(Value(a) = NullLob /\ reader \notin Odbc)
    BY <1>2, <1>5, FailuresAre DEF Passed
  <2>3. x \in LobBuffers /\ x.row = a.row /\ Rest(x) = Rest(b.text) \o Rest(b.stream)
    BY <1>1, <1>2, <1>3, AddedIs
  <2>4. y \in LobBuffers /\ Rest(y) = <<>> /\ y.row = b.stream.row /\ y.data = b.stream.data
    BY <1>3, BufferFacts
  <2> HIDE DEF x, y
  <2>5. n \in Accessors /\ n.row = a.row /\ n.text = x /\ n.stream = y /\ n.cache = a.cache
    BY <1>2, <2>3, <2>4 DEF Accessors
  <2> HIDE DEF n
  <2>6. IsSet(n.stream)
    BY <2>2, <2>4, <2>5 DEF IsSet
  <2>7. Left(n) = Left(a) /\ Rest(x) = Left(a)
    <3>1. Left(b) = Rest(b.text) \o Rest(b.stream)
      BY <2>2 DEF Left
    <3>2. Left(n) = Rest(x) \o <<>>
      BY <2>4, <2>5, <2>6 DEF Left
    <3>3. Rest(x) \in Text
      BY <2>3, BufferFacts
    <3>4. Rest(x) \o <<>> = Rest(x)
      BY <3>3 DEF Text
    <3> QED BY <1>2, <2>3, <3>1, <3>2, <3>4
  <2>8. Hidden(reader, a) => Hidden(reader, n)
    BY <1>2, <2>4, <2>5 DEF Hidden, Value, IsSet
  <2>9. Source(type) = "text"
    BY <1>5 DEF Source
  <2> QED BY <1>1, <1>2, <1>5, <2>1, <2>2, <2>3, <2>4, <2>5, <2>6, <2>7, <2>8, <2>9
<1> QED BY <1>4, <1>5

\* All of it is taken.
LEMMA TakenIs ==
  ASSUME NEW a \in Accessors, NEW type \in {"BLOB", "MEMO"},
         Source(type) = "stream" => Rest(a.text) = <<>>
  PROVE  LET t == Taken(type, a)
         IN  /\ t.accessor \in Accessors /\ t.accessor.row = a.row /\ t.accessor.cache = a.cache
             /\ t.accessor.stream.row = a.stream.row /\ t.accessor.text.row = a.text.row
             /\ Rest(t.accessor.text) = <<>>
             /\ t.accessor.stream.data = a.stream.data
             /\ t.ret = Rest(a[Source(type)]) /\ t.ret \in Text
<1> DEFINE b == Taken(type, a).accessor
<1>1. a.stream \in LobBuffers /\ a.text \in LobBuffers /\ Source(type) \in {"stream", "text"}
  BY DEF Accessors, Source
<1>2. b = [a EXCEPT ![Source(type)] = Drained(a[Source(type)])] /\ Taken(type, a).ret = Rest(a[Source(type)])
  BY DEF Taken, Answered
<1>3. CASE Source(type) = "stream"
  <2> DEFINE y == Drained(a.stream)
  <2>1. y \in LobBuffers /\ y.row = a.stream.row /\ y.data = a.stream.data /\ Rest(a.stream) \in Text
    BY <1>1, BufferFacts
  <2>2. b = [a EXCEPT !.stream = y]
    BY <1>2, <1>3
  <2> HIDE DEF y
  <2>3. b \in Accessors /\ b.stream = y /\ b.text = a.text /\ b.cache = a.cache /\ b.row = a.row
    BY <2>1, <2>2 DEF Accessors
  <2> QED BY <1>2, <1>3, <2>1, <2>3
<1>4. CASE Source(type) = "text"
  <2> DEFINE y == Drained(a.text)
  <2>1. y \in LobBuffers /\ y.row = a.text.row /\ Rest(y) = <<>> /\ Rest(a.text) \in Text
    BY <1>1, BufferFacts
  <2>2. b = [a EXCEPT !.text = y]
    BY <1>2, <1>4
  <2> HIDE DEF y
  <2>3. b \in Accessors /\ b.stream = a.stream /\ b.text = y /\ b.cache = a.cache /\ b.row = a.row
    BY <2>1, <2>2 DEF Accessors
  <2> QED BY <1>2, <1>4, <2>1, <2>3
<1> QED BY <1>1, <1>3, <1>4

\* What a column may give.
MayGive(a) == Failures \union {IF reader \in Odbc THEN Contents(a) ELSE Value(a)}

\* An answer of the accessor: it leaves what is kept, and gives all of the object.
Serves(a, o) ==
  /\ Follows(reader, lobType, a, o.accessor)
  /\ Passed(o) => o.ret \in Text
  /\ WholeKept(reader, a) /\ ~Hidden(reader, a) => o.ret \in MayGive(a)

\* The types of buffer that are read through the cache.
Cached(type) ==
  /\ type \in {"BLOB", "MEMO"}
  /\ IF reader = "sqlite" THEN type = "BLOB" ELSE reader # "sdi" /\ type = MemoType

LEMMA CachedIs ==
  ASSUME NEW a, Tidy(reader, lobType, a), NEW type, Cached(type), lobType \in {"BLOB", "MEMO", "WMEMO"}
  PROVE  /\ type \in {"BLOB", "MEMO"} /\ reader # "sdi"
         /\ type = "BLOB" => Rest(a.text) = <<>>
         /\ reader \in Embedded \/ lobType # "MEMO" => type = "BLOB" \/ lobType = "WMEMO"
BY DEF Cached, MemoType, Embedded, Tidy

LEMMA ToCacheServes ==
  ASSUME NEW a, Tidy(reader, lobType, a), a.row # 0, NEW type, Cached(type), lobType \in {"BLOB", "MEMO", "WMEMO"}
  PROVE  Serves(a, CastToCache(type, a))
<1> DEFINE c == CastToCache(type, a)
           o == Opens(type, a)
           t == Taken(type, o.accessor)
<1>1. /\ a \in Accessors /\ a.row <= Len(Lobs) /\ a.row \in Nat /\ a.cache \in LobBuffers
      /\ a.stream.row <= a.row /\ a.text.row <= a.row /\ a.cache.row <= a.row
      /\ (reader \in Embedded \/ lobType # "MEMO" => Rest(a.text) = <<>>)
  BY DEF Tidy, Accessors
<1>2. /\ type \in {"BLOB", "MEMO"} /\ (type = "BLOB" => Rest(a.text) = <<>>) /\ reader # "sdi"
      /\ reader \in Embedded \/ lobType # "MEMO" => type = "BLOB" \/ lobType = "WMEMO"
  BY CachedIs
<1>3. CASE IsSet(a.cache)
  <2> DEFINE y == Drained(a.cache)
             n == [a EXCEPT !.cache = y]
  <2>1. c.accessor = n /\ c.ret = a.cache.data
    BY <1>3 DEF CastToCache, Answered
  <2>2. y \in LobBuffers /\ y.row = a.cache.row /\ y.data = a.cache.data /\ a.cache.data \in Text
    BY <1>1, BufferFacts DEF LobBuffers
  <2> HIDE DEF y
  <2>3. n \in Accessors /\ n.row = a.row /\ n.cache = y /\ n.stream = a.stream /\ n.text = a.text
    BY <1>1, <2>2 DEF Accessors
  <2> HIDE DEF n
  <2>4. IsSet(n.cache)
    BY <1>3, <2>2, <2>3 DEF IsSet
  <2>5. Tidy(reader, lobType, n)
    BY <1>1, <1>2, <2>2, <2>3 DEF Tidy
  <2>6. Hidden(reader, n) <=> Hidden(reader, a)
    BY <1>2, <1>3, <2>2, <2>3 DEF Hidden, Value, IsSet
  <2>7. WholeKept(reader, a) => WholeKept(reader, n)
    BY <1>3, <2>2, <2>3, <2>4, <2>6 DEF WholeKept, Contents, Value
  <2>8. WholeKept(reader, a) /\ ~Hidden(reader, a) => c.ret = Contents(a) /\ Value(a) # NullLob
    BY <1>3, <2>1 DEF WholeKept, Hidden
  <2> QED BY <2>1, <2>2, <2>3, <2>5, <2>7, <2>8 DEF Serves, Follows, MayGive, Contents
<1>4. CASE ~IsSet(a.cache) /\ Value(a) = NullLob /\ reader \notin Odbc
  <2> DEFINE y == Buffered(a, <<>>)
             n == [a EXCEPT !.cache = y]
  <2>1. o.accessor = a /\ o.ret = <<"NullException">>
    BY <1>2, <1>4, OpensIs
  <2>2. ~Passed(o)
    BY <2>1, FailuresAre DEF Passed
  <2>3. c.accessor = n /\ c.ret = <<"NullException">>
    BY <1>4, <2>1, <2>2 DEF CastToCache, Answered
  <2>4. y \in LobBuffers /\ y.row = a.row /\ IsSet(y)
    <3>1. <<>> \in Text
      BY DEF Text
    <3> QED BY <1>1, <3>1, BufferedIs
  <2> HIDE DEF y
  <2>5. n \in Accessors /\ n.row = a.row /\ n.cache = y /\ n.stream = a.stream /\ n.text = a.text
    BY <1>1, <2>4 DEF Accessors
  <2> HIDE DEF n
  <2>6. Tidy(reader, lobType, n)
    BY <1>1, <1>2, <2>4, <2>5 DEF Tidy
  <2>7. WholeKept(reader, n)
    BY <1>4, <2>4, <2>5 DEF WholeKept, Hidden, Value
  <2>8. c.ret \in Failures /\ ~Passed(c)
    BY <2>3, FailuresAre DEF Passed
  <2> QED BY <2>3, <2>5, <2>6, <2>7, <2>8 DEF Serves, Follows, MayGive
<1>5. CASE ~IsSet(a.cache) /\ ~(Value(a) = NullLob /\ reader \notin Odbc)
  <2> DEFINE b == o.accessor
             d == t.accessor
             y == Drained(Buffered(a, t.ret))
             n == [d EXCEPT !.cache = y]
  <2>1. /\ b \in Accessors /\ b.row = a.row /\ b.stream.row <= a.row /\ b.text.row <= a.row /\ b.cache = a.cache
        /\ (type = "BLOB" \/ lobType = "WMEMO" => b.text = a.text)
        /\ (Hidden(reader, a) => Hidden(reader, b))
        /\ Left(b) = Left(a) /\ o.ret = <<>>
        /\ Rest(b[Source(type)]) = Left(a)
        /\ Source(type) = "stream" => Rest(b.text) = <<>>
    BY <1>2, <1>5, OpensIs
  <2>2. Passed(o)
    BY <2>1, FailuresAre DEF Passed
  <2>3. c.accessor = n /\ c.ret = t.ret
    BY <1>5, <2>2 DEF CastToCache, Answered
  <2>4. /\ d \in Accessors /\ d.row = a.row /\ d.stream.row <= a.row /\ d.text.row <= a.row
        /\ Rest(d.text) = <<>> /\ d.stream.data = b.stream.data
        /\ t.ret = Left(a) /\ t.ret \in Text
    BY <1>2, <2>1, TakenIs
  <2>5. y \in LobBuffers /\ y.row = a.row /\ y.data = t.ret
    <3>1. Buffered(a, t.ret) \in LobBuffers /\ Buffered(a, t.ret).row = a.row /\ Buffered(a, t.ret).data = t.ret
      BY <1>1, <2>4, BufferedIs
    <3> QED BY <3>1, BufferFacts
  <2>6. IsSet(y)
    BY <2>5 DEF IsSet
  <2> HIDE DEF y
  <2>7. n \in Accessors /\ n.row = a.row /\ n.cache = y /\ n.stream = d.stream /\ n.text = d.text
    BY <2>4, <2>5 DEF Accessors
  <2> HIDE DEF n
  <2>8. Tidy(reader, lobType, n)
    BY <1>1, <1>2, <2>4, <2>5, <2>7 DEF Tidy
  <2>9. Hidden(reader, a) => Hidden(reader, n)
    <3>1. Hidden(reader, a) => \E i \in DOMAIN b.stream.data : b.stream.data[i] = Lost
      BY <1>2, <1>5, <2>1 DEF Hidden
    <3> QED BY <2>4, <2>7, <3>1 DEF Hidden
  <2>10. WholeKept(reader, a) /\ ~Hidden(reader, a) => t.ret = Contents(a)
    BY <1>5, <2>4 DEF WholeKept
  <2>11. WholeKept(reader, a) => WholeKept(reader, n)
    BY <2>5, <2>6, <2>7, <2>9, <2>10 DEF WholeKept, Contents, Value
  <2>12. Contents(a) \in MayGive(a)
    BY <1>5 DEF MayGive, Contents
  <2> QED BY <2>3, <2>4, <2>7, <2>8, <2>10, <2>11, <2>12 DEF Serves, Follows
<1> QED BY <1>3, <1>4, <1>5

LEMMA FromStreamServes ==
  ASSUME NEW a, Tidy(reader, lobType, a), a.row # 0, NEW type \in {"BLOB", "MEMO"}, reader = "sdi", lobType # "WMEMO"
  PROVE  Serves(a, CastFromStream(type, a))
<1> DEFINE c == CastFromStream(type, a)
           o == Opens(type, a)
           b == o.accessor
           t == Taken(type, b)
           n == t.accessor
<1>1. /\ a \in Accessors /\ a.row <= Len(Lobs) /\ a.row \in Nat
      /\ a.stream.row <= a.row /\ a.text.row <= a.row /\ a.cache.row <= a.row
      /\ Rest(a.text) = <<>> /\ ~IsSet(a.cache) /\ reader \notin Odbc
  BY DEF Tidy, Accessors, Embedded, Odbc
<1>2. CASE Value(a) = NullLob
  <2>1. b = a /\ o.ret = <<"NullException">>
    BY <1>1, <1>2, OpensIs
  <2>2. c.accessor = a /\ c.ret \in Failures /\ ~Passed(c)
    BY <2>1, FailuresAre DEF CastFromStream, Passed
  <2> QED BY <2>2 DEF Serves, Follows, MayGive
<1>3. CASE Value(a) # NullLob
  <2>1. /\ b \in Accessors /\ b.row = a.row /\ b.stream.row <= a.row /\ b.text.row <= a.row /\ b.cache = a.cache
        /\ o.ret = <<>> /\ IsSet(b.stream)
        /\ Rest(b[Source(type)]) = Left(a)
        /\ Source(type) = "stream" => Rest(b.text) = <<>>
    BY <1>1, <1>3, OpensIs
  <2>2. c = t
    BY <2>1, FailuresAre DEF CastFromStream, Passed
  <2>3. /\ n \in Accessors /\ n.row = a.row /\ n.cache = a.cache
        /\ n.stream.row = b.stream.row /\ n.text.row = b.text.row /\ Rest(n.text) = <<>>
        /\ t.ret = Left(a) /\ t.ret \in Text
    BY <2>1, TakenIs
  <2>4. Tidy(reader, lobType, n)
    BY <1>1, <2>1, <2>3 DEF Tidy
  <2>5. Hidden(reader, n)
    BY <2>1, <2>3 DEF Hidden, IsSet
  <2>6. WholeKept(reader, a) /\ ~Hidden(reader, a) => t.ret \in MayGive(a)
    BY <1>1, <1>3, <2>3 DEF WholeKept, MayGive, Contents
  <2> QED BY <2>2, <2>3, <2>4, <2>5, <2>6 DEF Serves, Follows, WholeKept
<1> QED BY <1>2, <1>3

\* What throws before it does anything.
LEMMA ThrowServes ==
  ASSUME NEW a, Tidy(reader, lobType, a), NEW r \in Failures
  PROVE  Serves(a, Answered(a, r))
BY DEF Serves, Follows, MayGive, Answered, Passed

LEMMA ToOtherServes ==
  ASSUME NEW a, Tidy(reader, lobType, a), a.row # 0, reader \notin Embedded, lobType \in {"BLOB", "MEMO", "WMEMO"}
  PROVE  Serves(a, CastToOther(a))
<1> DEFINE o == CastToCache(MemoType, a)
<1>1. Cached(MemoType)
  BY DEF Cached, MemoType, Embedded
<1>2. Serves(a, o)
  BY <1>1, ToCacheServes
<1>3. CastToOther(a) = IF Passed(o) THEN Answered(o.accessor, <<"ConvertException">>) ELSE o
  BY DEF CastToOther
<1>4. CASE Passed(o)
  <2> DEFINE r == Answered(o.accessor, <<"ConvertException">>)
  <2>1. r.accessor = o.accessor /\ r.ret \in MayGive(a) /\ ~Passed(r)
    BY FailuresAre DEF MayGive, Answered, Passed
  <2>2. CastToOther(a) = r
    BY <1>3, <1>4
  <2> HIDE DEF r, o
  <2> QED BY <1>2, <2>1, <2>2 DEF Serves
<1>5. CASE ~Passed(o)
  BY <1>2, <1>3, <1>5
<1> QED BY <1>4, <1>5

LobTypes == reader \in Readers /\ lobType \in {"BLOB", "MEMO", "WMEMO"} /\ (lobType = "WMEMO" => reader \in Odbc)

\* A moved BLOB is lost, unless it was empty.
LEMMA TextServes ==
  ASSUME NEW a, Tidy(reader, lobType, a), a.row # 0, reader = "sqlite"
  PROVE  Serves(a, GetString(a))
<1>1. /\ a \in Accessors /\ a.row <= Len(Lobs) /\ a.row \in Nat /\ a.stream \in LobBuffers
      /\ a.stream.row <= a.row /\ a.text.row <= a.row /\ a.cache.row <= a.row
  BY DEF Tidy, Accessors
<1>2. CASE Value(a) = NullLob
  <2>1. GetString(a) = Answered(a, <<"NullException">>)
    BY <1>2 DEF GetString
  <2> QED BY <2>1, FailuresAre, ThrowServes
<1>3. CASE Value(a) # NullLob
  <2> DEFINE y == MovedAway(a.stream)
             n == [a EXCEPT !.stream = y]
  <2>1. GetString(a) = Answered(n, Value(a))
    BY <1>3 DEF GetString
  <2>2. /\ y \in LobBuffers /\ y.row = a.stream.row
        /\ y = a.stream \/ \E i \in DOMAIN y.data : y.data[i] = Lost
    <3>1. CASE ~IsSet(a.stream)
      BY <1>1, <3>1 DEF MovedAway
    <3>2. CASE IsSet(a.stream)
      <4> DEFINE d == a.stream.data
                 e == [i \in DOMAIN d |-> Lost]
      <4>1. y = [a.stream EXCEPT !.data = e]
        BY <3>2 DEF MovedAway
      <4>2. d \in Seq(Characters) /\ Lost \in Characters
        BY <1>1 DEF LobBuffers, Text, Characters
      <4>3. e \in Seq(Characters) /\ Len(e) = Len(d) /\ DOMAIN e = 1..Len(d) /\ \A i \in DOMAIN e : e[i] = Lost
        BY <4>2
      <4>4. Len(d) = 0 => e = d
        BY <4>2, <4>3
      <4> HIDE DEF e
      <4>5. y \in LobBuffers /\ y.row = a.stream.row /\ y.data = e
        BY <1>1, <3>2, <4>1, <4>3 DEF LobBuffers, Text, IsSet
      <4>6. CASE Len(d) = 0
        <5>1. y = [a.stream EXCEPT !.data = a.stream.data]
          BY <4>1, <4>4, <4>6
        <5>2. y = a.stream
          BY <1>1, <5>1 DEF LobBuffers
        <5> QED BY <4>5, <5>2
      <4>7. CASE Len(d) # 0
        <5>1. 1 \in DOMAIN e
          BY <4>2, <4>3, <4>7
        <5> QED BY <4>3, <4>5, <5>1
      <4> QED BY <4>6, <4>7
    <3> QED BY <3>1, <3>2
  <2> HIDE DEF y
  <2>3. n \in Accessors /\ n.row = a.row /\ n.cache = a.cache /\ n.stream = y /\ n.text = a.text
    BY <1>1, <2>2 DEF Accessors
  <2>4. y = a.stream => n = a
    BY <1>1 DEF Accessors
  <2> HIDE DEF n
  <2>5. Tidy(reader, lobType, n)
    BY <1>1, <2>2, <2>3 DEF Tidy
  <2>6. WholeKept(reader, a) => WholeKept(reader, n)
    BY <2>2, <2>3, <2>4 DEF WholeKept, Hidden
  <2>7. Value(a) \in Text /\ Value(a) \in MayGive(a)
    BY <1>1, <1>3, ContentsIsText DEF Contents, MayGive
  <2>8. Answered(n, Value(a)).accessor = n /\ Answered(n, Value(a)).ret = Value(a)
    BY DEF Answered
  <2> QED BY <2>1, <2>3, <2>5, <2>6, <2>7, <2>8 DEF Serves, Follows
<1> QED BY <1>2, <1>3

\* Whatever the column is asked for, the accessor serves.
LEMMA GetServes ==
  ASSUME NEW a, Tidy(reader, lobType, a), a.row # 0, LobTypes, NEW what \in {"Blob", "Memo", "String", "copy"}
  PROVE  Serves(a, GetAs(what, a))
<1>1. lobType \in {"BLOB", "MEMO", "WMEMO"} /\ (lobType = "WMEMO" => reader \in Odbc)
      /\ reader \in {"sqlite", "sdi", "odbc", "odbc_deferred", "firebird"}
  BY DEF LobTypes, Readers, Embedded, Odbc
<1>c. ASSUME NEW type, Cached(type) PROVE Serves(a, CastToCache(type, a))
  BY <1>1, <1>c, ToCacheServes
<1>t. ASSUME NEW r \in Failures PROVE Serves(a, Answered(a, r))
  BY <1>t, ThrowServes
<1>s. ASSUME NEW type \in {"BLOB", "MEMO"}, reader = "sdi" PROVE Serves(a, CastFromStream(type, a))
  BY <1>1, <1>s, FromStreamServes DEF Odbc
<1>o. ASSUME reader \notin {"sqlite", "sdi"} PROVE Serves(a, CastToOther(a))
  BY <1>1, <1>o, ToOtherServes DEF Embedded
<1>m. reader \notin {"sqlite", "sdi"} => Cached(MemoType)
  BY DEF Cached, MemoType
<1>2. CASE what = "Blob"
  <2>1. GetAs(what, a) = GetBlob(a)
    BY <1>2 DEF GetAs
  <2>2. CASE reader = "sqlite"
    <3>1. Cached("BLOB")
      BY <2>2 DEF Cached
    <3> QED BY <1>c, <2>1, <2>2, <3>1 DEF GetBlob
  <2>3. CASE reader = "sdi"
    BY <1>s, <2>1, <2>3 DEF GetBlob
  <2>4. CASE reader \notin {"sqlite", "sdi"}
    <3>1. GetBlob(a) = IF lobType = "BLOB" THEN CastToCache("BLOB", a) ELSE CastToOther(a)
      BY <2>4 DEF GetBlob
    <3>2. lobType = "BLOB" => MemoType = "BLOB"
      BY DEF MemoType
    <3> QED BY <1>c, <1>m, <1>o, <2>1, <2>4, <3>1, <3>2
  <2> QED BY <2>2, <2>3, <2>4
<1>3. CASE what = "Memo"
  <2>1. GetAs(what, a) = GetMemo(a)
    BY <1>3 DEF GetAs
  <2>2. CASE reader = "sqlite"
    BY <1>t, <2>1, <2>2, FailuresAre DEF GetMemo
  <2>3. CASE reader = "sdi"
    BY <1>s, <2>1, <2>3 DEF GetMemo
  <2>4. CASE reader \notin {"sqlite", "sdi"}
    <3>1. GetMemo(a) = IF lobType # "BLOB" THEN CastToCache("MEMO", a) ELSE CastToOther(a)
      BY <2>4 DEF GetMemo
    <3>2. lobType # "BLOB" => MemoType = "MEMO"
      BY DEF MemoType
    <3> QED BY <1>c, <1>m, <1>o, <2>1, <2>4, <3>1, <3>2
  <2> QED BY <2>2, <2>3, <2>4
<1>4. CASE what = "String"
  <2>1. GetAs(what, a) = GetString(a)
    BY <1>4 DEF GetAs
  <2>2. CASE reader = "sqlite"
    BY <2>1, <2>2, TextServes
  <2>3. CASE reader = "sdi"
    <3>1. MemoType \in {"BLOB", "MEMO"}
      BY DEF MemoType
    <3> QED BY <1>s, <2>1, <2>3, <3>1 DEF GetString
  <2>4. CASE reader \notin {"sqlite", "sdi"}
    BY <1>c, <1>m, <2>1, <2>4 DEF GetString
  <2> QED BY <2>2, <2>3, <2>4
<1>5. CASE what = "copy"
  <2>1. GetAs(what, a) = DeepCopy(a)
    BY <1>5 DEF GetAs
  <2>2. CASE reader = "sdi" \/ (reader = "sqlite" /\ lobType # "BLOB")
    BY <1>t, <2>1, <2>2, FailuresAre DEF DeepCopy
  <2>3. CASE ~(reader = "sdi" \/ (reader = "sqlite" /\ lobType # "BLOB"))
    <3>1. Cached(MemoType)
      BY <2>3 DEF Cached, MemoType
    <3> QED BY <1>c, <2>1, <2>3, <3>1 DEF DeepCopy
  <2> QED BY <2>2, <2>3
<1> QED BY <1>2, <1>3, <1>4, <1>5

\* Opening a stream leaves what is kept, too.
LEMMA StreamFollows ==
  ASSUME NEW a, Tidy(reader, lobType, a), a.row # 0, LobTypes, NEW type \in {"BLOB", "MEMO"}
  PROVE  LET o == GetStream(type, a)
         IN  /\ Follows(reader, lobType, a, o.accessor)
             /\ Passed(o) => reader # "sdi" /\ o.ret[1] \in {"stream", "text", "cache"}
<1> DEFINE o == GetStream(type, a)
           p == Opens(type, a)
           Over == (reader = "sqlite" /\ type = "BLOB") \/ (reader \notin Embedded /\ type = MemoType)
<1>1. /\ a \in Accessors /\ a.row <= Len(Lobs) /\ a.row \in Nat /\ a.cache \in LobBuffers
      /\ a.stream.row <= a.row /\ a.text.row <= a.row /\ a.cache.row <= a.row
      /\ (reader \in Embedded \/ lobType # "MEMO" => Rest(a.text) = <<>>)
      /\ (reader = "sdi" => ~IsSet(a.cache))
  BY DEF Tidy, Accessors
<1>2. CASE ~Over
  <2>1. o = Answered(a, <<"ConvertException">>)
    BY <1>2 DEF GetStream
  <2>2. o.accessor = a /\ ~Passed(o)
    BY <2>1, FailuresAre DEF Answered, Passed
  <2> QED BY <2>2 DEF Follows
<1>3. CASE Over /\ IsSet(a.cache)
  <2> DEFINE y == [a.cache EXCEPT !.at = 0]
             n == [a EXCEPT !.cache = y]
  <2>1. o.accessor = n /\ o.ret = <<"cache">>
    <3>1. o = Answered([a EXCEPT !.cache.at = 0], <<"cache">>)
      BY <1>3 DEF GetStream, StreamOver
    <3> QED BY <3>1 DEF Answered
  <2>2. y \in LobBuffers /\ y.row = a.cache.row /\ y.data = a.cache.data
    BY <1>1 DEF LobBuffers, Text
  <2> HIDE DEF y
  <2>3. n \in Accessors /\ n.row = a.row /\ n.cache = y /\ n.stream = a.stream /\ n.text = a.text
    BY <1>1, <2>2 DEF Accessors
  <2> HIDE DEF n
  <2>4. Tidy(reader, lobType, n)
    BY <1>1, <2>2, <2>3 DEF Tidy, IsSet
  <2>5. WholeKept(reader, a) => WholeKept(reader, n)
    BY <1>3, <2>2, <2>3 DEF WholeKept, Hidden, Contents, Value, IsSet
  <2>6. o.ret[1] = "cache" /\ reader # "sdi"
    BY <1>3, <2>1 DEF Embedded
  <2> QED BY <2>1, <2>3, <2>4, <2>5, <2>6 DEF Follows
<1>4. CASE Over /\ ~IsSet(a.cache)
  <2>1. Cached(type)
    BY <1>4 DEF Cached, Embedded
  <2>2. /\ (type = "BLOB" => Rest(a.text) = <<>>) /\ reader # "sdi"
        /\ (reader \in Embedded \/ lobType # "MEMO" => type = "BLOB" \/ lobType = "WMEMO")
    BY <2>1, CachedIs DEF LobTypes
  <2> DEFINE b == p.accessor
  <2>3. /\ b \in Accessors /\ b.row = a.row /\ b.stream.row <= a.row /\ b.text.row <= a.row /\ b.cache = a.cache
        /\ (type = "BLOB" \/ lobType = "WMEMO" => b.text = a.text)
        /\ (Hidden(reader, a) => Hidden(reader, b))
        /\ Left(b) = Left(a)
    BY <2>2, OpensIs
  <2>4. o.accessor = b /\ (Passed(o) => o.ret = <<Source(type)>>)
    <3>1. o = IF Passed(p) THEN Answered(b, <<Source(type)>>) ELSE p
      BY <1>4 DEF GetStream, StreamOver
    <3> QED BY <3>1 DEF Answered
  <2>5. Tidy(reader, lobType, b)
    BY <1>1, <2>2, <2>3 DEF Tidy
  <2>6. WholeKept(reader, a) => WholeKept(reader, b)
    BY <1>4, <2>3 DEF WholeKept, Contents, Value
  <2>7. <<Source(type)>>[1] \in {"stream", "text", "cache"}
    BY DEF Source
  <2> QED BY <2>2, <2>3, <2>4, <2>5, <2>6, <2>7 DEF Follows
<1> QED BY <1>2, <1>3, <1>4

\* On the next row, all of the object is there to be read.
LEMMA ArrivedIs ==
  ASSUME NEW a, Tidy(reader, lobType, a), LobTypes, a.row < Len(Lobs)
  PROVE  /\ Tidy(reader, lobType, Arrived(a)) /\ WholeKept(reader, Arrived(a)) /\ Arrived(a).row = a.row + 1
<1> DEFINE b == [a EXCEPT !.row = a.row + 1]
           h == Refreshed(b)
<1>1. /\ a \in Accessors /\ a.row \in Nat /\ Len(Lobs) \in Nat
      /\ a.stream.row <= a.row /\ a.text.row <= a.row /\ a.cache.row <= a.row
      /\ a.text \in LobBuffers /\ a.cache \in LobBuffers
      /\ (reader \in Embedded \/ lobType # "MEMO" => Rest(a.text) = <<>>)
      /\ (reader = "sdi" => ~IsSet(a.cache))
  BY LobsAssumption DEF Tidy, Accessors
<1>2. b \in Accessors /\ b.row = a.row + 1 /\ b.text = a.text /\ b.cache = a.cache
  BY <1>1 DEF Accessors
<1>u. Unset \in LobBuffers /\ ~IsSet(Unset) /\ Unset.data = <<>> /\ Unset.row = 0 /\ Rest(Unset) = <<>>
  BY UnsetIsBuffer
<1> HIDE DEF b
<1>3. /\ h \in Accessors /\ h.row = a.row + 1 /\ h.stream = Unset
      /\ IF reader \in Embedded THEN h.text = a.text /\ h.cache = a.cache ELSE h.text = Unset /\ h.cache = Unset
  <2>1. CASE reader \in Embedded
    <3>1. h = [b EXCEPT !.stream = Unset]
      BY <2>1 DEF Refreshed
    <3> QED BY <1>2, <1>u, <2>1, <3>1 DEF Accessors
  <2>2. CASE reader \notin Embedded
    <3>1. h = [row |-> b.row, stream |-> Unset, text |-> Unset, cache |-> Unset]
      BY <2>2 DEF Refreshed
    <3> QED BY <1>1, <1>2, <1>u, <2>2, <3>1 DEF Accessors
  <2> QED BY <2>1, <2>2
<1>4. Arrived(a) = IF reader = "odbc" THEN [CastToCache(MemoType, h).accessor EXCEPT !.cache.at = 0] ELSE h
  BY DEF Arrived, b
<1> HIDE DEF h
<1>5. Tidy(reader, lobType, h)
  <2>1. h.stream.row <= h.row /\ h.text.row <= h.row /\ h.cache.row <= h.row
    <3>1. a.text.row \in Nat /\ a.cache.row \in Nat
      BY <1>1 DEF LobBuffers
    <3> QED BY <1>1, <1>3, <1>u, <3>1
  <2>2. h.row <= Len(Lobs)
    BY <1>1, <1>3
  <2>3. (reader \in Embedded \/ lobType # "MEMO" => Rest(h.text) = <<>>) /\ (reader = "sdi" => ~IsSet(h.cache))
    BY <1>1, <1>3, <1>u
  <2> QED BY <1>3, <2>1, <2>2, <2>3 DEF Tidy
<1>6. WholeKept(reader, h)
  <2>1. CASE IsSet(h.cache)
    <3>1. h.cache = a.cache /\ a.cache.row \in Nat
      BY <1>1, <1>3, <1>u, <2>1 DEF LobBuffers
    <3>2. h.cache.row # h.row
      BY <1>1, <1>3, <3>1
    <3> QED BY <2>1, <3>2 DEF WholeKept, Hidden
  <2>2. CASE ~IsSet(h.cache)
    <3>1. Rest(h.text) = <<>>
      BY <1>1, <1>3, <1>u
    <3>2. h.row # 0 /\ h.row <= Len(Lobs)
      BY <1>1, <1>3
    <3>3. Contents(h) \in Text
      BY <1>3, <3>2, ContentsIsText
    <3>4. Left(h) = Contents(h)
      BY <1>3, <1>u, <3>1, <3>3 DEF Left, Text
    <3> QED BY <2>2, <3>4 DEF WholeKept
  <2> QED BY <2>1, <2>2
<1>7. CASE reader # "odbc"
  BY <1>3, <1>4, <1>5, <1>6, <1>7
<1>8. CASE reader = "odbc"
  <2> DEFINE c == CastToCache(MemoType, h).accessor
             y == [c.cache EXCEPT !.at = 0]
             n == [c EXCEPT !.cache = y]
  <2>1. Cached(MemoType) /\ h.row # 0
    BY <1>1, <1>3, <1>8 DEF Cached, MemoType
  <2>2. Serves(h, CastToCache(MemoType, h))
    BY <1>5, <2>1, ToCacheServes DEF LobTypes
  <2>3. Tidy(reader, lobType, c) /\ c.row = h.row /\ WholeKept(reader, c)
    BY <1>6, <2>2 DEF Serves, Follows
  <2>4. Arrived(a) = n
    BY <1>4, <1>8
  <2> HIDE DEF c
  <2>5. /\ c \in Accessors /\ c.row <= Len(Lobs) /\ c.cache \in LobBuffers
        /\ c.stream.row <= c.row /\ c.text.row <= c.row /\ c.cache.row <= c.row
        /\ (reader \in Embedded \/ lobType # "MEMO" => Rest(c.text) = <<>>)
    BY <2>3 DEF Tidy, Accessors
  <2>6. y \in LobBuffers /\ y.row = c.cache.row /\ y.data = c.cache.data
    BY <2>5 DEF LobBuffers, Text
  <2> HIDE DEF y
  <2>7. n \in Accessors /\ n.row = c.row /\ n.cache = y /\ n.stream = c.stream /\ n.text = c.text
    BY <2>5, <2>6 DEF Accessors
  <2> HIDE DEF n
  <2>8. Tidy(reader, lobType, n)
    BY <1>8, <2>5, <2>6, <2>7 DEF Tidy
  <2>9. WholeKept(reader, n)
    BY <2>3, <2>6, <2>7 DEF WholeKept, Hidden, IsSet, Left, Contents, Value
  <2> QED BY <1>3, <2>3, <2>4, <2>7, <2>8, <2>9
<1> QED BY <1>7, <1>8

LEMMA LobInitInvariant == LobInit => LobInv
<1> SUFFICES ASSUME LobInit PROVE LobInv
  OBVIOUS
<1>u. Unset \in LobBuffers /\ ~IsSet(Unset) /\ Unset.data = <<>> /\ Unset.row = 0 /\ Rest(Unset) = <<>>
  BY UnsetIsBuffer
<1>1. /\ accessor \in Accessors /\ accessor.row = 0 /\ accessor.stream = Unset /\ accessor.text = Unset
      /\ accessor.cache = Unset
  BY <1>u DEF LobInit, Accessors
<1>2. Len(Lobs) \in Nat
  BY LobsAssumption
<1>3. Tidy(reader, lobType, accessor)
  BY <1>1, <1>2, <1>u DEF Tidy
<1>4. <<>> \in Text
  BY DEF Text
<1>5. lobType \in {"BLOB", "MEMO", "WMEMO"} /\ (lobType = "WMEMO" => reader \in Odbc)
  BY DEF LobInit
<1> QED BY <1>1, <1>3, <1>4, <1>5, <1>u DEF LobInv, LobInit, OnLob

\* What leaves the rows and the copy alone.
LEMMA AccessorStep ==
  ASSUME LobInv, OnLob, Follows(reader, lobType, accessor, accessor'),
         UNCHANGED <<reader, lobType, spent>>,
         handed' \subseteq {"stream", "text", "cache"}, reader = "sdi" => handed' = {},
         copied' \in LobBuffers, received' \in Text, IsSet(copied') => copied'.data = received'
  PROVE  LobInv'
<1>1. Tidy(reader', lobType', accessor') /\ accessor'.row # 0
  BY DEF Follows, OnLob
<1>2. ~spent' => WholeKept(reader', accessor')
  BY DEF LobInv, Follows
<1>3. OnLob'
  BY <1>1 DEF OnLob
<1>4. reader' \in Readers /\ lobType' \in {"BLOB", "MEMO", "WMEMO"} /\ (lobType' = "WMEMO" => reader' \in Odbc)
      /\ spent' \in BOOLEAN
  BY DEF LobInv
<1>5. (reader' = "sdi" => handed' = {})
  OBVIOUS
<1> QED BY <1>1, <1>2, <1>3, <1>4, <1>5 DEF LobInv

\* What leaves everything but the copy alone.
LEMMA CopyStep ==
  ASSUME LobInv, UNCHANGED <<reader, lobType, accessor, handed, spent, received>>,
         copied' \in LobBuffers, IsSet(copied') => copied'.data = received
  PROVE  LobInv'
BY DEF LobInv, OnLob

\* A buffer that was read on.
LEMMA ReadOn ==
  ASSUME NEW b \in LobBuffers, NEW k \in 0..Len(b.data)
  PROVE  /\ [b EXCEPT !.at = k] \in LobBuffers /\ [b EXCEPT !.at = k].data = b.data
         /\ [b EXCEPT !.at = k].row = b.row /\ [b EXCEPT !.at = k].at = k
BY DEF LobBuffers, Text

LEMMA ReadPiecesIs ==
  ASSUME NEW b \in LobBuffers, NEW k \in Nat
  PROVE  /\ ReadPieces(b, k) \in LobBuffers /\ ReadPieces(b, k).data = b.data /\ ReadPieces(b, k).row = b.row
<1>1. k * Segment \in Nat
  BY SegmentPositive
<1>2. Len(b.data) \in Nat /\ b.at \in 0..Len(b.data)
  BY DEF LobBuffers, Text
<1> DEFINE m == k * Segment
           e == Smaller(Len(b.data), b.at + m)
<1>3. e \in 0..Len(b.data)
  <2> HIDE DEF m
  <2> QED BY <1>1, <1>2 DEF Smaller, m
<1>4. ReadPieces(b, k) = IF lobType = "BLOB" THEN [b EXCEPT !.at = e] ELSE Drained(b)
  BY DEF ReadPieces
<1> HIDE DEF e
<1> QED BY <1>3, <1>4, ReadOn, BufferFacts

\* However a copy is sent, the copy stays what it was, and what is stored is all that is left of it.
LEMMA SendingsKeep ==
  ASSUME NEW b \in LobBuffers, NEW o \in Sendings(b)
  PROVE  /\ o.buffer \in LobBuffers /\ o.buffer.data = b.data /\ o.buffer.row = b.row
         /\ o.told = "stored" /\ b.at = 0 => o.object = b.data
         /\ o.handle # "open"
<1>1. /\ Drained(b) \in LobBuffers /\ Drained(b).data = b.data /\ Drained(b).row = b.row
      /\ b.at = 0 => Rest(b) = b.data
      /\ Rest(b) \in Text
  BY BufferFacts
<1>2. CASE o = BindBlob(b)
  <2>1. CASE lobType = "BLOB"
    BY <1>1, <1>2, <2>1 DEF BindBlob, Sending
  <2>2. CASE lobType # "BLOB"
    <3>1. /\ TextOf(b) \in LobBuffers /\ TextOf(b).data = b.data /\ TextOf(b).row = b.row
      <4> DEFINE k == IF lobType = "BLOB" THEN Len(b.data) ELSE 0
      <4>1. TextOf(b) = [b EXCEPT !.at = k]
        BY DEF TextOf
      <4>2. k \in 0..Len(b.data)
        BY DEF LobBuffers, Text
      <4> HIDE DEF k
      <4> QED BY <4>1, <4>2, ReadOn
    <3> QED BY <1>2, <2>2, <3>1 DEF BindBlob, Sending
  <2> QED BY <2>1, <2>2
<1>3. CASE \E memoParam \in BOOLEAN : o \in FillBlob(b, memoParam)
  <2>1. PICK memoParam \in BOOLEAN : o \in FillBlob(b, memoParam)
    BY <1>3
  <2> DEFINE pieces == (Len(Rest(b)) + Segment - 1) \div Segment
  <2>2. pieces \in Nat
    <3>1. Len(Rest(b)) \in Nat
      BY <1>1 DEF Text
    <3> QED BY <3>1, SegmentPositive
  <2> DEFINE Failed(k) == {Sending(ReadPieces(b, k), "threw", <<>>, h) : h \in {"closed", "close failed"}}
  <2>3. \/ o = Sending(b, "threw", <<>>, "none")
        \/ \E k \in Nat : o \in Failed(k)
        \/ o = Sending(ReadPieces(b, pieces), "threw", <<>>, "close failed")
        \/ o = Sending(ReadPieces(b, pieces), "stored", Rest(b), "closed")
    <3> HIDE DEF pieces
    <3>1. \/ o = Sending(b, "threw", <<>>, "none") \/ o \in Failed(0)
          \/ \E k \in 1..pieces : o \in Failed(k)
          \/ o = Sending(ReadPieces(b, pieces), "threw", <<>>, "close failed")
          \/ o = Sending(ReadPieces(b, pieces), "stored", Rest(b), "closed")
      <4> DEFINE F0 == Failed(0)
                 X  == UNION {Failed(k) : k \in 1 .. pieces}
                 s1 == Sending(b, "threw", <<>>, "none")
                 s2 == Sending(ReadPieces(b, pieces), "threw", <<>>, "close failed")
                 s3 == Sending(ReadPieces(b, pieces), "stored", Rest(b), "closed")
      <4>1. o \in {s1} \union (IF memoParam # (lobType # "BLOB") THEN F0 ELSE X \union {s2, s3})
        BY <2>1 DEF FillBlob, pieces
      <4> HIDE DEF Failed
      <4>2. o \in X => \E k \in 1 .. pieces : o \in Failed(k)
        BY Zenon
      <4> HIDE DEF F0, X, s1, s2, s3
      <4>3. o = s1 \/ o \in F0 \/ o \in X \/ o = s2 \/ o = s3
        <5>1. CASE memoParam # (lobType # "BLOB")
          BY <4>1, <5>1, Zenon
        <5>2. CASE ~(memoParam # (lobType # "BLOB"))
          BY <4>1, <5>2, Zenon
        <5> QED BY <5>1, <5>2
      <4> QED BY <4>2, <4>3 DEF F0, s1, s2, s3
    <3> HIDE DEF Failed
    <3>2. 0 \in Nat /\ \A k \in 1..pieces : k \in Nat
      BY <2>2
    <3> QED BY <3>1, <3>2
  <2> HIDE DEF pieces
  <2>4. \A k \in Nat : /\ ReadPieces(b, k) \in LobBuffers /\ ReadPieces(b, k).data = b.data
                       /\ ReadPieces(b, k).row = b.row
    BY ReadPiecesIs
  <2>5. CASE \E k \in Nat : o \in Failed(k)
    <3>1. PICK k \in Nat : o \in Failed(k)
      BY <2>5
    <3>2. PICK h \in {"closed", "close failed"} : o = Sending(ReadPieces(b, k), "threw", <<>>, h)
      BY <3>1
    <3>3. o.buffer = ReadPieces(b, k) /\ o.told = "threw" /\ o.handle = h
      BY <3>2 DEF Sending
    <3> QED BY <2>4, <3>2, <3>3
  <2> HIDE DEF Failed
  <2>6. CASE o = Sending(b, "threw", <<>>, "none")
    BY <2>6 DEF Sending
  <2>7. CASE o = Sending(ReadPieces(b, pieces), "threw", <<>>, "close failed")
    BY <2>2, <2>4, <2>7 DEF Sending
  <2>8. CASE o = Sending(ReadPieces(b, pieces), "stored", Rest(b), "closed")
    BY <1>1, <2>2, <2>4, <2>8 DEF Sending
  <2> QED BY <2>3, <2>5, <2>6, <2>7, <2>8
<1> QED BY <1>2, <1>3 DEF Sendings

LEMMA TakeStep == ASSUME LobInv, NEW buffer, take(buffer) PROVE LobInv'
<1>1. /\ buffer \in {"stream", "text", "cache"} /\ reader # "sdi"
      /\ accessor' = [accessor EXCEPT ![buffer].at = @ + 1]
      /\ spent' = (spent \/ buffer # "cache")
      /\ UNCHANGED <<reader, lobType, handed, copied, received>>
  BY DEF take, LobInv
<1>2. /\ accessor \in Accessors /\ Tidy(reader, lobType, accessor)
      /\ accessor.row <= Len(Lobs)
      /\ accessor.stream.row <= accessor.row /\ accessor.text.row <= accessor.row
      /\ accessor.cache.row <= accessor.row
      /\ (reader \in Embedded \/ lobType # "MEMO" => Rest(accessor.text) = <<>>)
      /\ accessor.stream \in LobBuffers /\ accessor.text \in LobBuffers /\ accessor.cache \in LobBuffers
  BY DEF LobInv, Tidy, Accessors
<1>3. accessor[buffer] \in LobBuffers
  BY <1>1, <1>2
<1> DEFINE y == [accessor[buffer] EXCEPT !.at = accessor[buffer].at + 1]
<1>4. y \in LobBuffers /\ y.row = accessor[buffer].row /\ y.data = accessor[buffer].data
  <2>1. accessor[buffer].at < Len(accessor[buffer].data)
    <3> DEFINE b == accessor[buffer]
    <3>1. b.at \in Nat /\ b.data \in Text /\ b.at <= Len(b.data)
      BY <1>3 DEF LobBuffers
    <3>2. Rest(b) # <<>>
      BY DEF take
    <3>3. b.at = Len(b.data) => Rest(b) = <<>>
      BY <3>1 DEF Rest, Text
    <3>4. Len(b.data) \in Nat
      BY <3>1 DEF Text
    <3> HIDE DEF b
    <3>5. b.at < Len(b.data)
      BY <3>1, <3>2, <3>3, <3>4
    <3> QED BY <3>5 DEF b
  <2>2. accessor[buffer].at + 1 \in 0..Len(accessor[buffer].data)
    BY <1>3, <2>1 DEF LobBuffers, Text
  <2> QED BY <1>3, <2>2, ReadOn
<1>5. accessor' = [accessor EXCEPT ![buffer] = y]
  BY <1>1
<1>6. ~OnLob => accessor[buffer] = Unset
  BY <1>1 DEF LobInv
<1>7. OnLob
  <2>1. Rest(Unset) = <<>> /\ Rest(accessor[buffer]) # <<>>
    BY UnsetIsBuffer DEF take
  <2> QED BY <1>6, <2>1
<1> HIDE DEF y
<1>8. CASE buffer = "cache"
  <2>1. /\ accessor' \in Accessors /\ accessor'.row = accessor.row /\ accessor'.cache = y
        /\ accessor'.stream = accessor.stream /\ accessor'.text = accessor.text
    BY <1>2, <1>4, <1>5, <1>8 DEF Accessors
  <2>2. Tidy(reader, lobType, accessor')
    BY <1>1, <1>2, <1>4, <1>8, <2>1 DEF Tidy
  <2>3. WholeKept(reader, accessor) => WholeKept(reader, accessor')
    BY <1>4, <1>8, <2>1 DEF WholeKept, Hidden, IsSet, Left, Contents, Value
  <2>4. spent' = spent
    BY <1>1, <1>8 DEF LobInv
  <2>5. Follows(reader, lobType, accessor, accessor')
    BY <2>1, <2>2, <2>3 DEF Follows
  <2> QED BY <1>1, <1>7, <2>4, <2>5, AccessorStep DEF LobInv
<1>9. CASE buffer # "cache"
  <2>1. /\ accessor' \in Accessors /\ accessor'.row = accessor.row /\ accessor'.cache = accessor.cache
        /\ accessor'.stream.row = accessor.stream.row /\ accessor'.text.row = accessor.text.row
        /\ (buffer = "stream" => accessor'.text = accessor.text)
    <3>1. CASE buffer = "stream"
      BY <1>2, <1>4, <1>5, <3>1 DEF Accessors
    <3>2. CASE buffer = "text"
      BY <1>2, <1>4, <1>5, <3>2 DEF Accessors
    <3> QED BY <1>1, <1>9, <3>1, <3>2
  <2>2. buffer = "text" => ~(reader \in Embedded \/ lobType # "MEMO")
    BY <1>2 DEF take
  <2>3. Tidy(reader, lobType, accessor')
    BY <1>1, <1>2, <1>9, <2>1, <2>2 DEF Tidy
  <2>4. spent'
    BY <1>1, <1>9
  <2>5. OnLob'
    BY <1>7, <2>1 DEF OnLob
  <2>6. Tidy(reader', lobType', accessor')
    BY <1>1, <2>3
  <2> QED BY <1>1, <2>4, <2>5, <2>6 DEF LobInv
<1> QED BY <1>8, <1>9

\* LobInv is inductive.
LEMMA LobStep == LobInv /\ [LobNext]_lobVars => LobInv'
<1> SUFFICES ASSUME LobInv, [LobNext]_lobVars PROVE LobInv'
  OBVIOUS
<1>t. LobTypes /\ Tidy(reader, lobType, accessor) /\ copied \in LobBuffers /\ received \in Text
      /\ handed \subseteq {"stream", "text", "cache"} /\ (reader = "sdi" => handed = {})
      /\ (IsSet(copied) => copied.data = received)
  BY DEF LobInv, LobTypes
<1>1. CASE nextLob
  <2>1. /\ Tidy(reader, lobType, Arrived(accessor)) /\ WholeKept(reader, Arrived(accessor))
        /\ Arrived(accessor).row = accessor.row + 1
    BY <1>1, <1>t, ArrivedIs DEF nextLob
  <2>2. UNCHANGED <<reader, lobType, copied, received>> /\ accessor' = Arrived(accessor) /\ handed' = {}
        /\ spent' = FALSE
    BY <1>1 DEF nextLob
  <2>3. Tidy(reader', lobType', accessor') /\ WholeKept(reader', accessor')
    BY <2>1, <2>2
  <2>4. accessor'.row # 0
    <3>1. accessor.row \in Nat
      BY <1>t DEF Tidy, Accessors
    <3> QED BY <2>1, <2>2, <3>1
  <2> QED BY <2>2, <2>3, <2>4 DEF LobInv, OnLob
<1>2. ASSUME NEW what \in {"Blob", "Memo", "String"}, getLob(what) PROVE LobInv'
  <2>1. OnLob /\ accessor' = GetAs(what, accessor).accessor
        /\ UNCHANGED <<reader, lobType, handed, copied, spent, received>>
    BY <1>2 DEF getLob
  <2>2. Serves(accessor, GetAs(what, accessor))
    BY <1>t, <2>1, GetServes DEF OnLob
  <2>3. Follows(reader, lobType, accessor, accessor')
    BY <2>1, <2>2 DEF Serves
  <2> QED BY <1>t, <2>1, <2>3, AccessorStep
<1>3. ASSUME NEW type \in {"BLOB", "MEMO"}, getStream(type) PROVE LobInv'
  <2> DEFINE o == GetStream(type, accessor)
  <2>1. OnLob /\ accessor' = o.accessor /\ handed' = handed \union (IF Passed(o) THEN {o.ret[1]} ELSE {})
        /\ UNCHANGED <<reader, lobType, copied, spent, received>>
    BY <1>3 DEF getStream
  <2>2. /\ Follows(reader, lobType, accessor, o.accessor)
        /\ Passed(o) => reader # "sdi" /\ o.ret[1] \in {"stream", "text", "cache"}
    BY <1>t, <2>1, StreamFollows DEF OnLob
  <2> HIDE DEF o
  <2>3. handed' \subseteq {"stream", "text", "cache"} /\ (reader = "sdi" => handed' = {})
    BY <1>t, <2>1, <2>2
  <2> QED BY <1>t, <2>1, <2>2, <2>3, AccessorStep
<1>4. ASSUME NEW buffer, take(buffer) PROVE LobInv'
  BY <1>4, TakeStep
<1>5. CASE copyLob
  <2> DEFINE o == DeepCopy(accessor)
  <2>1. /\ OnLob /\ accessor' = o.accessor
        /\ copied' = IF Passed(o) THEN Buffered(accessor, o.ret) ELSE Unset
        /\ received' = IF Passed(o) THEN o.ret ELSE <<>>
        /\ UNCHANGED <<reader, lobType, handed, spent>>
    BY <1>5 DEF copyLob
  <2>2. Serves(accessor, o)
    <3>1. o = GetAs("copy", accessor)
      BY DEF GetAs
    <3> QED BY <1>t, <2>1, <3>1, GetServes DEF OnLob
  <2> HIDE DEF o
  <2>3. Follows(reader, lobType, accessor, accessor') /\ (Passed(o) => o.ret \in Text)
    BY <2>1, <2>2 DEF Serves
  <2>4. accessor \in Accessors /\ accessor.row # 0
    BY <1>t, <2>1 DEF Tidy, OnLob
  <2>5. copied' \in LobBuffers /\ received' \in Text /\ (IsSet(copied') => copied'.data = received')
    <3>1. CASE Passed(o)
      BY <2>1, <2>3, <2>4, <3>1, BufferedIs
    <3>2. CASE ~Passed(o)
      <4>1. <<>> \in Text
        BY DEF Text
      <4> QED BY <2>1, <3>2, <4>1, UnsetIsBuffer
    <3> QED BY <3>1, <3>2
  <2> QED BY <1>t, <2>1, <2>3, <2>5, AccessorStep
<1>6. CASE Whole /\ copyAgain
  <2>1. IsSet(copied) /\ copied.data = received /\ UNCHANGED <<reader, lobType, accessor, handed, spent, received>>
    BY <1>6, <1>t DEF copyAgain
  <2>2. CASE copied' = Drained(copied)
    <3>1. copied' \in LobBuffers /\ copied'.data = received
      BY <1>t, <2>1, <2>2, BufferFacts
    <3> QED BY <2>1, <3>1, CopyStep
  <2>3. CASE copied' = [copied EXCEPT !.data = CopyOf(copied), !.at = 0]
    <3>1. CopyOf(copied) = received
      BY <1>6, <1>t, <2>1, BufferFacts DEF Whole, CopyOf
    <3>2. copied \in [data : Text, at : Nat, row : Nat] /\ (copied.row = 0 => copied.data = <<>>)
      BY <1>t DEF LobBuffers
    <3>3. copied' = [copied EXCEPT !.data = received, !.at = 0]
      BY <2>3, <3>1
    <3>4. copied' \in [data : Text, at : Nat, row : Nat]
      BY <1>t, <3>2, <3>3
    <3>5. copied'.data = received /\ copied'.at = 0 /\ copied'.row = copied.row
      BY <3>2, <3>3
    <3>6. Len(received) \in Nat
      BY <1>t DEF Text
    <3>7. copied' \in LobBuffers
      BY <2>1, <3>2, <3>4, <3>5, <3>6 DEF LobBuffers
    <3> QED BY <2>1, <3>5, <3>7, CopyStep
  <2> QED BY <1>6, <2>2, <2>3 DEF copyAgain
<1>7. CASE getTextOfCopy
  <2>1. IsSet(copied) /\ copied' = TextOf(copied) /\ UNCHANGED <<reader, lobType, accessor, handed, spent, received>>
    BY <1>7 DEF getTextOfCopy
  <2> DEFINE k == IF lobType = "BLOB" THEN Len(copied.data) ELSE 0
  <2>2. k \in 0..Len(copied.data) /\ copied' = [copied EXCEPT !.at = k]
    BY <1>t, <2>1 DEF TextOf, LobBuffers, Text
  <2> HIDE DEF k
  <2>3. copied' \in LobBuffers /\ copied'.data = received
    BY <1>t, <2>1, <2>2, ReadOn
  <2> QED BY <2>1, <2>3, CopyStep
<1>8. CASE sendCopy
  <2>1. IsSet(copied) /\ UNCHANGED <<reader, lobType, accessor, handed, spent, received>>
    BY <1>8 DEF sendCopy
  <2>2. PICK o \in Sendings(copied) : copied' = o.buffer
    BY <1>8 DEF sendCopy
  <2>3. copied' \in LobBuffers /\ copied'.data = received
    BY <1>t, <2>1, <2>2, SendingsKeep
  <2> QED BY <2>1, <2>3, CopyStep
<1>9. CASE UNCHANGED lobVars
  <2>1. /\ reader' = reader /\ lobType' = lobType /\ accessor' = accessor /\ handed' = handed
        /\ copied' = copied /\ spent' = spent /\ received' = received
    BY <1>9 DEF lobVars
  <2> QED BY <2>1 DEF LobInv, OnLob
<1> QED BY <1>1, <1>2, <1>3, <1>4, <1>5, <1>6, <1>7, <1>8, <1>9 DEF LobNext

\* For all objects, in every engine and of every type: whatever a column was asked for before
\* and whatever streams the client opened over it, what it gives is all of the object of its row;
\* what was copied into a Variant stays whole, whatever becomes of the rows, and goes into a
\* parameter whole, in pieces of any size and wherever the sending fails.
THEOREM ObjectsArriveWhole == LobSpec => []LobWhole
<1>1. LobInv => LobWhole
  <2> SUFFICES ASSUME LobInv PROVE LobWhole
    OBVIOUS
  <2>t. LobTypes /\ Tidy(reader, lobType, accessor) /\ copied \in LobBuffers
        /\ (IsSet(copied) => copied.data = received)
    BY DEF LobInv, LobTypes
  <2>1. ColumnWhole
    <3> SUFFICES ASSUME OnLob, ~spent, ~Untold, NEW what \in {"Blob", "Memo", "String", "copy"}
                 PROVE  GetAs(what, accessor).ret \in MayGive(accessor)
      BY DEF ColumnWhole, MayGive
    <3>1. Serves(accessor, GetAs(what, accessor))
      BY <2>t, GetServes DEF OnLob
    <3>2. WholeKept(reader, accessor)
      BY DEF LobInv
    <3>3. ~Hidden(reader, accessor)
      BY DEF Untold, Hidden
    <3> QED BY <3>1, <3>2, <3>3 DEF Serves
  <2>2. CopyWhole
    <3> SUFFICES ASSUME IsSet(copied), Whole PROVE CopyOf(copied) = received
      BY <2>t DEF CopyWhole
    <3> QED BY <2>t, BufferFacts DEF Whole, CopyOf
  <2>3. SentWhole
    BY <2>t, SendingsKeep DEF SentWhole
  <2> QED BY <2>1, <2>2, <2>3 DEF LobWhole
<1> QED BY <1>1, LobInitInvariant, LobStep, PTL DEF LobSpec

-----------------------------------------------------------------------------
(* Variant *)

\* A value of its own type.
LEMMA TypedIs ==
  /\ \A x \in TypedValues : x.type \in Types /\ x.value \in Limits(x.type) /\ x.value \in Int
  /\ \A t \in Types : \A v \in Limits(t) : [type |-> t, value |-> v] \in TypedValues
  /\ \A x \in TypedValues : \A v \in Limits(x.type) : [x EXCEPT !.value = v] \in TypedValues
                                /\ [x EXCEPT !.value = v].value = v /\ [x EXCEPT !.value = v].type = x.type
<1>1. \A t \in Types : Span[t] \in Nat
  BY SpanAssumption
<1>2. \A t \in Types : Limits(t) \subseteq Int
  BY <1>1 DEF Limits, Lowest, Highest
<1> QED BY <1>2 DEF TypedValues

\* The numbers of values of the types, as numbers.
LEMMA SpansAre ==
  /\ \A t \in Types : Span[t] \in Nat /\ Span[t] > 1 /\ Span[t] = 2 * (Span[t] \div 2) /\ Span[t] \div 2 \in Nat
  /\ Span["CHAR"] = Span["UCHAR"] /\ Span["SMALLINT"] = Span["USMALLINT"]
  /\ Span["INT"] = Span["UINT"] /\ Span["BIGINT"] = Span["UBIGINT"]
  /\ Span["BOOL"] = 2 /\ Span["CHAR"] >= 4
  /\ 2 * Span["CHAR"] <= Span["SMALLINT"] /\ 2 * Span["SMALLINT"] <= Span["INT"]
  /\ 2 * Span["INT"] <= Span["BIGINT"]
<1>1. \A t \in Types : Span[t] \in Nat /\ Span[t] % 2 = 0
  BY SpanAssumption
<1>2. \A n \in Nat : n % 2 = 0 => n = 2 * (n \div 2) /\ n \div 2 \in Nat
  OBVIOUS
<1>3. /\ Span["CHAR"] = Span["UCHAR"] /\ Span["SMALLINT"] = Span["USMALLINT"]
      /\ Span["INT"] = Span["UINT"] /\ Span["BIGINT"] = Span["UBIGINT"]
      /\ Span["BOOL"] = 2 /\ Span["CHAR"] > 2
      /\ 2 * Span["CHAR"] <= Span["SMALLINT"] /\ 2 * Span["SMALLINT"] <= Span["INT"]
      /\ 2 * Span["INT"] <= Span["BIGINT"]
  BY SpanAssumption
<1>4. Span["CHAR"] >= 4
  BY <1>1, <1>2, <1>3 DEF Types, SignedTypes, UnsignedTypes
<1>5. \A t \in Types : Span[t] > 1
  BY <1>1, <1>3, <1>4 DEF Types, SignedTypes, UnsignedTypes
<1> QED BY <1>1, <1>2, <1>3, <1>4, <1>5

\* The remainder of a number that is at most one modulus away.
LEMMA NearRemainder ==
  ASSUME NEW n \in Nat \ {0}, NEW k \in Int
  PROVE  /\ 0 <= k /\ k < n => k % n = k
         /\ n <= k /\ k < 2 * n => k % n = k - n
         /\ -n <= k /\ k < 0 => k % n = k + n
  OBVIOUS

\* A variant and a variable, whose values are of their types.
VariantInv ==
  /\ storage \in [kind : {"null", "value", "ptr", "const_ptr"}, own : TypedValues]
  /\ cell \in TypedValues
  /\ NumbersKept

\* What a type can hold: as many numbers as it has values, from the lowest on.
Half(t) == Span[t] \div 2

LEMMA LimitsAre ==
  ASSUME NEW t \in Types
  PROVE  /\ Span[t] \in Nat /\ Half(t) \in Nat /\ Half(t) > 0 /\ Span[t] = 2 * Half(t)
         /\ Lowest(t) \in Int
         /\ t \in SignedTypes => Lowest(t) = -Half(t)
         /\ t \notin SignedTypes => Lowest(t) = 0
         /\ \A v : v \in Limits(t) <=> v \in Int /\ Lowest(t) <= v /\ v < Lowest(t) + Span[t]
<1> DEFINE n == Span[t]
           h == Half(t)
<1>1. n \in Nat /\ h \in Nat /\ n > 1 /\ n = 2 * h
  BY SpansAre DEF Half
<1>2. h > 0
  BY <1>1
<1>3. t \in SignedTypes => Lowest(t) = -h /\ Limits(t) = (-h) .. (h - 1)
  BY DEF Half, Limits, Lowest, Highest
<1>4. t \notin SignedTypes => Lowest(t) = 0 /\ Limits(t) = 0 .. (n - 1)
  BY DEF Limits, Lowest, Highest
<1> HIDE DEF n, h
<1>5. Lowest(t) \in Int
  BY <1>1, <1>3, <1>4
<1>6. \A v : v \in Limits(t) <=> v \in Int /\ Lowest(t) <= v /\ v < Lowest(t) + n
  BY <1>1, <1>3, <1>4
<1> QED BY <1>1, <1>2, <1>3, <1>4, <1>5, <1>6 DEF n, h

\* A conversion of the language leaves what the type can hold.
LEMMA StaticKeeps ==
  ASSUME NEW t \in Types, t # "BOOL", NEW v \in Limits(t)
  PROVE  Static(t, v) = v
<1> DEFINE n == Span[t]
           low == Lowest(t)
           k == v - low
<1>1. n \in Nat /\ low \in Int /\ v \in Int /\ low <= v /\ v < low + n
  BY LimitsAre
<1>2. Static(t, v) = (k % n) + low
  BY DEF Static
<1> HIDE DEF n, low
<1>3. n \in Nat \ {0} /\ k \in Int /\ 0 <= k /\ k < n
  BY <1>1
<1> HIDE DEF k
<1>4. k % n = k
  BY <1>3, NearRemainder
<1>5. Static(t, v) = k + low
  BY <1>2, <1>4
<1> QED BY <1>1, <1>5 DEF k

\* A number that does not survive the conversion to a type with as many values is none of
\* its own type then.
LEMMA WiderKeeps ==
  ASSUME NEW u \in Types, NEW t \in Types, t # "BOOL", Span[u] <= Span[t], NEW v \in Limits(u)
  PROVE  /\ IntegralCast(u, Static(t, v)) \in {v, ConvertException}
         /\ IntegralCast(u, Static(t, v)) # ConvertException => v \in Limits(t)
<1> DEFINE n == Span[t]
           m == Span[u]
           h == Half(t)
           g == Half(u)
           low == Lowest(t)
           r == Static(t, v)
           k == v - low
<1>1. CASE v \in Limits(t)
  BY <1>1, StaticKeeps DEF IntegralCast
<1>2. CASE v \notin Limits(t)
  <2>1. /\ n \in Nat /\ h \in Nat /\ h > 0 /\ n = 2 * h /\ low \in Int
        /\ m \in Nat /\ g \in Nat /\ g > 0 /\ m = 2 * g
    BY LimitsAre
  <2>2. m <= n
    OBVIOUS
  <2>3. r = (k % n) + low
    BY DEF Static
  <2>4. v \in Int /\ ~(low <= v /\ v < low + n)
    BY <1>2, LimitsAre
  <2>5. t \in SignedTypes => low = -h
    BY LimitsAre
  <2>6. t \notin SignedTypes => low = 0
    BY LimitsAre
  <2>7. u \in SignedTypes => -g <= v /\ v < g /\ (r \in Limits(u) => r < g)
    <3>1. u \in SignedTypes => Lowest(u) = -g
      BY LimitsAre
    <3>2. \A w : w \in Limits(u) <=> w \in Int /\ Lowest(u) <= w /\ w < Lowest(u) + m
      BY LimitsAre
    <3> HIDE DEF g, m, r
    <3> QED BY <2>1, <3>1, <3>2
  <2>8. u \notin SignedTypes => 0 <= v /\ v < m /\ (r \in Limits(u) => 0 <= r)
    <3>1. u \notin SignedTypes => Lowest(u) = 0
      BY LimitsAre
    <3>2. \A w : w \in Limits(u) <=> w \in Int /\ Lowest(u) <= w /\ w < Lowest(u) + m
      BY LimitsAre
    <3> HIDE DEF m, r
    <3> QED BY <2>1, <3>1, <3>2
  <2> HIDE DEF n, m, h, g, low, r
  <2>9. n \in Nat \ {0} /\ k \in Int
    BY <2>1, <2>4
  <2>10. CASE u \in SignedTypes
    <3>1. t \notin SignedTypes /\ v < 0 /\ low = 0
      BY <2>1, <2>2, <2>4, <2>5, <2>6, <2>7, <2>10
    <3>2. k = v /\ -n <= k /\ k < 0
      BY <2>1, <2>2, <2>4, <2>7, <2>10, <3>1
    <3>3. k % n = k + n
      <4> HIDE DEF k
      <4> QED BY <2>9, <3>2, NearRemainder
    <3>4. r = v + n
      BY <2>1, <2>3, <2>4, <3>1, <3>2, <3>3
    <3>5. r \notin Limits(u)
      BY <2>1, <2>2, <2>4, <2>7, <2>10, <3>4
    <3> QED BY <3>5 DEF IntegralCast, r
  <2>11. CASE u \notin SignedTypes
    <3>1. t \in SignedTypes /\ low = -h /\ v < n /\ h <= v
      BY <2>1, <2>2, <2>4, <2>5, <2>6, <2>8, <2>11
    <3>2. k = v + h /\ n <= k /\ k < 2 * n
      BY <2>1, <2>4, <3>1
    <3>3. k % n = k - n
      <4> HIDE DEF k
      <4> QED BY <2>9, <3>2, NearRemainder
    <3>4. r = v - n
      BY <2>1, <2>3, <2>4, <3>1, <3>2, <3>3
    <3>5. r \notin Limits(u)
      BY <2>1, <2>4, <2>8, <2>11, <3>1, <3>4
    <3> QED BY <3>5 DEF IntegralCast, r
  <2> QED BY <2>10, <2>11
<1> QED BY <1>1, <1>2

\* Every type but BOOL has at least four values.
LEMMA SmallSpans ==
  ASSUME NEW t \in Types, t # "BOOL"
  PROVE  Span[t] >= 4
<1>1. \A u \in Types : Span[u] \in Nat
  BY SpansAre
<1>2. /\ Span["CHAR"] \in Nat /\ Span["SMALLINT"] \in Nat /\ Span["INT"] \in Nat /\ Span["BIGINT"] \in Nat
  BY <1>1 DEF Types, SignedTypes
<1>3. /\ Span["CHAR"] >= 4 /\ Span["SMALLINT"] >= 4 /\ Span["INT"] >= 4 /\ Span["BIGINT"] >= 4
  BY <1>2, SpansAre
<1>4. /\ Span["UCHAR"] >= 4 /\ Span["USMALLINT"] >= 4 /\ Span["UINT"] >= 4 /\ Span["UBIGINT"] >= 4
  BY <1>3, SpansAre
<1>5. t \in {"CHAR", "SMALLINT", "INT", "BIGINT", "UCHAR", "USMALLINT", "UINT", "UBIGINT"}
  BY DEF Types, SignedTypes, UnsignedTypes
<1> QED BY <1>3, <1>4, <1>5

\* What an int can be is within long, and within the unsigned types as wide unless it is negative.
LEMMA IntLimits ==
  ASSUME NEW v \in Limits("INT")
  PROVE  /\ v \in Limits("BIGINT")
         /\ v >= 0 => v \in Limits("UINT") /\ v \in Limits("UBIGINT")
<1> DEFINE i == Half("INT")
           n == Span["INT"]
           b == Half("BIGINT")
           m == Span["BIGINT"]
<1>1. /\ {"INT", "UINT", "BIGINT", "UBIGINT"} \subseteq Types
      /\ "INT" \in SignedTypes /\ "BIGINT" \in SignedTypes /\ "UINT" \notin SignedTypes /\ "UBIGINT" \notin SignedTypes
  BY DEF Types, SignedTypes, UnsignedTypes
<1>2. /\ i \in Nat /\ n \in Nat /\ n = 2 * i /\ b \in Nat /\ m \in Nat /\ m = 2 * b
      /\ Lowest("INT") = -i /\ Lowest("BIGINT") = -b /\ Lowest("UINT") = 0 /\ Lowest("UBIGINT") = 0
  BY <1>1, LimitsAre
<1>3. Span["UINT"] = n /\ Span["UBIGINT"] = m /\ 2 * n <= m
  BY SpansAre
<1>4. v \in Limits("INT") => v \in Int /\ Lowest("INT") <= v /\ v < Lowest("INT") + n
  BY <1>1, LimitsAre
<1>5. v \in Limits("BIGINT") <=> v \in Int /\ Lowest("BIGINT") <= v /\ v < Lowest("BIGINT") + m
  BY <1>1, LimitsAre
<1>6. v \in Limits("UINT") <=> v \in Int /\ Lowest("UINT") <= v /\ v < Lowest("UINT") + n
  BY <1>1, <1>3, LimitsAre
<1>7. v \in Limits("UBIGINT") <=> v \in Int /\ Lowest("UBIGINT") <= v /\ v < Lowest("UBIGINT") + m
  BY <1>1, <1>3, LimitsAre
<1> HIDE DEF i, n, b, m
<1> QED BY <1>2, <1>3, <1>4, <1>5, <1>6, <1>7

\* The conversions that lose nothing unsaid.
Good(u, t) ==
  \/ u \in {t, "BOOL"}
  \/ t # "BOOL" /\ (u = "INT" \/ (Span[u] <= Span[t] /\ ~(u = "UINT" /\ t = "INT")))

\* Such a conversion gives the number, which the type can hold then, or throws.
LEMMA GoodIsExact ==
  ASSUME NEW x \in TypedValues, NEW t \in Types, Good(x.type, t)
  PROVE  /\ Get(x, t) \in {x.value, ConvertException}
         /\ Get(x, t) # ConvertException => x.value \in Limits(t)
<1>1. x.type \in Types /\ x.value \in Limits(x.type) /\ x.value \in Int
  BY TypedIs
<1>2. CASE x.type \in {t, "BOOL"}
  <2>1. Get(x, t) = x.value
    BY <1>2 DEF Get
  <2>2. x.type = "BOOL" => x.value \in Limits(t)
    <3> SUFFICES ASSUME x.type = "BOOL" PROVE x.value \in Limits(t)
      OBVIOUS
    <3>1. Span["BOOL"] = 2 /\ "BOOL" \in Types /\ "BOOL" \notin SignedTypes
      BY SpansAre DEF SignedTypes, Types
    <3>2. 0 <= x.value /\ x.value < 2
      <4>1. Lowest("BOOL") = 0
        BY <3>1, LimitsAre
      <4> QED BY <1>1, <3>1, <4>1, LimitsAre
    <3>3. t # "BOOL" => Span[t] >= 4
      BY SmallSpans
    <3>4. CASE t \in SignedTypes
      <4> DEFINE n == Span[t]
                 h == Half(t)
                 low == Lowest(t)
      <4>1. n \in Nat /\ h \in Nat /\ n = 2 * h /\ low = -h
        BY <3>4, LimitsAre
      <4>2. n >= 4
        BY <3>1, <3>3, <3>4
      <4>3. x.value \in Limits(t) <=> x.value \in Int /\ low <= x.value /\ x.value < low + n
        BY LimitsAre
      <4> HIDE DEF n, h, low
      <4> QED BY <1>1, <3>2, <4>1, <4>2, <4>3
    <3>5. CASE t \notin SignedTypes
      <4> DEFINE n == Span[t]
      <4>1. n \in Nat /\ Lowest(t) = 0
        BY <3>5, LimitsAre
      <4>2. n >= 2
        BY <3>1, <3>3, <4>1
      <4>3. x.value \in Limits(t) <=> x.value \in Int /\ Lowest(t) <= x.value /\ x.value < Lowest(t) + n
        BY LimitsAre
      <4> HIDE DEF n
      <4> QED BY <1>1, <3>2, <4>1, <4>2, <4>3
    <3> QED BY <3>4, <3>5
  <2> QED BY <1>1, <1>2, <2>1, <2>2
<1>3. CASE x.type \notin {t, "BOOL"} /\ x.type = "INT"
  <2>1. Get(x, t) = IntCast(t, x.value)
    BY <1>3 DEF Get
  <2>2. t # "BOOL"
    BY <1>3 DEF Good
  <2>3. CASE t = "BIGINT"
    <3>1. x.value \in Limits("BIGINT")
      BY <1>1, <1>3, <2>3, IntLimits
    <3>2. IntCast(t, x.value) = x.value
      BY <2>3, <3>1, StaticKeeps DEF IntCast
    <3> QED BY <2>1, <2>3, <3>1, <3>2
  <2>4. CASE t \in {"UINT", "UBIGINT"}
    <3>1. x.value >= 0 => x.value \in Limits(t)
      BY <1>1, <1>3, <2>4, IntLimits
    <3> QED BY <1>1, <2>1, <2>4, <3>1 DEF IntCast
  <2>5. CASE t \notin {"BIGINT", "BOOL", "UINT", "UBIGINT"}
    BY <2>1, <2>5 DEF IntCast
  <2> QED BY <2>2, <2>3, <2>4, <2>5
<1>4. CASE x.type \notin {t, "BOOL", "INT"}
  <2>1. t # "BOOL" /\ Span[x.type] <= Span[t] /\ ~(x.type = "UINT" /\ t = "INT")
    BY <1>4 DEF Good
  <2>2. Get(x, t) = IntegralCast(x.type, Static(t, x.value))
    BY <1>4, <2>1 DEF Get, SupportsIntegralTypeCast
  <2> QED BY <1>1, <1>4, <2>1, <2>2, WiderKeeps
<1> QED BY <1>2, <1>3, <1>4

\* The pairs of types that are compared as one that holds the values of both, or whose
\* conversions tell when it does not.
LEMMA ComparedSafely ==
  ASSUME NEW a \in Types, NEW b \in Types, <<a, b>> \notin Miscompared
  PROVE  /\ OperatorType(a, b) \in Types
         /\ Good(a, OperatorType(a, b)) /\ Good(b, OperatorType(a, b))
<1> DEFINE T == OperatorType(a, b)
<1>1. /\ a \in {"BOOL", "CHAR", "UCHAR", "SMALLINT", "USMALLINT", "INT", "UINT", "BIGINT", "UBIGINT"}
      /\ b \in {"BOOL", "CHAR", "UCHAR", "SMALLINT", "USMALLINT", "INT", "UINT", "BIGINT", "UBIGINT"}
  BY DEF Types, SignedTypes, UnsignedTypes
<1>2. /\ Types = {"BOOL", "CHAR", "UCHAR", "SMALLINT", "USMALLINT", "INT", "UINT", "BIGINT", "UBIGINT"}
      /\ Span["CHAR"] \in Nat /\ Span["SMALLINT"] \in Nat /\ Span["INT"] \in Nat /\ Span["BIGINT"] \in Nat
  BY SpansAre DEF Types, SignedTypes, UnsignedTypes
<1>21. /\ Span["BOOL"] = 2 /\ Span["CHAR"] >= 4 /\ 2 * Span["CHAR"] <= Span["SMALLINT"]
       /\ 2 * Span["SMALLINT"] <= Span["INT"] /\ 2 * Span["INT"] <= Span["BIGINT"]
       /\ Span["UCHAR"] = Span["CHAR"] /\ Span["USMALLINT"] = Span["SMALLINT"]
       /\ Span["UINT"] = Span["INT"] /\ Span["UBIGINT"] = Span["BIGINT"]
  BY SpansAre
<1>3. /\ Span["BOOL"] <= Span["CHAR"] /\ Span["CHAR"] <= Span["SMALLINT"] /\ Span["SMALLINT"] <= Span["INT"]
      /\ Span["INT"] <= Span["BIGINT"]
      /\ Span["UCHAR"] = Span["CHAR"] /\ Span["USMALLINT"] = Span["SMALLINT"]
      /\ Span["UINT"] = Span["INT"] /\ Span["UBIGINT"] = Span["BIGINT"] /\ Span["BOOL"] = 2
  BY <1>2, <1>21
<1>4. \A u, t \in Types : Good(u, t) <=> u \in {t, "BOOL"} \/ (t # "BOOL" /\ (u = "INT" \/ (Span[u] <= Span[t] /\ ~(u = "UINT" /\ t = "INT"))))
  BY DEF Good
<1>5. CASE a = "BOOL"
  <2>1. T = b
    BY <1>1, <1>5 DEF OperatorType, ResolveHigher, Higher, WithBool, Both, Row
  <2>2. T \in Types /\ <<a, b>> \notin Miscompared
    BY <1>1, <1>2, <2>1
  <2> HIDE DEF T
  <2>3. Good(a, T) /\ Good(b, T)
    BY <1>1, <1>2, <1>3, <1>4, <1>5, <2>1, <2>2 DEF Miscompared
  <2> QED BY <2>2, <2>3 DEF T
<1>6. CASE a = "CHAR"
  <2>1. (b \in {"BOOL", "CHAR"} /\ T = "CHAR") \/ (b \in {"UCHAR", "USMALLINT", "INT", "UINT"} /\ T = "INT") \/ (b = "SMALLINT" /\ T = "SMALLINT") \/ (b = "BIGINT" /\ T = "BIGINT") \/ (b = "UBIGINT" /\ T = "UBIGINT")
    BY <1>1, <1>6 DEF OperatorType, ResolveHigher, Higher, WithChar, Both, Row, Fractions
  <2>2. T \in Types /\ <<a, b>> \notin Miscompared
    BY <1>1, <1>2, <2>1
  <2> HIDE DEF T
  <2>3. Good(a, T) /\ Good(b, T)
    BY <1>1, <1>2, <1>3, <1>4, <1>6, <2>1, <2>2 DEF Miscompared
  <2> QED BY <2>2, <2>3 DEF T
<1>7. CASE a = "UCHAR"
  <2>1. (b = "BOOL" /\ T = "BOOL") \/ (b \in {"CHAR", "SMALLINT", "USMALLINT", "INT"} /\ T = "INT") \/ (b = "UCHAR" /\ T = "UCHAR") \/ (b = "UINT" /\ T = "UINT") \/ (b = "BIGINT" /\ T = "BIGINT") \/ (b = "UBIGINT" /\ T = "UBIGINT")
    BY <1>1, <1>7 DEF OperatorType, ResolveHigher, Higher, WithUchar, Both, Row, Fractions
  <2>2. T \in Types /\ <<a, b>> \notin Miscompared
    BY <1>1, <1>2, <2>1
  <2> HIDE DEF T
  <2>3. Good(a, T) /\ Good(b, T)
    BY <1>1, <1>2, <1>3, <1>4, <1>7, <2>1, <2>2 DEF Miscompared
  <2> QED BY <2>2, <2>3 DEF T
<1>8. CASE a = "SMALLINT"
  <2>1. (b \in {"BOOL", "UCHAR", "SMALLINT"} /\ T = "SMALLINT") \/ (b = "CHAR" /\ T = "CHAR") \/ (b \in {"USMALLINT", "INT", "UBIGINT"} /\ T = "INT") \/ (b \in {"UINT", "BIGINT"} /\ T = "BIGINT")
    BY <1>1, <1>8 DEF OperatorType, ResolveHigher, Higher, WithSmallint, Both, Row, Fractions
  <2>2. T \in Types /\ <<a, b>> \notin Miscompared
    BY <1>1, <1>2, <2>1
  <2> HIDE DEF T
  <2>3. Good(a, T) /\ Good(b, T)
    BY <1>1, <1>2, <1>3, <1>4, <1>8, <2>1, <2>2 DEF Miscompared
  <2> QED BY <2>2, <2>3 DEF T
<1>9. CASE a = "USMALLINT"
  <2>1. (b \in {"BOOL", "CHAR", "SMALLINT", "INT"} /\ T = "INT") \/ (b \in {"UCHAR", "USMALLINT"} /\ T = "USMALLINT") \/ (b = "UINT" /\ T = "UINT") \/ (b = "BIGINT" /\ T = "BIGINT") \/ (b = "UBIGINT" /\ T = "UBIGINT")
    BY <1>1, <1>9 DEF OperatorType, ResolveHigher, Higher, WithUsmallint, Both, Row, Fractions
  <2>2. T \in Types /\ <<a, b>> \notin Miscompared
    BY <1>1, <1>2, <2>1
  <2> HIDE DEF T
  <2>3. Good(a, T) /\ Good(b, T)
    BY <1>1, <1>2, <1>3, <1>4, <1>9, <2>1, <2>2 DEF Miscompared
  <2> QED BY <2>2, <2>3 DEF T
<1>10. CASE a = "INT"
  <2>1. (b \in {"BOOL", "CHAR", "UCHAR", "SMALLINT", "USMALLINT", "INT"} /\ T = "INT") \/ (b \in {"UINT", "BIGINT"} /\ T = "BIGINT") \/ (b = "UBIGINT" /\ T = "UBIGINT")
    BY <1>1, <1>10 DEF OperatorType, ResolveHigher, Higher, WithInt, Both, Row
  <2>2. T \in Types /\ <<a, b>> \notin Miscompared
    BY <1>1, <1>2, <2>1
  <2> HIDE DEF T
  <2>3. Good(a, T) /\ Good(b, T)
    BY <1>1, <1>2, <1>3, <1>4, <1>10, <2>1, <2>2 DEF Miscompared
  <2> QED BY <2>2, <2>3 DEF T
<1>11. CASE a = "UINT"
  <2>1. (b \in {"BOOL", "CHAR", "UCHAR", "USMALLINT", "UINT"} /\ T = "UINT") \/ (b \in {"SMALLINT", "INT"} /\ T = "BIGINT") \/ (b \in {"BIGINT", "UBIGINT"} /\ T = "UBIGINT")
    BY <1>1, <1>11 DEF OperatorType, ResolveHigher, Higher, WithUint, Both, Row, Fractions
  <2>2. T \in Types /\ <<a, b>> \notin Miscompared
    BY <1>1, <1>2, <2>1
  <2> HIDE DEF T
  <2>3. Good(a, T) /\ Good(b, T)
    BY <1>1, <1>2, <1>3, <1>4, <1>11, <2>1, <2>2 DEF Miscompared
  <2> QED BY <2>2, <2>3 DEF T
<1>12. CASE a = "BIGINT"
  <2>1. (b \in {"BOOL", "CHAR", "UCHAR", "SMALLINT", "USMALLINT", "INT", "BIGINT"} /\ T = "BIGINT") \/ (b = "UINT" /\ T = "UBIGINT") \/ (b = "UBIGINT" /\ T = "INT")
    BY <1>1, <1>12 DEF OperatorType, ResolveHigher, Higher, WithBigint, Both, Row, Fractions
  <2>2. T \in Types /\ <<a, b>> \notin Miscompared
    BY <1>1, <1>2, <2>1
  <2> HIDE DEF T
  <2>3. Good(a, T) /\ Good(b, T)
    BY <1>1, <1>2, <1>3, <1>4, <1>12, <2>1, <2>2 DEF Miscompared
  <2> QED BY <2>2, <2>3 DEF T
<1>13. CASE a = "UBIGINT"
  <2>1. T = "UBIGINT"
    BY <1>1, <1>13 DEF OperatorType, ResolveHigher, Higher, WithUbigint, Both, Row, All, Fractions
  <2>2. T \in Types /\ <<a, b>> \notin Miscompared
    BY <1>1, <1>2, <2>1
  <2> HIDE DEF T
  <2>3. Good(a, T) /\ Good(b, T)
    BY <1>1, <1>2, <1>3, <1>4, <1>13, <2>1, <2>2 DEF Miscompared
  <2> QED BY <2>2, <2>3 DEF T
<1> QED BY <1>1, <1>5, <1>6, <1>7, <1>8, <1>9, <1>10, <1>11, <1>12, <1>13

\* Two values whose types are not miscompared compare like their numbers, or throw.
LEMMA ComparesLikeNumbers ==
  ASSUME NEW x \in TypedValues, NEW y \in TypedValues, NEW op, <<x.type, y.type>> \notin Miscompared
  PROVE  Compare(op, x, y) \in {Holds(op, x.value, y.value), ConvertException}
<1> DEFINE t == OperatorType(x.type, y.type)
           v == Get(x, t)
           w == Get(y, t)
<1>1. t \in Types /\ Good(x.type, t) /\ Good(y.type, t)
  BY TypedIs, ComparedSafely
<1>2. v \in {x.value, ConvertException} /\ w \in {y.value, ConvertException}
  <2> HIDE DEF t
  <2> QED BY <1>1, GoodIsExact
<1>3. Compare(op, x, y) = IF ConvertException \in {v, w} THEN ConvertException ELSE Holds(op, v, w)
  BY DEF Compare
<1> HIDE DEF t, v, w
<1> QED BY <1>2, <1>3

\* A conversion that the client makes with care loses nothing unsaid.
LEMMA CarefulIsGood ==
  ASSUME NEW x \in TypedValues, cell \in TypedValues, Careful(x)
  PROVE  Good(x.type, cell.type)
<1>1. x.type \in Types /\ cell.type \in Types
  BY TypedIs
<1>2. Span[x.type] \in Nat /\ Span[cell.type] \in Nat
  BY <1>1, SpansAre
<1> QED BY <1>1, <1>2 DEF Careful, Truncates, Good

\* The variable is the number that a careful conversion stored in it, and of its type.
LEMMA StoredIsExact ==
  ASSUME NEW x \in TypedValues, cell \in TypedValues, Careful(x), Stored(x.value, Get(x, cell.type))
  PROVE  /\ cell' \in TypedValues /\ cell'.value = x.value /\ cell'.value \in Limits(cell'.type)
         /\ cellGiven' = x.value
<1> DEFINE v == Get(x, cell.type)
<1>1. v = x.value /\ v \in Limits(cell.type)
  <2>1. cell.type \in Types
    BY TypedIs
  <2>2. Good(x.type, cell.type)
    BY CarefulIsGood
  <2>3. v # ConvertException
    BY DEF Stored
  <2> QED BY <2>1, <2>2, <2>3, GoodIsExact
<1>2. cell' = [cell EXCEPT !.value = v] /\ cellGiven' = x.value
  BY DEF Stored
<1> HIDE DEF v
<1> QED BY <1>1, <1>2, TypedIs

\* Zero is within the limits of every type.
LEMMA ZeroFits ==
  ASSUME NEW t \in Types
  PROVE  0 \in Limits(t)
<1> DEFINE n == Span[t]
           h == Half(t)
           low == Lowest(t)
<1>1. /\ n \in Nat /\ h \in Nat /\ h > 0 /\ n = 2 * h /\ low \in Int
      /\ (t \in SignedTypes => low = -h) /\ (t \notin SignedTypes => low = 0)
  BY LimitsAre
<1>2. 0 \in Limits(t) <=> 0 \in Int /\ low <= 0 /\ 0 < low + n
  BY LimitsAre
<1> HIDE DEF n, h, low
<1> QED BY <1>1, <1>2

\* A null variant, and an int.
LEMMA VariantInitOk == VariantInit => VariantInv
<1> SUFFICES ASSUME VariantInit PROVE VariantInv
  OBVIOUS
<1>1. 0 \in Limits("INT") /\ "INT" \in Types
  BY ZeroFits DEF Types, SignedTypes
<1>2. Zero \in TypedValues /\ Zero.value = 0 /\ Zero.type = "INT"
  BY <1>1, TypedIs DEF Zero
<1> QED BY <1>1, <1>2 DEF VariantInit, VariantInv, NumbersKept, Storage, Points, Held, HeldGiven

\* A call stores what a conversion without loss gives, or what is there already.
LEMMA VariantNextOk == VariantInv /\ [VariantNext]_variantVars => VariantInv'
<1> SUFFICES ASSUME VariantInv, [VariantNext]_variantVars PROVE VariantInv'
  OBVIOUS
<1> DEFINE Kinds == {"null", "value", "ptr", "const_ptr"}
<1>1. /\ storage \in [kind : Kinds, own : TypedValues] /\ cell \in TypedValues
      /\ storage.kind # "null" => Held.value = HeldGiven
      /\ cell.value = cellGiven /\ cell.value \in Limits(cell.type)
  BY DEF VariantInv, NumbersKept
<1>2. Held \in TypedValues
  BY <1>1 DEF Held
<1>3. Zero \in TypedValues
  <2>1. 0 \in Limits("INT")
    BY ZeroFits DEF Types, SignedTypes
  <2> QED BY <2>1, TypedIs DEF Zero, Types, SignedTypes
<1>4. ASSUME NEW t \in Types, declare(t) PROVE VariantInv'
  <2>1. /\ cell' = [type |-> t, value |-> 0] /\ cellGiven' = 0 /\ ~Points
        /\ storage' = storage /\ given' = given
    BY <1>4 DEF declare
  <2>2. cell' \in TypedValues /\ cell'.value = 0 /\ cell'.value \in Limits(cell'.type)
    BY <2>1, ZeroFits, TypedIs
  <2>3. storage'.kind # "null" => Held'.value = HeldGiven'
    BY <1>1, <2>1 DEF Held, HeldGiven, Points
  <2> QED BY <1>1, <2>1, <2>2, <2>3 DEF VariantInv, NumbersKept
<1>5. ASSUME NEW kind \in {"ptr", "const_ptr"}, point(kind) PROVE VariantInv'
  <2>1. storage' = [kind |-> kind, own |-> Zero] /\ cell' = cell /\ cellGiven' = cellGiven
    BY <1>5 DEF point, Storage
  <2> QED BY <1>1, <1>3, <2>1 DEF VariantInv, NumbersKept, Held, HeldGiven, Points
<1>6. ASSUME NEW x \in Numbers, (storage.kind = "ptr" => Careful(x)), set(x) PROVE VariantInv'
  <2>1. x \in TypedValues
    BY NumbersAssumption
  <2>2. CASE storage.kind = "ptr" /\ Stored(x.value, Get(x, cell.type))
    <3>1. /\ cell' \in TypedValues /\ cell'.value = x.value /\ cell'.value \in Limits(cell'.type) /\ cellGiven' = x.value
      BY <1>1, <1>6, <2>1, <2>2, StoredIsExact
    <3>2. storage' = storage
      BY <2>2 DEF Stored
    <3> QED BY <1>1, <2>2, <3>1, <3>2 DEF VariantInv, NumbersKept, Held, HeldGiven, Points
  <2>3. CASE ~Points /\ storage' = Owns(x) /\ given' = x.value /\ UNCHANGED <<cell, cellGiven>>
    BY <1>1, <2>1, <2>3 DEF Owns, VariantInv, NumbersKept, Held, HeldGiven, Points
  <2> QED BY <1>6, <2>2, <2>3 DEF set
<1>7. CASE deepcopy
  <2>1. storage.kind # "null" /\ storage' = [kind |-> "value", own |-> Held] /\ given' = HeldGiven /\ cell' = cell /\ cellGiven' = cellGiven
    BY <1>7 DEF deepcopy, Owns
  <2>2. storage'.kind = "value" /\ storage'.own = Held
    BY <2>1
  <2>3. Held' = Held /\ HeldGiven' = HeldGiven
    BY <2>1, <2>2 DEF Held, HeldGiven, Points
  <2> QED BY <1>1, <1>2, <2>1, <2>3 DEF VariantInv, NumbersKept
<1>8. CASE setNull
  <2>1. storage' = [kind |-> "null", own |-> Zero] /\ cell' = cell /\ cellGiven' = cellGiven
    BY <1>8 DEF setNull, Storage
  <2> QED BY <1>1, <1>3, <2>1 DEF VariantInv, NumbersKept
<1>9. CASE Careful(Held) /\ get
  <2>1. storage.kind # "null" /\ Stored(Held.value, Get(Held, cell.type))
    BY <1>1, <1>9 DEF get
  <2>2. /\ cell' \in TypedValues /\ cell'.value = Held.value /\ cell'.value \in Limits(cell'.type) /\ cellGiven' = Held.value
    BY <1>1, <1>2, <1>9, <2>1, StoredIsExact
  <2>3. storage' = storage /\ given' = given
    BY <2>1 DEF Stored
  <2>4. storage'.kind # "null" => Held'.value = HeldGiven'
    BY <1>1, <2>2, <2>3 DEF Held, HeldGiven, Points
  <2> QED BY <1>1, <2>2, <2>3, <2>4 DEF VariantInv, NumbersKept
<1>10. CASE UNCHANGED variantVars
  BY <1>1, <1>10 DEF variantVars, VariantInv, NumbersKept, Held, HeldGiven, Points
<1> QED BY <1>4, <1>5, <1>6, <1>7, <1>8, <1>9, <1>10 DEF VariantNext

\* Held and the variable compare like their numbers.
LEMMA ValuesCompare == VariantInv => VariantExact
<1> SUFFICES ASSUME VariantInv PROVE VariantExact
  OBVIOUS
<1>1. Held \in TypedValues /\ cell \in TypedValues
  BY DEF VariantInv, Held
<1>2. ComparesNumbers
  BY <1>1, ComparesLikeNumbers DEF ComparesNumbers
<1> QED BY <1>2 DEF VariantExact, VariantInv

\* Whatever the widths of the types and the values, a variant and the variable of its client
\* are the numbers they were given, and compare like them or throw.
THEOREM VariantsAreExact == VariantSpec => []VariantExact
<1>1. VariantInit => VariantInv
  BY VariantInitOk
<1>2. VariantInv /\ [VariantNext]_variantVars => VariantInv'
  BY VariantNextOk
<1>3. VariantInv => VariantExact
  BY ValuesCompare
<1> QED BY <1>1, <1>2, <1>3, PTL DEF VariantSpec
=============================================================================
