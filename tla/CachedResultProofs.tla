------------------------- MODULE CachedResultProofs -------------------------
(***************************************************************************)
(* What a CachedResult keeps true, for every set of resultsets, whatever   *)
(* their rows, with or without asserts, for a client that keeps the        *)
(* protocol.  The cache is in one of three conditions: closed, open        *)
(* without columns (its open() has thrown), or loaded.  A loaded cache has *)
(* the columns of its source, its rows are the first of those the client   *)
(* can see, and its two positions agree.                                   *)
(***************************************************************************)
EXTENDS CachedRowLoop, SequenceTheorems, TLAPS

AllRows  == UNION {{SourceRows[s][i] : i \in DOMAIN SourceRows[s]} : s \in Sources}
AllNames == {SourceNames[s] : s \in Sources} \union {<<>>}

\* The RecordSets a cache can be made of.
Caches ==
  [m_records : Seq(AllRows), m_count : Nat, m_column_descriptors : AllNames,
   m_cursorstate : {CLOSED, Mask("OPEN"), Mask("POSITIONED")},
   m_cursor : Int \union {Dangling}]

SourceStates == [alive : BOOLEAN, pos : Nat, failed : BOOLEAN]

\* The rows a source still has to give, in any condition of the sources.
Left(sources, s) ==
  IF sources[s].pos = 0 \/ sources[s].failed THEN <<>>
  ELSE SubSeq(SourceRows[s], sources[s].pos, Len(SourceRows[s]))

Behind(source, sources) == IF source = NoSource THEN <<>> ELSE Left(sources, source)

-----------------------------------------------------------------------------
(* The invariant                                                           *)

SourcesFine(sources) ==
  /\ sources \in [Sources -> SourceStates]
  /\ \A s \in Sources : sources[s].pos \in 0 .. Len(SourceRows[s]) + 1

\* The cache is not attached, or to a resultset that exists and has columns.
Attached(source, sources) ==
  source = NoSource \/ (source \in Sources /\ sources[source].alive /\ Width(source) > 0)

Opening == SetState(RecordSetInit, "OPEN")

\* The columns of a loaded cache, and those of its rows.
Columnwise(rs, source, sources) ==
  /\ rs.m_count > 0
  /\ \A i \in 1 .. RowCount(rs) : Len(rs.m_records[i]) = rs.m_count
  /\ source # NoSource =>
       /\ rs.m_column_descriptors = SourceNames[source]
       /\ rs.m_count = Width(source)
       /\ sources[source].pos >= 1

\* The cursor and the row number of a positioned cache.
Placed(rs, row, set) ==
  /\ row \in 1 .. RowCount(rs)
  /\ rs.m_cursor \in {row - 1, Dangling}
  /\ set => rs.m_cursor = row - 1

Loaded(rs, row, set, source, sources) ==
  /\ rs \in Caches /\ IsOpen(rs)
  /\ Columnwise(rs, source, sources)
  /\ IsPositioned(rs) => Placed(rs, row, set)

Condition(rs, row, set, source, sources) ==
  \/ rs = RecordSetInit
  \/ rs = Opening
  \/ Loaded(rs, row, set, source, sources)

CacheInv ==
  /\ Running
  /\ SourcesFine(src)
  /\ Attached(m_source, src)
  /\ m_current_row \in Nat
  /\ settled \in BOOLEAN
  /\ Condition(m_rscache, m_current_row, settled, m_source, src)

-----------------------------------------------------------------------------
(* Sequences                                                               *)

\* Dropping the first rows of a sequence.
LEMMA Dropped ==
  ASSUME NEW S, NEW l \in Seq(S), NEW p \in 1 .. Len(l) + 1, NEW k \in 0 .. Len(l) + 1 - p
  PROVE  LET t == SubSeq(l, p, Len(l))
         IN  /\ t \in Seq(S) /\ Len(t) = Len(l) + 1 - p
             /\ \A i \in 1 .. Len(t) : t[i] = l[p + i - 1]
             /\ SubSeq(l, p + k, Len(l)) = SubSeq(t, k + 1, Len(t))
<1> DEFINE t == SubSeq(l, p, Len(l))
           a == SubSeq(l, p + k, Len(l))
           b == SubSeq(t, k + 1, Len(t))
<1>0. p \in Int /\ k \in Int /\ Len(l) \in Nat /\ \A i \in 1 .. Len(l) : l[i] \in S
  OBVIOUS
<1>1. /\ t \in Seq(S) /\ Len(t) = Len(l) + 1 - p
      /\ \A i \in 1 .. Len(t) : t[i] = l[p + i - 1]
  BY <1>0, SubSeqProperties
<1>2. /\ a \in Seq(S) /\ Len(a) = Len(l) + 1 - p - k
      /\ \A i \in 1 .. Len(a) : a[i] = l[p + k + i - 1]
  BY <1>0, SubSeqProperties
<1>3. /\ b \in Seq(S) /\ Len(b) = Len(t) - k
      /\ \A i \in 1 .. Len(b) : b[i] = t[k + i]
  <2> HIDE DEF t
  <2>1. \A i \in k + 1 .. Len(t) : t[i] \in S
    BY <1>0, <1>1
  <2>2. k + 1 \in Int /\ Len(t) \in Int
    BY <1>0, <1>1
  <2>3. /\ b \in Seq(S)
        /\ Len(b) = IF k + 1 <= Len(t) THEN Len(t) - (k + 1) + 1 ELSE 0
        /\ \A i \in 1 .. Len(t) - (k + 1) + 1 : b[i] = t[k + 1 + i - 1]
    BY <2>1, <2>2, SubSeqProperties
  <2> HIDE DEF b
  <2>4. Len(b) = Len(t) - k
    BY <1>0, <1>1, <2>3
  <2>5. ASSUME NEW i \in 1 .. Len(b) PROVE b[i] = t[k + i]
    <3>1. i \in 1 .. Len(t) - (k + 1) + 1 /\ k + 1 + i - 1 = k + i
      BY <1>0, <1>1, <2>4
    <3> QED BY <2>3, <3>1
  <2> QED BY <2>3, <2>4, <2>5
<1> HIDE DEF t, a, b
<1>4. a = b
  <2>1. Len(a) = Len(b)
    BY <1>0, <1>1, <1>2, <1>3
  <2>2. ASSUME NEW i \in 1 .. Len(a) PROVE a[i] = b[i]
    <3>1. k + i \in 1 .. Len(t) /\ p + (k + i) - 1 = p + k + i - 1
      BY <1>0, <1>1, <1>2
    <3>2. b[i] = t[k + i] /\ t[k + i] = l[p + (k + i) - 1] /\ a[i] = l[p + k + i - 1]
      BY <1>1, <1>2, <1>3, <2>1, <3>1
    <3> QED BY <3>1, <3>2
  <2> QED BY <1>2, <1>3, <2>1, <2>2, SeqEqual
<1> QED BY <1>1, <1>4 DEF t, a, b

\* A sequence is its first part and its last part.
LEMMA Split ==
  ASSUME NEW S, NEW l \in Seq(S), NEW k \in 0 .. Len(l)
  PROVE  SubSeq(l, 1, k) \o SubSeq(l, k + 1, Len(l)) = l
<1>1. 1 \in 1 .. Len(l) + 1 /\ k \in 1 - 1 .. Len(l) /\ Len(l) \in k .. Len(l)
  OBVIOUS
<1>2. SubSeq(l, 1, k) \o SubSeq(l, k + 1, Len(l)) = SubSeq(l, 1, Len(l))
  BY <1>1, ConcatAdjacentSubSeq
<1> QED BY <1>2, SubSeqFull

\* The beginning of a concatenation.
LEMMA Beginning ==
  ASSUME NEW S, NEW l \in Seq(S), NEW t \in Seq(S), NEW k \in 0 .. Len(t)
  PROVE  /\ SubSeq(t, 1, k) \in Seq(S) /\ Len(SubSeq(t, 1, k)) = k
         /\ \A i \in 1 .. k : SubSeq(t, 1, k)[i] = t[i]
         /\ l \o SubSeq(t, 1, k) = SubSeq(l \o t, 1, Len(l) + k)
<1> DEFINE q == l \o t
           a == SubSeq(t, 1, k)
           b == SubSeq(q, 1, Len(l) + k)
           c == l \o a
<1>0. /\ Len(l) \in Nat /\ Len(t) \in Nat /\ k \in Int
      /\ \A i \in 1 .. Len(t) : t[i] \in S
  OBVIOUS
<1>1. a \in Seq(S) /\ Len(a) = k /\ \A i \in 1 .. k : a[i] = t[i]
  BY <1>0, SubSeqProperties
<1>2. /\ q \in Seq(S) /\ Len(q) = Len(l) + Len(t)
      /\ \A i \in 1 .. Len(q) : q[i] = IF i <= Len(l) THEN l[i] ELSE t[i - Len(l)]
  BY <1>0, ConcatProperties
<1> HIDE DEF q, a
<1>3. /\ b \in Seq(S) /\ Len(b) = Len(l) + k /\ \A i \in 1 .. Len(b) : b[i] = q[i]
  <2>1. \A i \in 1 .. Len(l) + k : q[i] \in S
    BY <1>0, <1>2
  <2>2. 1 \in Int /\ Len(l) + k \in Int
    BY <1>0
  <2> QED BY <1>0, <2>1, <2>2, SubSeqProperties
<1>4. /\ c \in Seq(S) /\ Len(c) = Len(l) + k
      /\ \A i \in 1 .. Len(c) : c[i] = IF i <= Len(l) THEN l[i] ELSE a[i - Len(l)]
  <2>1. /\ c \in Seq(S) /\ Len(c) = Len(l) + Len(a)
        /\ \A i \in 1 .. Len(l) + Len(a) : c[i] = IF i <= Len(l) THEN l[i] ELSE a[i - Len(l)]
    BY <1>1, ConcatProperties
  <2> HIDE DEF c
  <2> QED BY <1>1, <2>1
<1> HIDE DEF b, c
<1>5. \A i \in 1 .. Len(c) : c[i] = b[i]
  <2> SUFFICES ASSUME NEW i \in 1 .. Len(c) PROVE c[i] = b[i]
    OBVIOUS
  <2>1. b[i] = IF i <= Len(l) THEN l[i] ELSE t[i - Len(l)]
    BY <1>0, <1>2, <1>3, <1>4
  <2>2. c[i] = IF i <= Len(l) THEN l[i] ELSE a[i - Len(l)]
    BY <1>4
  <2>3. i > Len(l) => i - Len(l) \in 1 .. k
    BY <1>0, <1>4
  <2> QED BY <1>1, <2>1, <2>2, <2>3
<1>6. c = b
  BY <1>3, <1>4, <1>5, SeqEqual
<1> QED BY <1>1, <1>6 DEF a, b, c, q

-----------------------------------------------------------------------------
(* The cursor states, and the words of an answer                           *)

LEMMA Masks ==
  /\ Mask("OPEN") = {"PREPARED", "OPEN"}
  /\ Mask("POSITIONED") = {"PREPARED", "OPEN", "POSITIONED"}
<1>1. ASSUME NEW i \in 1 .. 4
      PROVE  Mask(Ranked[i]) = {Ranked[j] : j \in 1 .. i}
  <2>1. \A r \in 1 .. 4 : Ranked[r] = Ranked[i] => r = i
    BY DEF Ranked
  <2> QED BY <2>1 DEF Mask
<1>2. Ranked[1] = "PREPARED" /\ Ranked[2] = "OPEN" /\ Ranked[3] = "POSITIONED"
  BY DEF Ranked
<1>3. Mask("OPEN") = {"PREPARED", "OPEN"}
  BY <1>1, <1>2, 1 .. 2 = {1, 2}
<1>4. Mask("POSITIONED") = {"PREPARED", "OPEN", "POSITIONED"}
  BY <1>1, <1>2, 1 .. 3 = {1, 2, 3}
<1> QED BY <1>3, <1>4

LEMMA Flags ==
  ASSUME NEW rs \in Caches
  PROVE  /\ ~IsEof(rs)
         /\ IsPositioned(rs) <=> rs.m_cursorstate = Mask("POSITIONED")
         /\ IsOpen(rs) <=> rs.m_cursorstate # CLOSED
<1>1. rs.m_cursorstate \in {CLOSED, Mask("OPEN"), Mask("POSITIONED")}
  BY DEF Caches
<1> QED BY <1>1, Masks DEF IsEof, IsPositioned, IsOpen, CLOSED

LEMMA Fine ==
  /\ GoesOn(None) /\ GoesOn(Ok) /\ GoesOn(Yes) /\ GoesOn(No) /\ GoesOn(Throw)
  /\ \A v : GoesOn(Value(v))
  /\ Ok # Throw /\ Ok # Abort /\ Ok # Undefined /\ Yes # No /\ Throw # Yes /\ Throw # No
  /\ Ok # Yes /\ Ok # No /\ Throw # Abort /\ Throw # Undefined
BY DEF GoesOn, None, Ok, Yes, No, Throw, Value, Abort, Undefined

\* The dataset answers with the same words.
LEMMA Words ==
  /\ Dataset!None = None
  /\ Dataset!Ok = Ok /\ Dataset!Yes = Yes /\ Dataset!No = No /\ Dataset!Throw = Throw
  /\ \A b : Dataset!Bool(b) = Bool(b)
  /\ \A v : Dataset!Value(v) = Value(v)
BY DEF None, Ok, Yes, No, Throw, Bool, Value,
       Dataset!None, Dataset!Ok, Dataset!Yes, Dataset!No, Dataset!Throw, Dataset!Bool, Dataset!Value

-----------------------------------------------------------------------------
(* The sources                                                             *)

LEMMA SourceFacts ==
  ASSUME NEW s \in Sources
  PROVE  /\ SourceRows[s] \in Seq(AllRows) /\ Len(SourceRows[s]) \in Nat
         /\ Width(s) \in Nat /\ SourceNames[s] \in AllNames
         /\ \A i \in 1 .. Len(SourceRows[s]) : Len(SourceRows[s][i]) = Width(s)
<1> DEFINE own == {SourceRows[s][i] : i \in DOMAIN SourceRows[s]}
<1>1. SourceRows[s] \in Seq(own) /\ SourceNames[s] \in Seq({SourceNames[s][i] : i \in DOMAIN SourceNames[s]})
  BY SourcesAssumption DEF IsList
<1>2. own \subseteq AllRows
  BY DEF AllRows
<1>3. \A i \in 1 .. Len(SourceRows[s]) : i \in DOMAIN SourceRows[s]
  BY <1>1
<1> HIDE DEF own
<1>4. SourceRows[s] \in Seq(AllRows)
  BY <1>1, <1>2, SeqMonotonic
<1>5. \A i \in 1 .. Len(SourceRows[s]) : Len(SourceRows[s][i]) = Width(s)
  BY <1>3, SourcesAssumption DEF Width
<1>6. SourceNames[s] \in AllNames
  BY DEF AllNames
<1> QED BY <1>1, <1>4, <1>5, <1>6 DEF Width

\* A row can be read by the numbers of its fields.
LEMMA RowFacts ==
  ASSUME NEW row \in AllRows
  PROVE  Len(row) \in Nat /\ DOMAIN row = 1 .. Len(row)
<1>1. PICK s \in Sources : \E i \in DOMAIN SourceRows[s] : row = SourceRows[s][i]
  BY DEF AllRows
<1>2. PICK i \in DOMAIN SourceRows[s] : row = SourceRows[s][i]
  BY <1>1
<1>3. IsList(row)
  BY <1>2, SourcesAssumption
<1> QED BY <1>3 DEF IsList

LEMMA LeftFacts ==
  ASSUME NEW sources, SourcesFine(sources), NEW s \in Sources
  PROVE  /\ Left(sources, s) \in Seq(AllRows) /\ Len(Left(sources, s)) \in Nat
         /\ \A i \in 1 .. Len(Left(sources, s)) : Len(Left(sources, s)[i]) = Width(s)
         /\ Left(sources, s) # <<>> =>
              /\ sources[s].pos \in 1 .. Len(SourceRows[s]) /\ sources[s].failed = FALSE
              /\ Left(sources, s) = SubSeq(SourceRows[s], sources[s].pos, Len(SourceRows[s]))
              /\ Len(Left(sources, s)) = Len(SourceRows[s]) + 1 - sources[s].pos
<1> DEFINE l == SourceRows[s]
           p == sources[s].pos
           t == SubSeq(l, p, Len(l))
<1>1. /\ l \in Seq(AllRows) /\ Len(l) \in Nat
      /\ \A i \in 1 .. Len(l) : Len(l[i]) = Width(s)
  BY SourceFacts
<1>2. p \in 0 .. Len(l) + 1 /\ sources[s].failed \in BOOLEAN
  BY DEF SourcesFine, SourceStates
<1>3. Left(sources, s) = IF p = 0 \/ sources[s].failed THEN <<>> ELSE t
  BY DEF Left
<1> HIDE DEF l, p
<1>4. CASE p = 0 \/ sources[s].failed
  <2>1. Left(sources, s) = <<>> /\ <<>> \in Seq(AllRows) /\ Len(<<>>) = 0
    BY <1>3, <1>4, EmptySeq
  <2> QED BY <2>1
<1>5. CASE p # 0 /\ ~sources[s].failed
  <2>1. p \in 1 .. Len(l) + 1 /\ 0 \in 0 .. Len(l) + 1 - p
    BY <1>1, <1>2, <1>5
  <2>2. /\ t \in Seq(AllRows) /\ Len(t) = Len(l) + 1 - p
        /\ \A i \in 1 .. Len(t) : t[i] = l[p + i - 1]
    BY <1>1, <2>1, Dropped
  <2>3. Left(sources, s) = t
    BY <1>3, <1>5
  <2> HIDE DEF t
  <2>4. \A i \in 1 .. Len(t) : Len(t[i]) = Width(s)
    BY <1>1, <2>1, <2>2
  <2>5. t # <<>> => p \in 1 .. Len(l)
    BY <1>1, <2>1, <2>2, EmptySeq
  <2>6. Len(t) \in Nat
    BY <2>2
  <2> QED BY <1>2, <1>5, <2>2, <2>3, <2>4, <2>5, <2>6 DEF l, p, t
<1> QED BY <1>2, <1>4, <1>5

-----------------------------------------------------------------------------
(* The RecordSet of the cache                                              *)

LEMMA InitFacts ==
  /\ RecordSetInit \in Caches /\ ~IsOpen(RecordSetInit) /\ ~IsPositioned(RecordSetInit)
  /\ RecordSetInit.m_count = 0 /\ RecordSetInit.m_records = <<>>
BY EmptySeq DEF RecordSetInit, Caches, AllNames, IsOpen, IsPositioned, CLOSED

LEMMA OpeningFacts ==
  /\ Opening \in Caches /\ IsOpen(Opening) /\ ~IsPositioned(Opening)
  /\ Opening.m_count = 0 /\ Opening.m_records = <<>>
  /\ Opening = [RecordSetInit EXCEPT !.m_cursorstate = Mask("OPEN")]
<1>1. Opening = [RecordSetInit EXCEPT !.m_cursorstate = Mask("OPEN")]
  BY DEF Opening, SetState, SetCursorState
<1>2. Opening \in Caches /\ Opening.m_cursorstate = Mask("OPEN")
  BY <1>1, InitFacts DEF Caches
<1>3. Opening.m_count = 0 /\ Opening.m_records = <<>>
  BY <1>1 DEF RecordSetInit
<1> QED BY <1>1, <1>2, <1>3, Masks DEF IsOpen, IsPositioned

\* What a cache in one of the three conditions is.
LEMMA Conditions ==
  ASSUME NEW rs, NEW row, NEW set, NEW source, NEW sources, Condition(rs, row, set, source, sources)
  PROVE  /\ rs \in Caches /\ rs.m_records \in Seq(AllRows) /\ RowCount(rs) \in Nat
         /\ ~IsEof(rs)
         /\ IsOpen(rs) /\ rs.m_count > 0 => Loaded(rs, row, set, source, sources)
         /\ ~IsOpen(rs) => rs = RecordSetInit
         /\ rs.m_count = 0 => rs.m_records = <<>>
         /\ IsPositioned(rs) => Loaded(rs, row, set, source, sources) /\ Placed(rs, row, set)
<1>1. rs \in Caches
  BY InitFacts, OpeningFacts DEF Condition, Loaded
<1>2. rs.m_records \in Seq(AllRows) /\ RowCount(rs) \in Nat
  BY <1>1 DEF Caches, RowCount
<1>3. IsOpen(rs) /\ rs.m_count > 0 => Loaded(rs, row, set, source, sources)
  <2>1. ~(RecordSetInit.m_count > 0) /\ ~(Opening.m_count > 0)
    BY InitFacts, OpeningFacts
  <2> QED BY <2>1 DEF Condition
<1>4. ~IsOpen(rs) => rs = RecordSetInit
  BY InitFacts, OpeningFacts DEF Condition, Loaded
<1>5. IsPositioned(rs) => Loaded(rs, row, set, source, sources) /\ Placed(rs, row, set)
  BY InitFacts, OpeningFacts DEF Condition, Loaded
<1>6. rs.m_count = 0 => rs.m_records = <<>>
  <2>1. Loaded(rs, row, set, source, sources) => rs.m_count # 0
    BY <1>1 DEF Loaded, Columnwise, Caches
  <2> QED BY <2>1, InitFacts, OpeningFacts DEF Condition
<1> QED BY <1>1, <1>2, <1>3, <1>4, <1>5, <1>6, Flags

\* Rows were added behind those of rs.
Extended(rs, q, rows) ==
  /\ q \in Caches
  /\ q.m_records = rs.m_records \o rows
  /\ q.m_count = rs.m_count
  /\ q.m_column_descriptors = rs.m_column_descriptors
  /\ q.m_cursorstate = rs.m_cursorstate
  /\ q.m_cursor \in {rs.m_cursor, Dangling}

LEMMA InsertRows ==
  ASSUME NEW rs \in Caches, IsOpen(rs), rs.m_count > 0,
         NEW rows \in Seq(AllRows), Len(rows[1]) = rs.m_count,
         NEW o \in RsInsertRows(rs, rows)
  PROVE  o.ret = Ok /\ Extended(rs, o.rs, rows)
<1> DEFINE grown == [rs EXCEPT !.m_records = @ \o rows]
           loose == [grown EXCEPT !.m_cursor = Dangling]
<1>1. HasColumns(rs) /\ Accepts(rs, Len(rows[1]))
  BY DEF HasColumns, Accepts
<1>2. PICK after \in PushBack(rs, rows) : o = Outcome(after, Ok)
  BY <1>1 DEF RsInsertRows
<1>3. after \in {grown, loose}
  BY <1>2 DEF PushBack
<1>4. rs.m_records \o rows \in Seq(AllRows)
  BY ConcatProperties DEF Caches
<1>5. Extended(rs, grown, rows)
  BY <1>4 DEF Extended, Caches
<1>6. loose \in Caches /\ Extended(rs, loose, rows)
  <2>1. grown \in Caches
    BY <1>5 DEF Extended
  <2> HIDE DEF grown
  <2>2. loose \in Caches
    BY <2>1 DEF Caches
  <2>3. loose.m_records = grown.m_records /\ loose.m_count = grown.m_count
    BY <2>1 DEF Caches
  <2>4. /\ loose.m_column_descriptors = grown.m_column_descriptors
        /\ loose.m_cursorstate = grown.m_cursorstate /\ loose.m_cursor = Dangling
    BY <2>1 DEF Caches
  <2> HIDE DEF loose
  <2> QED BY <1>5, <2>2, <2>3, <2>4 DEF Extended
<1> HIDE DEF grown, loose
<1>7. o.rs = after /\ o.ret = Ok
  BY <1>2 DEF Outcome
<1> QED BY <1>3, <1>5, <1>6, <1>7

\* A loaded cache stays loaded when it gets rows of its source; its cursor may
\* be lost.
Wide(rows, n) == \A i \in 1 .. Len(rows) : Len(rows[i]) = n

OnRows(left, source) == source # NoSource => left[source].pos >= 1

LEMMA ExtendedLoaded ==
  ASSUME NEW rs, NEW row \in Nat, NEW set, NEW source, NEW sources,
         Loaded(rs, row, set, source, sources),
         NEW rows \in Seq(AllRows), Wide(rows, rs.m_count),
         NEW q, Extended(rs, q, rows),
         NEW left, OnRows(left, source)
  PROVE  /\ Loaded(q, row, FALSE, source, left)
         /\ RowCount(q) = RowCount(rs) + Len(rows)
         /\ IsPositioned(q) = IsPositioned(rs)
<1>1. /\ rs \in Caches /\ rs.m_records \in Seq(AllRows) /\ RowCount(rs) \in Nat /\ Len(rows) \in Nat
      /\ Columnwise(rs, source, sources)
  BY DEF Loaded, Caches, RowCount
<1>2. /\ RowCount(q) = RowCount(rs) + Len(rows)
      /\ \A i \in 1 .. RowCount(rs) + Len(rows) :
           q.m_records[i] = IF i <= RowCount(rs) THEN rs.m_records[i] ELSE rows[i - RowCount(rs)]
  BY <1>1, ConcatProperties DEF Extended, RowCount
<1>3. ASSUME NEW i \in 1 .. RowCount(q) PROVE Len(q.m_records[i]) = q.m_count
  <2>1. q.m_count = rs.m_count
    BY DEF Extended
  <2>2. CASE i <= RowCount(rs)
    <3>1. i \in 1 .. RowCount(rs) /\ q.m_records[i] = rs.m_records[i]
      BY <1>1, <1>2, <2>2
    <3> QED BY <1>1, <2>1, <3>1 DEF Columnwise
  <2>3. CASE i > RowCount(rs)
    <3>1. i - RowCount(rs) \in 1 .. Len(rows) /\ q.m_records[i] = rows[i - RowCount(rs)]
      BY <1>1, <1>2, <2>3
    <3> QED BY <2>1, <3>1 DEF Wide
  <2> QED BY <1>1, <1>2, <2>2, <2>3
<1>4. Columnwise(q, source, left)
  <2>1. q.m_count = rs.m_count /\ q.m_column_descriptors = rs.m_column_descriptors
    BY DEF Extended
  <2>2. /\ rs.m_count > 0
        /\ source # NoSource => rs.m_column_descriptors = SourceNames[source] /\ rs.m_count = Width(source)
    BY <1>1 DEF Columnwise
  <2> QED BY <1>3, <2>1, <2>2 DEF Columnwise, OnRows
<1>5. IsPositioned(q) = IsPositioned(rs) /\ IsOpen(q)
  BY DEF Extended, IsPositioned, IsOpen, Loaded
<1>6. IsPositioned(q) => Placed(q, row, FALSE)
  <2>1. IsPositioned(q) => Placed(rs, row, set) /\ q.m_cursor \in {rs.m_cursor, Dangling}
    BY <1>5 DEF Extended, Loaded
  <2> QED BY <1>1, <1>2, <2>1 DEF Placed
<1> QED BY <1>2, <1>4, <1>5, <1>6 DEF Loaded, Extended

-----------------------------------------------------------------------------
(* The copying loops                                                       *)

\* The rows a client sees.
Seen(rs, source, sources) == rs.m_records \o Behind(source, sources)

LEMMA SeenIsVisible ==
  /\ IsOpen(m_rscache) => VisibleRows = Seen(m_rscache, m_source, src)
  /\ ~IsOpen(m_rscache) => VisibleRows = <<>>
  /\ IsOpen(m_rscache') => VisibleRows' = Seen(m_rscache', m_source', src')
  /\ ~IsOpen(m_rscache') => VisibleRows' = <<>>
BY DEF VisibleRows, Seen, Behind, Left, Remaining, IsOpen

\* A loop has left the cache as it was, but for rows it copied: no row is lost
\* on the way, unless the source has failed.
Copied(f, n) ==
  /\ f.ret \in {Ok, Throw}
  /\ SourcesFine(f.src) /\ Attached(m_source, f.src)
  /\ \/ f.rs = m_rscache /\ Loaded(f.rs, m_current_row, settled, m_source, f.src)
     \/ RowCount(f.rs) > RowCount(m_rscache) /\ Loaded(f.rs, m_current_row, FALSE, m_source, f.src)
  /\ RowCount(f.rs) >= RowCount(m_rscache)
  /\ IsPositioned(f.rs) = IsPositioned(m_rscache)
  /\ f.ret = Ok =>
       /\ Seen(f.rs, m_source, f.src) = Seen(m_rscache, m_source, src)
       /\ RowCount(f.rs) >= RowCount(m_rscache) + n \/ Behind(m_source, f.src) = <<>>
  /\ f.ret = Throw =>
       \E k \in RowCount(m_rscache) .. Len(Seen(m_rscache, m_source, src)) :
         Seen(f.rs, m_source, f.src) = SubSeq(Seen(m_rscache, m_source, src), 1, k)

LEMMA BehindFacts ==
  ASSUME NEW sources, SourcesFine(sources), NEW source \in Sources \union {NoSource}
  PROVE  Behind(source, sources) \in Seq(AllRows) /\ Len(Behind(source, sources)) \in Nat
BY LeftFacts, SourcesAssumption, EmptySeq DEF Behind

\* The source has given k rows.
Given(s, k, fail) == [src EXCEPT ![s].pos = @ + k, ![s].failed = fail]

LEMMA GivenFacts ==
  ASSUME SourcesFine(src), NEW s \in Sources, Attached(s, src), NEW k \in 1 .. Len(Left(src, s)),
         NEW fail \in BOOLEAN
  PROVE  /\ SourcesFine(Given(s, k, fail)) /\ Attached(s, Given(s, k, fail))
         /\ Given(s, k, fail)[s].pos >= 1
         /\ fail => Left(Given(s, k, fail), s) = <<>>
         /\ ~fail => Left(Given(s, k, fail), s) = SubSeq(Left(src, s), k + 1, Len(Left(src, s)))
<1> DEFINE l == SourceRows[s]
           p == src[s].pos
           t == Left(src, s)
           g == Given(s, k, fail)
<1>1. /\ l \in Seq(AllRows) /\ Len(l) \in Nat /\ t \in Seq(AllRows) /\ Len(t) \in Nat
      /\ t # <<>> => p \in 1 .. Len(l) /\ t = SubSeq(l, p, Len(l)) /\ Len(t) = Len(l) + 1 - p
  BY SourceFacts, LeftFacts
<1>2. t # <<>>
  BY EmptySeq
<1>3. /\ p \in 1 .. Len(l) /\ t = SubSeq(l, p, Len(l)) /\ Len(t) = Len(l) + 1 - p
      /\ k \in 1 .. Len(t)
  BY <1>1, <1>2
<1>4. g = [src EXCEPT ![s] = [[src[s] EXCEPT !.pos = p + k] EXCEPT !.failed = fail]]
  BY DEF Given, SourcesFine
<1>5. src \in [Sources -> SourceStates] /\ src[s] \in SourceStates
  BY DEF SourcesFine
<1> HIDE DEF l, p, t, g
<1>6. /\ g \in [Sources -> SourceStates]
      /\ g[s].pos = p + k /\ g[s].failed = fail /\ g[s].alive = src[s].alive
      /\ \A z \in Sources \ {s} : g[z] = src[z]
  <2> DEFINE e == [src[s] EXCEPT !.pos = p + k]
             d == [e EXCEPT !.failed = fail]
  <2>1. e \in SourceStates /\ e.pos = p + k /\ e.alive = src[s].alive
    <3>1. p + k \in Nat
      BY <1>1, <1>3
    <3> QED BY <1>5, <3>1 DEF SourceStates
  <2> HIDE DEF e
  <2>2. d \in SourceStates /\ d.pos = p + k /\ d.alive = src[s].alive /\ d.failed = fail
    BY <2>1 DEF SourceStates
  <2>3. g = [src EXCEPT ![s] = d]
    BY <1>4 DEF d, e
  <2> HIDE DEF d
  <2>4. g \in [Sources -> SourceStates] /\ g[s] = d /\ \A z \in Sources \ {s} : g[z] = src[z]
    BY <1>5, <2>2, <2>3
  <2> QED BY <2>2, <2>4
<1>7. SourcesFine(g)
  <2>1. \A z \in Sources \ {s} : g[z].pos \in 0 .. Len(SourceRows[z]) + 1
    BY <1>6 DEF SourcesFine
  <2>2. g[s].pos \in 0 .. Len(SourceRows[s]) + 1
    BY <1>1, <1>3, <1>6 DEF l
  <2> QED BY <1>6, <2>1, <2>2 DEF SourcesFine
<1>8. Attached(s, g)
  BY <1>6, SourcesAssumption DEF Attached
<1>9. g[s].pos >= 1 /\ g[s].pos # 0
  BY <1>1, <1>3, <1>6
<1>10. fail => Left(g, s) = <<>>
  BY <1>6 DEF Left
<1>11. ~fail => Left(g, s) = SubSeq(l, p + k, Len(l))
  BY <1>6, <1>9 DEF Left, l
<1>12. SubSeq(l, p + k, Len(l)) = SubSeq(t, k + 1, Len(t))
  <2>1. p \in 1 .. Len(l) + 1 /\ k \in 0 .. Len(l) + 1 - p
    BY <1>1, <1>3
  <2>2. SubSeq(l, p + k, Len(l)) = SubSeq(SubSeq(l, p, Len(l)), k + 1, Len(SubSeq(l, p, Len(l))))
    BY <1>1, <2>1, Dropped
  <2> QED BY <1>3, <2>2
<1> QED BY <1>7, <1>8, <1>9, <1>10, <1>11, <1>12 DEF g, t

LEMMA Regrouped ==
  ASSUME NEW a \in Seq(AllRows), NEW b \in Seq(AllRows), NEW c \in Seq(AllRows)
  PROVE  (a \o b) \o c = a \o (b \o c)
BY ConcatAssociative

\* One outcome of a loop: k rows copied and given.
LEMMA GivenCopied ==
  ASSUME CacheInv, Ready, m_source # NoSource, NEW n \in Nat \ {0},
         NEW k \in 1 .. Len(Left(src, m_source)), NEW fail \in BOOLEAN,
         NEW f, f.src = Given(m_source, k, fail), f.ret \in {Ok, Throw},
         f.ret = Ok => ~fail /\ (k = n \/ k = Len(Left(src, m_source))),
         Extended(m_rscache, f.rs, SubSeq(Left(src, m_source), 1, k))
  PROVE  Copied(f, n)
<1> DEFINE s    == m_source
           t    == Left(src, s)
           rows == SubSeq(t, 1, k)
           seen == Seen(m_rscache, s, src)
<1>1. /\ s \in Sources /\ SourcesFine(src) /\ Attached(s, src) /\ m_current_row \in Nat
      /\ Condition(m_rscache, m_current_row, settled, s, src)
  BY DEF CacheInv, Attached
<1>2. /\ Loaded(m_rscache, m_current_row, settled, s, src)
      /\ m_rscache.m_records \in Seq(AllRows) /\ RowCount(m_rscache) \in Nat
  BY <1>1, Conditions DEF Ready
<1>3. /\ t \in Seq(AllRows) /\ Len(t) \in Nat /\ \A i \in 1 .. Len(t) : Len(t[i]) = Width(s)
  BY <1>1, LeftFacts
<1>4. m_rscache.m_count = Width(s)
  BY <1>2 DEF Loaded, Columnwise
<1>5. /\ SourcesFine(f.src) /\ Attached(s, f.src) /\ f.src[s].pos >= 1
      /\ fail => Left(f.src, s) = <<>>
      /\ ~fail => Left(f.src, s) = SubSeq(t, k + 1, Len(t))
  BY <1>1, GivenFacts
<1> HIDE DEF t
<1>6. /\ k \in 0 .. Len(t) /\ k >= 1
  BY <1>3 DEF t
<1>7. /\ rows \in Seq(AllRows) /\ Len(rows) = k
      /\ \A i \in 1 .. k : rows[i] = t[i]
      /\ m_rscache.m_records \o rows = SubSeq(m_rscache.m_records \o t, 1, RowCount(m_rscache) + k)
  BY <1>2, <1>3, <1>6, Beginning DEF RowCount
<1>8. Extended(m_rscache, f.rs, rows)
  BY DEF t
<1>9. f.rs.m_records = m_rscache.m_records \o rows
  BY <1>8 DEF Extended
<1> HIDE DEF rows
<1>10. Wide(rows, m_rscache.m_count)
  BY <1>3, <1>4, <1>6, <1>7 DEF Wide
<1>11. /\ Loaded(f.rs, m_current_row, FALSE, s, f.src)
       /\ RowCount(f.rs) = RowCount(m_rscache) + k
       /\ IsPositioned(f.rs) = IsPositioned(m_rscache)
  <2>1. OnRows(f.src, s)
    BY <1>5 DEF OnRows
  <2>2. /\ rows \in Seq(AllRows) /\ Len(rows) = k
        /\ m_rscache.m_records \in Seq(AllRows) /\ m_current_row \in Nat
    BY <1>1, <1>2, <1>7
  <2> HIDE DEF s
  <2>3. /\ Loaded(f.rs, m_current_row, FALSE, s, f.src)
        /\ RowCount(f.rs) = RowCount(m_rscache) + Len(rows)
        /\ IsPositioned(f.rs) = IsPositioned(m_rscache)
    BY <1>2, <1>8, <1>10, <2>1, <2>2, ExtendedLoaded
  <2> QED BY <2>2, <2>3
<1>12. seen = m_rscache.m_records \o t /\ Seen(f.rs, s, f.src) = f.rs.m_records \o Left(f.src, s)
  BY DEF Seen, Behind, t
<1>13. Len(seen) = RowCount(m_rscache) + Len(t) /\ seen \in Seq(AllRows)
  BY <1>2, <1>3, <1>12, ConcatProperties DEF RowCount
<1> HIDE DEF seen
<1>14. CASE ~fail
  <2>1. Left(f.src, s) = SubSeq(t, k + 1, Len(t))
    BY <1>5, <1>14
  <2>2. rows \o SubSeq(t, k + 1, Len(t)) = t
    BY <1>3, <1>6, Split DEF rows
  <2>3. SubSeq(t, k + 1, Len(t)) \in Seq(AllRows) /\ Len(SubSeq(t, k + 1, Len(t))) = Len(t) - k
    <3>1. \A i \in k + 1 .. Len(t) : t[i] \in AllRows
      BY <1>3, <1>6
    <3>2. k + 1 \in Int /\ Len(t) \in Int
      BY <1>3, <1>6
    <3>3. /\ SubSeq(t, k + 1, Len(t)) \in Seq(AllRows)
          /\ Len(SubSeq(t, k + 1, Len(t))) = IF k + 1 <= Len(t) THEN Len(t) - (k + 1) + 1 ELSE 0
      BY <3>1, <3>2, SubSeqProperties
    <3> QED BY <1>3, <1>6, <3>3
  <2>4. (m_rscache.m_records \o rows) \o SubSeq(t, k + 1, Len(t))
          = m_rscache.m_records \o (rows \o SubSeq(t, k + 1, Len(t)))
    <3>1. rows \in Seq(AllRows) /\ m_rscache.m_records \in Seq(AllRows)
      BY <1>2, <1>7
    <3> QED BY <2>3, <3>1, Regrouped
  <2>5. Seen(f.rs, s, f.src) = seen
    BY <1>9, <1>12, <2>1, <2>2, <2>4
  <2>6. f.ret = Ok => k = n \/ k = Len(t)
    BY DEF t
  <2>7. k = Len(t) => Left(f.src, s) = <<>>
    BY <1>3, <2>1, SubSeqEmpty
  <2>8. f.ret = Ok => RowCount(f.rs) >= RowCount(m_rscache) + n \/ Behind(s, f.src) = <<>>
    BY <1>2, <1>11, <2>6, <2>7 DEF Behind
  <2>10. RowCount(f.rs) > RowCount(m_rscache) /\ RowCount(f.rs) >= RowCount(m_rscache)
    BY <1>2, <1>6, <1>11
  <2>11. seen = Seen(m_rscache, m_source, src)
    BY DEF seen
  <2>12. Seen(f.rs, m_source, f.src) = Seen(m_rscache, m_source, src)
    BY <2>5, <2>11
  <2>13. Len(seen) \in RowCount(m_rscache) .. Len(seen) /\ seen = SubSeq(seen, 1, Len(seen))
    BY <1>2, <1>3, <1>13, SubSeqFull
  <2>14. \E j \in RowCount(m_rscache) .. Len(Seen(m_rscache, m_source, src)) :
           Seen(f.rs, m_source, f.src) = SubSeq(Seen(m_rscache, m_source, src), 1, j)
    BY <2>11, <2>12, <2>13
  <2> QED BY <1>5, <1>11, <2>8, <2>10, <2>12, <2>14, Fine DEF Copied
<1>15. CASE fail
  <2>1. Left(f.src, s) = <<>> /\ f.ret = Throw
    BY <1>5, <1>15
  <2>2. m_rscache.m_records \o rows \in Seq(AllRows)
    BY <1>2, <1>7, ConcatProperties
  <2>3. Seen(f.rs, s, f.src) = m_rscache.m_records \o rows
    BY <1>9, <1>12, <2>1, <2>2, ConcatEmptySeq
  <2>4. Seen(f.rs, s, f.src) = SubSeq(seen, 1, RowCount(m_rscache) + k)
    BY <1>7, <1>12, <2>3
  <2>5. RowCount(m_rscache) + k \in RowCount(m_rscache) .. Len(seen)
    BY <1>2, <1>3, <1>6, <1>13
  <2>6. RowCount(f.rs) > RowCount(m_rscache)
    BY <1>2, <1>6, <1>11
  <2>7. RowCount(f.rs) >= RowCount(m_rscache)
    BY <1>2, <1>6, <1>11
  <2>8. seen = Seen(m_rscache, m_source, src)
    BY DEF seen
  <2>9. \E j \in RowCount(m_rscache) .. Len(Seen(m_rscache, m_source, src)) :
          Seen(f.rs, m_source, f.src) = SubSeq(Seen(m_rscache, m_source, src), 1, j)
    BY <2>4, <2>5, <2>8
  <2> QED BY <1>5, <1>11, <2>1, <2>6, <2>7, <2>9, Fine DEF Copied
<1> QED BY <1>14, <1>15

\* No row was to be copied.
LEMMA NothingCopied ==
  ASSUME CacheInv, Ready, NEW n \in Nat, NEW f, f.rs = m_rscache, f.src = src, f.ret \in {Ok, Throw},
         n = 0 \/ Behind(m_source, src) = <<>> \/ f.ret = Throw
  PROVE  Copied(f, n)
<1> DEFINE seen == Seen(m_rscache, m_source, src)
<1>1. /\ SourcesFine(src) /\ Attached(m_source, src)
      /\ Loaded(m_rscache, m_current_row, settled, m_source, src)
      /\ m_rscache.m_records \in Seq(AllRows) /\ RowCount(m_rscache) \in Nat
  BY Conditions DEF CacheInv, Ready
<1>2. /\ Behind(m_source, src) \in Seq(AllRows) /\ Len(Behind(m_source, src)) \in Nat
  BY <1>1, BehindFacts DEF Attached
<1>3. seen \in Seq(AllRows) /\ Len(seen) = RowCount(m_rscache) + Len(Behind(m_source, src))
  BY <1>1, <1>2, ConcatProperties DEF Seen, RowCount
<1>4. RowCount(m_rscache) >= RowCount(m_rscache) /\ (n = 0 => RowCount(m_rscache) >= RowCount(m_rscache) + n)
  BY <1>1
<1>5. /\ Len(seen) \in RowCount(m_rscache) .. Len(seen)
      /\ seen = SubSeq(seen, 1, Len(seen))
  BY <1>1, <1>2, <1>3, SubSeqFull
<1>6. seen = Seen(m_rscache, m_source, src)
  OBVIOUS
<1> HIDE DEF seen
<1>7. \E k \in RowCount(m_rscache) .. Len(Seen(m_rscache, m_source, src)) :
        Seen(m_rscache, m_source, src) = SubSeq(Seen(m_rscache, m_source, src), 1, k)
  BY <1>5, <1>6
<1> QED BY <1>1, <1>4, <1>7, Fine DEF Copied

LEMMA LeastIs ==
  ASSUME NEW i \in Nat \ {0}, NEW j \in Nat \ {0}
  PROVE  Least(i, j) \in 1 .. j /\ (Least(i, j) = i \/ Least(i, j) = j)
BY DEF Least

\* What a loop does that has rows to copy and columns to copy them to.
LEMMA FetchOutcomes ==
  ASSUME src[m_source].alive, src[m_source].pos # 0, Remaining(m_source) # <<>>,
         Accepts(m_rscache, Width(m_source)), NEW n, NEW f \in Fetch(n)
  PROVE  LET t    == Remaining(m_source)
             most == Least(n, Len(t))
             Copies(k) == RsInsertRows(m_rscache, SubSeq(t, 1, k))
         IN  \/ f \in Unfetched(Throw) /\ m_source \in Faulty
             \/ \E c \in Copies(most) : f = Fetched(m_source, c.rs, most, "none")
             \/ \E k \in 1 .. most : \E c \in Copies(k) : \E thrower \in {"copy", "next"} :
                  f = Fetched(m_source, c.rs, k, thrower) /\ m_source \in Faulty
<1> DEFINE t    == Remaining(m_source)
           most == Least(n, Len(t))
           Copies(k) == RsInsertRows(m_rscache, SubSeq(t, 1, k))
<1>1. f \in {Fetched(m_source, c.rs, most, "none") : c \in Copies(most)}
           \union (IF m_source \in Faulty THEN Unfetched(Throw) ELSE {})
           \union
           UNION {{Fetched(m_source, c.rs, k, thrower) :
                     c \in Copies(k), thrower \in {"next"} \union (IF k < most THEN {"copy"} ELSE {})} :
                    k \in IF m_source \in Faulty THEN 1 .. most ELSE {}}
  BY DEF Fetch
<1> HIDE DEF Copies, most
<1>2. CASE f \in {Fetched(m_source, c.rs, most, "none") : c \in Copies(most)}
  BY <1>2 DEF Copies, most
<1>3. CASE f \in IF m_source \in Faulty THEN Unfetched(Throw) ELSE {}
  BY <1>3
<1>4. CASE f \in UNION {{Fetched(m_source, c.rs, k, thrower) :
                     c \in Copies(k), thrower \in {"next"} \union (IF k < most THEN {"copy"} ELSE {})} :
                    k \in IF m_source \in Faulty THEN 1 .. most ELSE {}}
  <2>1. PICK k \in IF m_source \in Faulty THEN 1 .. most ELSE {} :
          f \in {Fetched(m_source, c.rs, k, thrower) :
                   c \in Copies(k), thrower \in {"next"} \union (IF k < most THEN {"copy"} ELSE {})}
    BY <1>4
  <2>2. m_source \in Faulty /\ k \in 1 .. most
    OBVIOUS
  <2>3. PICK c \in Copies(k), thrower \in {"next"} \union (IF k < most THEN {"copy"} ELSE {}) :
          f = Fetched(m_source, c.rs, k, thrower)
    BY <2>1
  <2>4. thrower \in {"copy", "next"}
    OBVIOUS
  <2> QED BY <2>2, <2>3, <2>4 DEF Copies, most
<1> QED BY <1>1, <1>2, <1>3, <1>4

\* One of the loops, run at most n times.
LEMMA FetchCopies ==
  ASSUME CacheInv, Ready, m_source # NoSource, NEW n \in Nat \ {0}, NEW f \in Fetch(n)
  PROVE  Copied(f, n)
<1> DEFINE s    == m_source
           t    == Remaining(s)
           most == Least(n, Len(t))
           Copies(k) == RsInsertRows(m_rscache, SubSeq(t, 1, k))
<1>1. /\ s \in Sources /\ SourcesFine(src) /\ Attached(s, src) /\ src[s].alive
      /\ Loaded(m_rscache, m_current_row, settled, s, src)
      /\ m_rscache \in Caches
  BY Conditions DEF CacheInv, Attached, Ready
<1>2. m_rscache.m_count = Width(s) /\ src[s].pos >= 1 /\ src[s].pos \in Nat
  BY <1>1 DEF Loaded, Columnwise, SourcesFine, SourceStates
<1>3. src[s].pos # 0 /\ Accepts(m_rscache, Width(s))
  BY <1>2 DEF Ready, Accepts
<1>4. t = Left(src, s)
  BY DEF Remaining, Left
<1>5. t \in Seq(AllRows) /\ Len(t) \in Nat /\ \A i \in 1 .. Len(t) : Len(t[i]) = Width(s)
  BY <1>1, <1>4, LeftFacts
<1>6. CASE t = <<>>
  <2>1. f \in Unfetched(Ok)
    BY <1>1, <1>3, <1>6 DEF Fetch
  <2>2. f.rs = m_rscache /\ f.src = src /\ f.ret = Ok
    BY <2>1 DEF Unfetched
  <2>3. Behind(m_source, src) = <<>>
    BY <1>4, <1>6 DEF Behind
  <2> QED BY <2>2, <2>3, NothingCopied
<1>7. CASE t # <<>>
  <2>1. Len(t) \in Nat \ {0}
    BY <1>5, <1>7, EmptySeq
  <2>2. most \in 1 .. Len(t) /\ (most = n \/ most = Len(t))
    BY <2>1, LeastIs
  <2>3. \/ f \in Unfetched(Throw)
        \/ \E c \in Copies(most) : f = Fetched(s, c.rs, most, "none")
        \/ \E k \in 1 .. most : \E c \in Copies(k) : \E thrower \in {"copy", "next"} :
             f = Fetched(s, c.rs, k, thrower)
    BY <1>1, <1>3, <1>7, FetchOutcomes
  <2>12. CASE f \in Unfetched(Throw)
    <3>1. f.rs = m_rscache /\ f.src = src /\ f.ret = Throw
      BY <2>12 DEF Unfetched
    <3> QED BY <3>1, NothingCopied
  <2> SUFFICES ASSUME f \notin Unfetched(Throw) PROVE Copied(f, n)
    BY <2>12
  <2> HIDE DEF Copies, most
  <2>4. \E k \in 1 .. Len(t), thrower \in {"none", "copy", "next"} :
          /\ thrower = "none" => k = most
          /\ \E c \in Copies(k) : f = Fetched(s, c.rs, k, thrower)
    <3>1. CASE \E c \in Copies(most) : f = Fetched(s, c.rs, most, "none")
      BY <2>2, <3>1
    <3>2. CASE \E k \in 1 .. most : \E c \in Copies(k) : \E thrower \in {"copy", "next"} :
                 f = Fetched(s, c.rs, k, thrower)
      <4>1. \A k \in 1 .. most : k \in 1 .. Len(t)
        BY <2>1, <2>2
      <4>2. PICK k \in 1 .. most, thrower \in {"copy", "next"} :
              \E c \in Copies(k) : f = Fetched(s, c.rs, k, thrower)
        BY <3>2
      <4>3. k \in 1 .. Len(t) /\ thrower \in {"none", "copy", "next"} /\ thrower # "none"
        BY <4>1
      <4> QED BY <4>2, <4>3
    <3> QED BY <2>3, <3>1, <3>2
  <2>5. PICK k \in 1 .. Len(t), thrower \in {"none", "copy", "next"} :
          (thrower = "none" => k = most) /\ \E c \in Copies(k) : f = Fetched(s, c.rs, k, thrower)
    BY <2>4
  <2>6. PICK c \in Copies(k) : f = Fetched(s, c.rs, k, thrower)
    BY <2>5
  <2>7. /\ SubSeq(t, 1, k) \in Seq(AllRows) /\ SubSeq(t, 1, k)[1] = t[1] /\ 1 \in 1 .. Len(t)
    BY <1>5, <2>1, Beginning
  <2>8. Len(SubSeq(t, 1, k)[1]) = m_rscache.m_count
    BY <1>2, <1>5, <2>7
  <2>9. c.ret = Ok /\ Extended(m_rscache, c.rs, SubSeq(t, 1, k))
    BY <1>1, <2>7, <2>8, InsertRows DEF Copies, Ready
  <2>10. /\ f.rs = c.rs /\ f.ret = (IF thrower = "none" THEN Ok ELSE Throw)
         /\ f.src = Given(s, k, thrower = "next")
    BY <2>6 DEF Fetched, Given
  <2>11. thrower = "none" => k = n \/ k = Len(t)
    BY <2>2, <2>5
  <2> HIDE DEF t
  <2>13. PICK fail \in BOOLEAN : fail <=> thrower = "next"
    OBVIOUS
  <2>14. f.src = Given(s, k, fail)
    BY <2>10, <2>13 DEF Given
  <2>15. f.ret \in {Ok, Throw} /\ (f.ret = Ok => thrower = "none")
    BY <2>10, Fine
  <2>16. f.ret = Ok => ~fail /\ (k = n \/ k = Len(t))
    BY <2>11, <2>13, <2>15
  <2> HIDE DEF s
  <2>17. Extended(m_rscache, f.rs, SubSeq(t, 1, k))
    BY <2>9, <2>10
  <2> QED BY <1>4, <2>14, <2>15, <2>16, <2>17, GivenCopied DEF s
<1> QED BY <1>6, <1>7

\* The loop of setpos(), for a row number from 1.
LEMMA FetchUpToCopies ==
  ASSUME CacheInv, Ready, NEW row \in Nat, NEW f \in FetchUpTo(row)
  PROVE  /\ \E n \in Nat : Copied(f, n)
         /\ f.ret = Ok => RowCount(f.rs) >= row \/ Behind(m_source, f.src) = <<>>
<1>2. RowCount(m_rscache) \in Nat
  BY Conditions DEF CacheInv
<1>3. CASE m_source = NoSource \/ row <= RowCount(m_rscache)
  <2>1. f.rs = m_rscache /\ f.src = src /\ f.ret = Ok
    BY <1>3 DEF FetchUpTo, Unfetched
  <2>2. Copied(f, 0)
    BY <2>1, NothingCopied
  <2>3. m_source = NoSource => Behind(m_source, f.src) = <<>>
    BY DEF Behind
  <2>4. row <= RowCount(m_rscache) => RowCount(f.rs) >= row
    BY <1>2, <2>1
  <2> QED BY <1>3, <2>2, <2>3, <2>4
<1>4. CASE m_source # NoSource /\ ~(row <= RowCount(m_rscache))
  <2> DEFINE n == row - RowCount(m_rscache)
  <2>1. n \in Nat \ {0} /\ f \in Fetch(n) /\ RowCount(m_rscache) + n = row
    BY <1>2, <1>4 DEF FetchUpTo
  <2> HIDE DEF n
  <2>2. Copied(f, n)
    BY <1>4, <2>1, FetchCopies
  <2> QED BY <2>1, <2>2 DEF Copied
<1> QED BY <1>3, <1>4

\* The loops that end with the source only.
LEMMA FetchRestCopies ==
  ASSUME CacheInv, Ready, NEW f \in FetchRest
  PROVE  /\ \E n \in Nat : Copied(f, n)
         /\ f.ret = Ok => Behind(m_source, f.src) = <<>>
<1>1. CASE m_source = NoSource
  <2>1. f.rs = m_rscache /\ f.src = src /\ f.ret = Ok
    BY <1>1 DEF FetchRest, Unfetched
  <2>2. Copied(f, 0)
    BY <2>1, NothingCopied
  <2> QED BY <1>1, <2>2 DEF Behind
<1>2. CASE m_source # NoSource
  <2>1. /\ m_source \in Sources /\ SourcesFine(src) /\ Attached(m_source, src)
        /\ m_rscache.m_records \in Seq(AllRows) /\ RowCount(m_rscache) \in Nat
    BY <1>2, Conditions DEF CacheInv, Attached
  <2>2. /\ Remaining(m_source) = Behind(m_source, src)
        /\ Behind(m_source, src) \in Seq(AllRows) /\ Len(Behind(m_source, src)) \in Nat
    <3>1. Remaining(m_source) = Behind(m_source, src)
      BY <1>2 DEF Remaining, Behind, Left
    <3> QED BY <2>1, <3>1, BehindFacts
  <2>3. All \in Nat \ {0} /\ All = Len(Behind(m_source, src)) + 1 /\ f \in Fetch(All)
    BY <1>2, <2>2 DEF All, FetchRest
  <2>4. Copied(f, All)
    BY <1>2, <2>3, FetchCopies
  <2>5. ASSUME f.ret = Ok PROVE Behind(m_source, f.src) = <<>>
    <3>1. /\ SourcesFine(f.src) /\ f.rs \in Caches
          /\ Seen(f.rs, m_source, f.src) = Seen(m_rscache, m_source, src)
          /\ RowCount(f.rs) >= RowCount(m_rscache) + All \/ Behind(m_source, f.src) = <<>>
      BY <2>4, <2>5 DEF Copied, Loaded
    <3>2. f.rs.m_records \in Seq(AllRows) /\ RowCount(f.rs) \in Nat
      BY <3>1 DEF Caches, RowCount
    <3>3. /\ Behind(m_source, f.src) \in Seq(AllRows) /\ Len(Behind(m_source, f.src)) \in Nat
      BY <2>1, <3>1, BehindFacts
    <3>4. Len(Seen(f.rs, m_source, f.src)) = RowCount(f.rs) + Len(Behind(m_source, f.src))
      BY <3>2, <3>3, ConcatProperties DEF Seen, RowCount
    <3>5. Len(Seen(m_rscache, m_source, src)) = RowCount(m_rscache) + Len(Behind(m_source, src))
      BY <2>1, <2>2, ConcatProperties DEF Seen, RowCount
    <3>6. ~(RowCount(f.rs) >= RowCount(m_rscache) + All)
      BY <2>1, <2>2, <2>3, <3>1, <3>2, <3>3, <3>4, <3>5
    <3> QED BY <3>1, <3>6
  <2> QED BY <2>3, <2>4, <2>5
<1> QED BY <1>1, <1>2

-----------------------------------------------------------------------------
(* The moves                                                               *)

\* The position of the abstract dataset.
Pos(rs, row) == IF IsPositioned(rs) THEN row ELSE 0

position == IF Positioned THEN m_current_row ELSE 0

LEMMA Positions ==
  /\ position = Pos(m_rscache, m_current_row)
  /\ position' = Pos(m_rscache', m_current_row')
BY DEF position, Pos, Positioned, IsPositioned

LEMMA PositionInside ==
  ASSUME CacheInv
  PROVE  position \in 0 .. RowCount(m_rscache) /\ RowCount(m_rscache) \in Nat
<1>1. RowCount(m_rscache) \in Nat /\ (Positioned => m_current_row \in 1 .. RowCount(m_rscache))
  BY Conditions DEF CacheInv, Positioned, Placed
<1> QED BY <1>1 DEF position

Landed(out, f, row, source, sources) ==
  /\ out.src = f.src /\ out.row = row /\ out.ret = Yes /\ out.moved = TRUE
  /\ Loaded(out.rs, row, TRUE, source, sources)
  /\ IsPositioned(out.rs) /\ out.rs.m_records = f.rs.m_records

\* The cursor is placed on a row that exists.
LEMMA PlaceOutcome ==
  ASSUME NEW f, NEW old, NEW set, NEW source, NEW sources,
         Loaded(f.rs, old, set, source, sources),
         NEW row \in 1 .. RowCount(f.rs)
  PROVE  Landed(Place(f, row), f, row, source, sources)
<1> DEFINE at   == [f.rs EXCEPT !.m_cursor = row - 1]
           q    == SetState(at, "POSITIONED")
           done == CHOOSE o \in RsSetpos(f.rs, row) : TRUE
           out  == Place(f, row)
<1>1. f.rs \in Caches /\ RowCount(f.rs) \in Nat /\ row - 1 \in Int
  BY DEF Loaded, Caches, RowCount
<1>2. ~(row > RowCount(f.rs)) /\ ~(row < 1)
  BY <1>1
<1>3. RsSetpos(f.rs, row) = {Outcome(q, Yes)}
  BY <1>2 DEF RsSetpos, Only
<1>4. done = Outcome(q, Yes)
  BY <1>3
<1>5. /\ at \in Caches /\ at.m_cursor = row - 1 /\ at.m_records = f.rs.m_records
      /\ at.m_count = f.rs.m_count /\ at.m_column_descriptors = f.rs.m_column_descriptors
  BY <1>1 DEF Caches
<1>6. q = [at EXCEPT !.m_cursorstate = Mask("POSITIONED")]
  BY DEF SetState, SetCursorState
<1> HIDE DEF at, q
<1>7. /\ q \in Caches /\ q.m_cursor = row - 1 /\ q.m_records = f.rs.m_records
      /\ q.m_count = f.rs.m_count /\ q.m_column_descriptors = f.rs.m_column_descriptors
      /\ q.m_cursorstate = Mask("POSITIONED")
  BY <1>5, <1>6 DEF Caches
<1>8. IsPositioned(q) /\ ~IsEof(q) /\ IsOpen(q)
  BY <1>7, Flags, Masks DEF CLOSED
<1> HIDE DEF done
<1>9. done.rs = q /\ done.ret = Yes
  BY <1>4 DEF Outcome
<1>10. out = [rs |-> q, src |-> f.src, row |-> row, ret |-> Yes, moved |-> TRUE]
  BY <1>8, <1>9 DEF Place, done
<1>11. Columnwise(q, source, sources)
  <2>1. Columnwise(f.rs, source, sources)
    BY DEF Loaded
  <2> QED BY <1>7, <2>1 DEF Columnwise, RowCount
<1>12. Placed(q, row, TRUE)
  <2>1. row \in 1 .. RowCount(q)
    BY <1>7 DEF RowCount
  <2> QED BY <1>7, <2>1 DEF Placed
<1> HIDE DEF out
<1>13. Loaded(out.rs, row, TRUE, source, sources)
  BY <1>7, <1>8, <1>10, <1>11, <1>12 DEF Loaded
<1>14. Landed(out, f, row, source, sources)
  BY <1>7, <1>8, <1>10, <1>13 DEF Landed
<1> QED BY <1>14 DEF out

\* The outcome out of a move is the state after it.
MadeBy(out) ==
  /\ m_rscache' = out.rs /\ src' = out.src /\ m_current_row' = out.row /\ ret' = out.ret
  /\ settled' = (out.moved \/ (settled /\ RowCount(out.rs) = RowCount(m_rscache)))
  /\ m_source' = m_source

\* The cache stays where it is.
LEMMA Stayed ==
  ASSUME CacheInv, Ready, NEW f, \E n \in Nat : Copied(f, n), NEW r, GoesOn(r),
         NEW out, out.rs = f.rs, out.src = f.src, out.row = m_current_row, out.ret = r,
         out.moved = FALSE, MadeBy(out)
  PROVE  /\ CacheInv' /\ Ready' /\ ret' = r
         /\ position' = position /\ VisibleRows' = Seen(f.rs, m_source, f.src)
<1>1. PICK n \in Nat : Copied(f, n)
  OBVIOUS
<1>2. /\ m_rscache' = f.rs /\ src' = f.src /\ m_current_row' = m_current_row /\ ret' = r
      /\ m_source' = m_source
      /\ settled' = (settled /\ RowCount(f.rs) = RowCount(m_rscache))
  BY DEF MadeBy
<1>3. RowCount(m_rscache) \in Nat /\ settled \in BOOLEAN /\ m_current_row \in Nat
  BY Conditions DEF CacheInv
<1>4. Loaded(f.rs, m_current_row, settled', m_source, f.src)
  <2>1. CASE f.rs = m_rscache /\ Loaded(f.rs, m_current_row, settled, m_source, f.src)
    <3>1. settled' = settled
      BY <1>2, <1>3, <2>1
    <3> QED BY <2>1, <3>1
  <2>2. CASE RowCount(f.rs) > RowCount(m_rscache)
             /\ Loaded(f.rs, m_current_row, FALSE, m_source, f.src)
    <3>1. RowCount(f.rs) \in Nat
      BY <2>2 DEF Loaded, Caches, RowCount
    <3>2. RowCount(f.rs) # RowCount(m_rscache)
      BY <1>3, <2>2, <3>1
    <3>3. settled' = FALSE
      BY <1>2, <3>2
    <3> QED BY <2>2, <3>3
  <2> QED BY <1>1, <2>1, <2>2 DEF Copied
<1>5. SourcesFine(src') /\ Attached(m_source', src') /\ settled' \in BOOLEAN
  BY <1>1, <1>2, <1>3 DEF Copied
<1>6. Condition(m_rscache', m_current_row', settled', m_source', src')
  BY <1>2, <1>4 DEF Condition
<1>7. CacheInv'
  BY <1>2, <1>3, <1>5, <1>6 DEF CacheInv, Running
<1>8. position' = position
  BY <1>1, <1>2, Positions DEF Copied, Pos
<1>9. VisibleRows' = Seen(f.rs, m_source, f.src) /\ Ready'
  BY <1>2, <1>4, SeenIsVisible DEF Loaded, Columnwise, Ready
<1> QED BY <1>2, <1>7, <1>8, <1>9

\* The cache goes to a row that was copied.
LEMMA Settled ==
  ASSUME CacheInv, Ready, NEW f, \E n \in Nat : Copied(f, n), NEW row \in 1 .. RowCount(f.rs),
         NEW r, GoesOn(r), NEW placed, placed = Place(f, row),
         NEW out, out.rs = placed.rs, out.src = placed.src, out.row = placed.row, out.ret = r,
         out.moved = placed.moved, MadeBy(out)
  PROVE  /\ CacheInv' /\ Ready' /\ ret' = r /\ settled' = TRUE
         /\ position' = row /\ VisibleRows' = Seen(f.rs, m_source, f.src)
<1>1. PICK n \in Nat : Copied(f, n)
  OBVIOUS
<1>2. PICK set : Loaded(f.rs, m_current_row, set, m_source, f.src)
  BY <1>1 DEF Copied
<1>3. /\ placed.src = f.src /\ placed.row = row /\ placed.moved = TRUE
      /\ Loaded(placed.rs, row, TRUE, m_source, f.src)
      /\ IsPositioned(placed.rs) /\ placed.rs.m_records = f.rs.m_records
  <2>1. Landed(Place(f, row), f, row, m_source, f.src)
    BY <1>2, PlaceOutcome
  <2> QED BY <2>1 DEF Landed
<1>4. /\ m_rscache' = placed.rs /\ src' = f.src /\ m_current_row' = row /\ ret' = r
      /\ m_source' = m_source /\ settled' = TRUE
  BY <1>3 DEF MadeBy
<1>5. SourcesFine(src') /\ Attached(m_source', src')
  BY <1>1, <1>4 DEF Copied
<1>6. row \in Nat
  BY <1>2 DEF Loaded, Caches, RowCount
<1>7. Condition(m_rscache', m_current_row', settled', m_source', src')
  BY <1>3, <1>4 DEF Condition
<1>8. CacheInv'
  BY <1>4, <1>5, <1>6, <1>7 DEF CacheInv, Running
<1>9. position' = row
  BY <1>3, <1>4, Positions DEF Pos
<1>10. VisibleRows' = Seen(f.rs, m_source, f.src) /\ Ready'
  BY <1>3, <1>4, SeenIsVisible DEF Loaded, Columnwise, Seen, Ready
<1> QED BY <1>4, <1>8, <1>9, <1>10

\* Rows behind the current one are lost.
Shortened ==
  /\ position' = position
  /\ \E k \in position .. Len(VisibleRows) : VisibleRows' = SubSeq(VisibleRows, 1, k)

\* What is seen in a loaded cache.
LEMMA VisibleFacts ==
  ASSUME CacheInv, Ready
  PROVE  /\ VisibleRows = Seen(m_rscache, m_source, src)
         /\ VisibleRows \in Seq(AllRows)
         /\ Len(VisibleRows) = RowCount(m_rscache) + Len(Behind(m_source, src))
         /\ Len(Behind(m_source, src)) \in Nat
         /\ \A i \in 1 .. RowCount(m_rscache) : VisibleRows[i] = m_rscache.m_records[i]
<1>1. VisibleRows = Seen(m_rscache, m_source, src)
  BY SeenIsVisible DEF Ready
<1>2. m_rscache.m_records \in Seq(AllRows)
  BY Conditions DEF CacheInv
<1>3. Behind(m_source, src) \in Seq(AllRows) /\ Len(Behind(m_source, src)) \in Nat
  BY BehindFacts DEF CacheInv, Attached
<1>4. /\ Seen(m_rscache, m_source, src) \in Seq(AllRows)
      /\ Len(Seen(m_rscache, m_source, src)) = RowCount(m_rscache) + Len(Behind(m_source, src))
      /\ \A i \in 1 .. Len(m_rscache.m_records) + Len(Behind(m_source, src)) :
           Seen(m_rscache, m_source, src)[i] =
             IF i <= Len(m_rscache.m_records) THEN m_rscache.m_records[i]
             ELSE Behind(m_source, src)[i - Len(m_rscache.m_records)]
  BY <1>2, <1>3, ConcatProperties DEF Seen, RowCount
<1>5. \A i \in 1 .. RowCount(m_rscache) : Seen(m_rscache, m_source, src)[i] = m_rscache.m_records[i]
  BY <1>2, <1>3, <1>4 DEF RowCount
<1> QED BY <1>1, <1>3, <1>4, <1>5

\* The same of what a loop has left.
LEMMA CopiedFacts ==
  ASSUME CacheInv, Ready, NEW f, \E n \in Nat : Copied(f, n)
  PROVE  /\ f.ret \in {Ok, Throw}
         /\ RowCount(f.rs) \in Nat /\ RowCount(f.rs) >= RowCount(m_rscache)
         /\ f.ret = Ok =>
              /\ Seen(f.rs, m_source, f.src) = VisibleRows
              /\ RowCount(f.rs) <= Len(VisibleRows)
              /\ Behind(m_source, f.src) = <<>> => Len(VisibleRows) = RowCount(f.rs)
         /\ f.ret = Throw =>
              \E k \in position .. Len(VisibleRows) :
                Seen(f.rs, m_source, f.src) = SubSeq(VisibleRows, 1, k)
<1>1. PICK n \in Nat : Copied(f, n)
  OBVIOUS
<1>2. f.rs \in Caches /\ SourcesFine(f.src) /\ Attached(m_source, f.src)
  BY <1>1 DEF Copied, Loaded
<1>3. f.rs.m_records \in Seq(AllRows) /\ RowCount(f.rs) \in Nat
  BY <1>2 DEF Caches, RowCount
<1>4. /\ Behind(m_source, f.src) \in Seq(AllRows) /\ Len(Behind(m_source, f.src)) \in Nat
      /\ Behind(m_source, f.src) = <<>> => Len(Behind(m_source, f.src)) = 0
  BY <1>2, BehindFacts, EmptySeq DEF Attached
<1>5. Len(Seen(f.rs, m_source, f.src)) = RowCount(f.rs) + Len(Behind(m_source, f.src))
  BY <1>3, <1>4, ConcatProperties DEF Seen, RowCount
<1>6. VisibleRows = Seen(m_rscache, m_source, src)
  BY VisibleFacts
<1>7. ASSUME f.ret = Ok
      PROVE  /\ Seen(f.rs, m_source, f.src) = VisibleRows
             /\ RowCount(f.rs) <= Len(VisibleRows)
             /\ Behind(m_source, f.src) = <<>> => Len(VisibleRows) = RowCount(f.rs)
  <2>1. Seen(f.rs, m_source, f.src) = VisibleRows
    BY <1>1, <1>6, <1>7 DEF Copied
  <2> QED BY <1>3, <1>4, <1>5, <2>1
<1>8. ASSUME f.ret = Throw
      PROVE  \E k \in position .. Len(VisibleRows) :
               Seen(f.rs, m_source, f.src) = SubSeq(VisibleRows, 1, k)
  <2>1. PICK k \in RowCount(m_rscache) .. Len(VisibleRows) :
          Seen(f.rs, m_source, f.src) = SubSeq(VisibleRows, 1, k)
    BY <1>1, <1>6, <1>8 DEF Copied
  <2>2. k \in position .. Len(VisibleRows)
    BY PositionInside, VisibleFacts
  <2> QED BY <2>1, <2>2
<1> QED BY <1>1, <1>3, <1>7, <1>8 DEF Copied

\* What is left of an outcome when first() and next() change the answer.
Same(o, out) == out.rs = o.rs /\ out.src = o.src /\ out.row = o.row /\ out.moved = o.moved

LEMMA OutcomesOfStay ==
  ASSUME NEW f, NEW r
  PROVE  /\ Stay(f, r).rs = f.rs /\ Stay(f, r).src = f.src /\ Stay(f, r).row = m_current_row
         /\ Stay(f, r).ret = r /\ Stay(f, r).moved = FALSE
BY DEF Stay

\* The three ways a move can go.
Failed(ret_)  == ret_ = Throw /\ Shortened
Refused(ret_) == ret_ = No /\ position' = position /\ VisibleRows' = VisibleRows
Reached(ret_, row) ==
  /\ ret_ = Yes /\ row \in 1 .. Len(VisibleRows)
  /\ position' = row /\ VisibleRows' = VisibleRows /\ settled' = TRUE

LEMMA StayedEffect ==
  ASSUME CacheInv, Ready, NEW f, \E n \in Nat : Copied(f, n), NEW r, r # Yes, GoesOn(r),
         NEW out, Same(Stay(f, r), out), GoesOn(out.ret), MadeBy(out),
         r = Throw <=> f.ret = Throw, r = No \/ r = Throw
  PROVE  CacheInv' /\ Ready' /\ ret' = out.ret /\ (Failed(r) \/ Refused(r))
<1>1. /\ out.rs = f.rs /\ out.src = f.src /\ out.row = m_current_row /\ out.moved = FALSE
  BY DEF Same, Stay
<1>2. /\ CacheInv' /\ Ready' /\ ret' = out.ret
      /\ position' = position /\ VisibleRows' = Seen(f.rs, m_source, f.src)
  BY <1>1, Stayed
<1>3. CASE r = Throw
  <2>1. \E k \in position .. Len(VisibleRows) : Seen(f.rs, m_source, f.src) = SubSeq(VisibleRows, 1, k)
    BY <1>3, CopiedFacts
  <2> QED BY <1>2, <1>3, <2>1 DEF Failed, Shortened
<1>4. CASE r # Throw
  <2>1. f.ret = Ok
    BY <1>4, CopiedFacts
  <2>2. Seen(f.rs, m_source, f.src) = VisibleRows
    BY <2>1, CopiedFacts
  <2> QED BY <1>2, <1>4, <2>2 DEF Refused
<1> QED BY <1>3, <1>4

LEMMA PlacedEffect ==
  ASSUME CacheInv, Ready, NEW f, \E n \in Nat : Copied(f, n), f.ret = Ok,
         NEW row \in 1 .. RowCount(f.rs),
         NEW out, Same(Place(f, row), out), GoesOn(out.ret), MadeBy(out)
  PROVE  CacheInv' /\ Ready' /\ ret' = out.ret /\ Place(f, row).ret = Yes /\ Reached(Yes, row)
<1> DEFINE placed == Place(f, row)
<1>1. /\ out.rs = placed.rs /\ out.src = placed.src /\ out.row = placed.row
      /\ out.moved = placed.moved
  BY DEF Same
<1>2. /\ CacheInv' /\ Ready' /\ ret' = out.ret /\ settled' = TRUE
      /\ position' = row /\ VisibleRows' = Seen(f.rs, m_source, f.src)
  <2> HIDE DEF placed
  <2>1. placed = Place(f, row)
    BY DEF placed
  <2> QED BY <1>1, <2>1, Settled
<1>3. Seen(f.rs, m_source, f.src) = VisibleRows /\ RowCount(f.rs) <= Len(VisibleRows)
  BY CopiedFacts
<1>4. row \in 1 .. Len(VisibleRows)
  BY <1>3, CopiedFacts, VisibleFacts, PositionInside
<1>5. placed.ret = Yes
  <2>1. PICK n \in Nat : Copied(f, n)
    OBVIOUS
  <2>2. PICK set : Loaded(f.rs, m_current_row, set, m_source, f.src)
    BY <2>1 DEF Copied
  <2>3. Landed(Place(f, row), f, row, m_source, f.src)
    BY <2>2, PlaceOutcome
  <2> QED BY <2>3 DEF Landed
<1> QED BY <1>2, <1>3, <1>4, <1>5 DEF Reached

\* The answers of setpos(): its assert holds.
LEMMA GoodAnswers ==
  ASSUME CacheInv, Ready, NEW row \in Nat \ {0}, NEW o \in SetposOutcomes(row)
  PROVE  o.ret \in {Yes, No, Throw} /\ GoesOn(o.ret)
<1>1. PICK f \in FetchUpTo(row) :
        o = IF f.ret # Ok THEN Stay(f, f.ret)
            ELSE IF row > RowCount(f.rs) THEN Stay(f, No) ELSE Place(f, row)
  BY DEF SetposOutcomes
<1>2. PICK n \in Nat : Copied(f, n)
  BY FetchUpToCopies
<1>3. PICK set : Loaded(f.rs, m_current_row, set, m_source, f.src)
  BY <1>2 DEF Copied
<1>4. f.ret \in {Ok, Throw} /\ RowCount(f.rs) \in Nat
  BY <1>2, CopiedFacts
<1>5. CASE f.ret # Ok \/ row > RowCount(f.rs)
  <2>1. o = Stay(f, Throw) \/ o = Stay(f, No)
    BY <1>1, <1>4, <1>5
  <2>2. o.ret = Throw \/ o.ret = No
    BY <2>1 DEF Stay
  <2> QED BY <2>2, Fine
<1>6. CASE f.ret = Ok /\ ~(row > RowCount(f.rs))
  <2>1. row \in 1 .. RowCount(f.rs) /\ o = Place(f, row)
    BY <1>1, <1>4, <1>6
  <2>2. Landed(Place(f, row), f, row, m_source, f.src)
    BY <1>3, <2>1, PlaceOutcome
  <2> QED BY <2>1, <2>2, Fine DEF Landed
<1> QED BY <1>5, <1>6

\* setpos(), and with it first() and next().
LEMMA SetposEffect ==
  ASSUME CacheInv, Ready, NEW row \in Nat \ {0}, NEW o \in SetposOutcomes(row),
         NEW out, Same(o, out), GoesOn(out.ret), MadeBy(out)
  PROVE  /\ CacheInv' /\ Ready' /\ ret' = out.ret
         /\ \/ Failed(o.ret)
            \/ Refused(o.ret) /\ row > Len(VisibleRows)
            \/ Reached(o.ret, row)
<1>1. PICK f \in FetchUpTo(row) :
        o = IF f.ret # Ok THEN Stay(f, f.ret)
            ELSE IF row > RowCount(f.rs) THEN Stay(f, No) ELSE Place(f, row)
  BY DEF SetposOutcomes
<1>2. /\ \E n \in Nat : Copied(f, n)
      /\ f.ret = Ok => RowCount(f.rs) >= row \/ Behind(m_source, f.src) = <<>>
  BY FetchUpToCopies
<1>3. f.ret \in {Ok, Throw} /\ RowCount(f.rs) \in Nat
  BY <1>2, CopiedFacts
<1>4. CASE f.ret = Throw
  <2>1. o = Stay(f, Throw) /\ o.ret = Throw
    BY <1>1, <1>4, Fine, OutcomesOfStay
  <2>2. CacheInv' /\ Ready' /\ ret' = out.ret /\ (Failed(Throw) \/ Refused(Throw))
    BY <1>2, <1>4, <2>1, StayedEffect, Fine
  <2> QED BY <2>1, <2>2, Fine DEF Refused
<1>5. CASE f.ret = Ok /\ row > RowCount(f.rs)
  <2>1. o = Stay(f, No) /\ o.ret = No
    BY <1>1, <1>5, OutcomesOfStay
  <2>2. CacheInv' /\ Ready' /\ ret' = out.ret /\ (Failed(No) \/ Refused(No))
    BY <1>2, <1>5, <2>1, StayedEffect, Fine
  <2>3. Len(VisibleRows) = RowCount(f.rs)
    <3>1. ~(RowCount(f.rs) >= row)
      BY <1>3, <1>5
    <3> QED BY <1>2, <1>5, <3>1, CopiedFacts
  <2>4. row > Len(VisibleRows)
    BY <1>5, <2>3
  <2> QED BY <2>1, <2>2, <2>4, Fine DEF Failed
<1>6. CASE f.ret = Ok /\ ~(row > RowCount(f.rs))
  <2>1. o = Place(f, row) /\ row \in 1 .. RowCount(f.rs)
    BY <1>1, <1>3, <1>6
  <2>2. CacheInv' /\ Ready' /\ ret' = out.ret /\ o.ret = Yes /\ Reached(Yes, row)
    BY <1>2, <1>6, <2>1, PlacedEffect
  <2> QED BY <2>2
<1> QED BY <1>3, <1>4, <1>5, <1>6

\* An exception of a loop is one of the source: of its next(), after which it has
\* failed for good, or of a column.
Unfailed == m_source # NoSource /\ src[m_source].failed = FALSE

Told(r, sources) ==
  \/ r = Throw /\ m_source \in Faulty
  \/ r # Throw /\ sources[m_source].failed = FALSE

LEMMA GivenTold ==
  ASSUME SourcesFine(src), NEW s \in Sources, NEW k, NEW fail \in BOOLEAN
  PROVE  Given(s, k, fail)[s].failed = fail
<1> DEFINE e == [src[s] EXCEPT !.pos = src[s].pos + k]
           d == [e EXCEPT !.failed = fail]
<1>1. src \in [Sources -> SourceStates] /\ src[s] \in SourceStates
  BY DEF SourcesFine
<1>2. Given(s, k, fail) = [src EXCEPT ![s] = d]
  BY <1>1 DEF Given
<1>3. DOMAIN e = {"alive", "pos", "failed"}
  BY <1>1 DEF SourceStates
<1> HIDE DEF e
<1>4. d.failed = fail
  BY <1>3
<1> HIDE DEF d
<1> QED BY <1>1, <1>2, <1>4

LEMMA FetchTold ==
  ASSUME CacheInv, Ready, Unfailed, NEW n \in Nat \ {0}, NEW f \in Fetch(n)
  PROVE  Told(f.ret, f.src)
<1> DEFINE s    == m_source
           t    == Remaining(s)
           most == Least(n, Len(t))
           Copies(k) == RsInsertRows(m_rscache, SubSeq(t, 1, k))
<1>1. /\ s \in Sources /\ SourcesFine(src) /\ src[s].alive
      /\ Loaded(m_rscache, m_current_row, settled, s, src)
  BY Conditions DEF CacheInv, Attached, Ready, Unfailed
<1>2. m_rscache.m_count = Width(s) /\ src[s].pos >= 1 /\ src[s].pos \in Nat
  BY <1>1 DEF Loaded, Columnwise, SourcesFine, SourceStates, Unfailed
<1>3. src[s].pos # 0 /\ Accepts(m_rscache, Width(s))
  BY <1>2 DEF Ready, Accepts
<1>4. CASE t = <<>>
  <2>1. f \in Unfetched(Ok)
    BY <1>1, <1>3, <1>4 DEF Fetch
  <2>2. f.src = src /\ f.ret = Ok
    BY <2>1 DEF Unfetched
  <2> QED BY <2>2, Fine DEF Told, Unfailed
<1>5. CASE t # <<>>
  <2>1. \/ f \in Unfetched(Throw) /\ s \in Faulty
        \/ \E c \in Copies(most) : f = Fetched(s, c.rs, most, "none")
        \/ \E k \in 1 .. most : \E c \in Copies(k) : \E thrower \in {"copy", "next"} :
             f = Fetched(s, c.rs, k, thrower) /\ s \in Faulty
    BY <1>1, <1>3, <1>5, FetchOutcomes
  <2> HIDE DEF Copies, most
  <2>2. CASE \E c \in Copies(most) : f = Fetched(s, c.rs, most, "none")
    <3>1. f.ret = Ok /\ f.src = Given(s, most, FALSE)
      <4>1. PICK c \in Copies(most) : f = Fetched(s, c.rs, most, "none")
        BY <2>2
      <4>2. f.ret = Ok /\ f.src = [src EXCEPT ![s].pos = @ + most, ![s].failed = ("none" = "next")]
        BY <4>1 DEF Fetched
      <4>3. ("none" = "next") = FALSE
        OBVIOUS
      <4>4. f.src = [src EXCEPT ![s].pos = @ + most, ![s].failed = FALSE]
        BY <4>2, <4>3
      <4> QED BY <4>2, <4>4 DEF Given
    <3>2. Given(s, most, FALSE)[s].failed = FALSE
      BY <1>1, GivenTold
    <3> QED BY <3>1, <3>2, Fine DEF Told
  <2>3. CASE \E k \in 1 .. most : \E c \in Copies(k) : \E thrower \in {"copy", "next"} :
               f = Fetched(s, c.rs, k, thrower) /\ s \in Faulty
    <3>1. f.ret = Throw /\ s \in Faulty
      BY <2>3 DEF Fetched
    <3> QED BY <3>1 DEF Told
  <2>4. CASE f \in Unfetched(Throw) /\ s \in Faulty
    BY <2>4 DEF Unfetched, Told
  <2> QED BY <2>1, <2>2, <2>3, <2>4
<1> QED BY <1>4, <1>5

LEMMA SetposTold ==
  ASSUME CacheInv, Ready, Unfailed, NEW row \in Nat \ {0}, NEW o \in SetposOutcomes(row)
  PROVE  Told(o.ret, o.src)
<1>1. PICK f \in FetchUpTo(row) :
        o = IF f.ret # Ok THEN Stay(f, f.ret)
            ELSE IF row > RowCount(f.rs) THEN Stay(f, No) ELSE Place(f, row)
  BY DEF SetposOutcomes
<1>2. PICK n \in Nat : Copied(f, n)
  BY FetchUpToCopies
<1>3. PICK set : Loaded(f.rs, m_current_row, set, m_source, f.src)
  BY <1>2 DEF Copied
<1>4. f.ret \in {Ok, Throw} /\ RowCount(f.rs) \in Nat /\ RowCount(m_rscache) \in Nat
  BY <1>2, CopiedFacts, Conditions DEF CacheInv
<1>5. Told(f.ret, f.src)
  <2>1. CASE row <= RowCount(m_rscache)
    <3>1. f.src = src /\ f.ret = Ok
      BY <2>1 DEF FetchUpTo, Unfetched
    <3> QED BY <3>1, Fine DEF Told, Unfailed
  <2>2. CASE ~(row <= RowCount(m_rscache))
    <3> DEFINE k == row - RowCount(m_rscache)
    <3>1. k \in Nat \ {0} /\ f \in Fetch(k)
      BY <1>4, <2>2 DEF FetchUpTo, Unfailed
    <3> HIDE DEF k
    <3> QED BY <3>1, FetchTold
  <2> QED BY <2>1, <2>2
<1>6. CASE f.ret # Ok
  BY <1>1, <1>5, <1>6, OutcomesOfStay
<1>7. CASE f.ret = Ok /\ row > RowCount(f.rs)
  <2>1. o.ret = No /\ o.src = f.src
    BY <1>1, <1>7, OutcomesOfStay
  <2> QED BY <1>5, <1>7, <2>1, Fine DEF Told
<1>8. CASE f.ret = Ok /\ ~(row > RowCount(f.rs))
  <2>1. row \in 1 .. RowCount(f.rs) /\ o = Place(f, row)
    BY <1>1, <1>4, <1>8
  <2>2. Landed(o, f, row, m_source, f.src)
    BY <1>3, <2>1, PlaceOutcome
  <2> QED BY <1>5, <1>8, <2>2, Fine DEF Told, Landed
<1> QED BY <1>6, <1>7, <1>8

-----------------------------------------------------------------------------
(* One lemma per call: it keeps the invariant and is a step of the dataset *)

LEMMA TruncateStep == Failed(ret') => Dataset!Truncate
BY Words DEF Failed, Shortened, position, Dataset!Truncate

LEMMA OtherAnswer ==
  ASSUME NEW row, NEW o \in SetposOutcomes(row), NEW r
  PROVE  Same(o, [o EXCEPT !.ret = r]) /\ [o EXCEPT !.ret = r].ret = r
<1>1. PICK f : o = Stay(f, f.ret) \/ o = Stay(f, No) \/ o = Place(f, row)
  BY DEF SetposOutcomes
<1>2. \A q : Same(Stay(f, q), [Stay(f, q) EXCEPT !.ret = r]) /\ [Stay(f, q) EXCEPT !.ret = r].ret = r
  BY DEF Stay, Same
<1>3. Same(Place(f, row), [Place(f, row) EXCEPT !.ret = r]) /\ [Place(f, row) EXCEPT !.ret = r].ret = r
  <2> DEFINE moved == CHOOSE o_ \in RsSetpos(f.rs, row) : TRUE
             there == [rs |-> moved.rs, src |-> f.src, row |-> row, ret |-> Yes,
                       moved |-> moved.ret = Yes]
  <2>1. Place(f, row) = Stay(f, Abort) \/ Place(f, row) = there
    BY DEF Place
  <2>2. Same(there, [there EXCEPT !.ret = r]) /\ [there EXCEPT !.ret = r].ret = r
    BY DEF Same
  <2> HIDE DEF there
  <2> QED BY <1>2, <2>1, <2>2
<1> QED BY <1>1, <1>2, <1>3

\* What Move does.
LEMMA MoveIs ==
  ASSUME NEW o, NEW outcomes, Move(o, outcomes)
  PROVE  op' = o /\ \E out \in outcomes : MadeBy(out)
BY DEF Move, MadeBy

\* The cache is loaded as before, and an exception was one of the source.
Served ==
  CacheInv' /\ Ready' /\ m_source' = m_source /\ (Unfailed => Told(ret', src'))

\* What the three calls of a row loop do.
LEMMA FirstEffect ==
  ASSUME CacheInv, Ready, first
  PROVE  /\ Served /\ op' = <<"first">>
         /\ \/ Failed(ret')
            \/ ret' = Ok /\ Refused(No) /\ VisibleRows = <<>>
            \/ ret' = Ok /\ Reached(Yes, 1)
<1>1. op' = <<"first">> /\ \E out \in FirstOutcomes : MadeBy(out)
  BY MoveIs DEF first
<1>2. PICK o \in SetposOutcomes(1) : MadeBy([o EXCEPT !.ret = IF @ \in {Yes, No} THEN Ok ELSE @])
  BY <1>1 DEF FirstOutcomes
<1> DEFINE r   == IF o.ret \in {Yes, No} THEN Ok ELSE o.ret
           out == [o EXCEPT !.ret = r]
<1>3. Same(o, out) /\ out.ret = r
  BY OtherAnswer
<1>4. MadeBy(out)
  BY <1>2
<1> HIDE DEF out
<1>5. o.ret \in {Yes, No, Throw} /\ GoesOn(r)
  <2>1. 1 \in Nat \ {0}
    OBVIOUS
  <2> QED BY <2>1, GoodAnswers, Fine
<1>6. /\ CacheInv' /\ Ready' /\ ret' = r
      /\ \/ Failed(o.ret)
         \/ Refused(o.ret) /\ 1 > Len(VisibleRows)
         \/ Reached(o.ret, 1)
  <2>1. 1 \in Nat \ {0}
    OBVIOUS
  <2> QED BY <1>3, <1>4, <1>5, <2>1, SetposEffect
<1>7. Unfailed => Told(ret', src')
  <2>1. 1 \in Nat \ {0}
    OBVIOUS
  <2>2. Unfailed => Told(o.ret, o.src)
    BY <2>1, SetposTold
  <2>3. src' = o.src
    BY <1>3, <1>4 DEF MadeBy, Same
  <2>4. r = Throw <=> o.ret = Throw
    BY <1>5, Fine
  <2> HIDE DEF r
  <2> QED BY <1>6, <2>2, <2>3, <2>4 DEF Told
<1>8. Served
  BY <1>4, <1>6, <1>7 DEF Served, MadeBy
<1>9. CASE Failed(o.ret)
  <2>1. ret' = Throw
    BY <1>6, <1>9, Fine DEF Failed
  <2> QED BY <1>1, <1>8, <1>9, <2>1 DEF Failed
<1>10. CASE Refused(o.ret) /\ 1 > Len(VisibleRows)
  <2>1. VisibleRows = <<>>
    BY <1>10, VisibleFacts, EmptySeq
  <2>2. ret' = Ok /\ Refused(No)
    BY <1>6, <1>10 DEF Refused
  <2> QED BY <1>1, <1>8, <2>1, <2>2
<1>11. CASE Reached(o.ret, 1)
  <2>1. ret' = Ok /\ Reached(Yes, 1)
    BY <1>6, <1>11 DEF Reached
  <2> QED BY <1>1, <1>8, <2>1
<1> QED BY <1>6, <1>9, <1>10, <1>11

LEMMA FirstStep == CacheInv /\ Ready /\ first => CacheInv' /\ Dataset!Step
<1> SUFFICES ASSUME CacheInv, Ready, first PROVE CacheInv' /\ Dataset!Step
  OBVIOUS
<1>1. CacheInv' /\ op' = <<"first">>
  BY FirstEffect DEF Served
<1>2. CASE Failed(ret')
  BY <1>1, <1>2, TruncateStep DEF Dataset!Step
<1>3. CASE ret' = Ok /\ Refused(No) /\ VisibleRows = <<>>
  <2>1. Dataset!First
    BY <1>1, <1>3, Words
    DEF Refused, position, Dataset!First, Dataset!Answer, Dataset!MoveTo
  <2> QED BY <1>1, <2>1 DEF Dataset!Step
<1>4. CASE ret' = Ok /\ Reached(Yes, 1)
  <2>1. VisibleRows # <<>>
    BY <1>4, EmptySeq DEF Reached
  <2>2. Dataset!First
    BY <1>1, <1>4, <2>1, Words DEF Reached, position, Dataset!First, Dataset!MoveTo
  <2> QED BY <1>1, <2>2 DEF Dataset!Step
<1> QED BY <1>2, <1>3, <1>4, FirstEffect

LEMMA NextEffect ==
  ASSUME CacheInv, Ready, Positioned, next
  PROVE  /\ Served /\ op' = <<"next">>
         /\ position \in 1 .. Len(VisibleRows) /\ Len(VisibleRows) \in Nat
         /\ \/ Failed(ret')
            \/ Refused(ret') /\ position = Len(VisibleRows)
            \/ Reached(ret', position + 1) /\ position < Len(VisibleRows)
<1> DEFINE row == m_current_row + 1
<1>1. op' = <<"next">> /\ \E out \in SetposOutcomes(row) : MadeBy(out)
  BY MoveIs DEF next
<1>2. PICK out \in SetposOutcomes(row) : MadeBy(out)
  BY <1>1
<1>3. /\ position = m_current_row /\ row = position + 1
      /\ position \in 0 .. RowCount(m_rscache) /\ RowCount(m_rscache) <= Len(VisibleRows)
      /\ Len(VisibleRows) \in Nat /\ RowCount(m_rscache) \in Nat
  BY PositionInside, VisibleFacts DEF position
<1>4. position >= 1
  BY <1>3, Conditions DEF CacheInv, Placed, Positioned
<1>5. row \in Nat \ {0}
  BY <1>3
<1> HIDE DEF row
<1>6. /\ CacheInv' /\ Ready' /\ ret' = out.ret
      /\ Failed(ret') \/ (Refused(ret') /\ row > Len(VisibleRows)) \/ Reached(ret', row)
  BY <1>2, <1>5, SetposEffect, GoodAnswers DEF Same
<1>7. Unfailed => Told(ret', src')
  BY <1>2, <1>5, <1>6, SetposTold DEF MadeBy
<1>8. Served
  BY <1>2, <1>6, <1>7 DEF Served, MadeBy
<1>9. position \in 1 .. Len(VisibleRows)
  BY <1>3, <1>4
<1>10. row > Len(VisibleRows) => position = Len(VisibleRows)
  BY <1>3
<1>11. Reached(ret', row) => Reached(ret', position + 1) /\ position < Len(VisibleRows)
  BY <1>3 DEF Reached
<1> QED BY <1>1, <1>3, <1>6, <1>8, <1>9, <1>10, <1>11

LEMMA NextStep == CacheInv /\ Ready /\ Positioned /\ next => CacheInv' /\ Dataset!Step
<1> SUFFICES ASSUME CacheInv, Ready, Positioned, next PROVE CacheInv' /\ Dataset!Step
  OBVIOUS
<1>1. CacheInv' /\ op' = <<"next">>
  BY NextEffect DEF Served
<1>2. CASE Failed(ret')
  BY <1>1, <1>2, TruncateStep DEF Dataset!Step
<1>3. CASE Refused(ret') /\ position = Len(VisibleRows)
  <2>1. Dataset!Next
    BY <1>1, <1>3, Words DEF Refused, position, Dataset!Next, Dataset!MoveTo
  <2> QED BY <1>1, <2>1 DEF Dataset!Step
<1>4. CASE Reached(ret', position + 1) /\ position < Len(VisibleRows)
  <2>1. Dataset!Next
    BY <1>1, <1>4, Words DEF Reached, position, Dataset!Next, Dataset!MoveTo
  <2> QED BY <1>1, <2>1 DEF Dataset!Step
<1> QED BY <1>2, <1>3, <1>4, NextEffect

LEMMA SetposStep ==
  ASSUME CacheInv, Ready, NEW row \in RowNumbers, row >= 1, setpos(row)
  PROVE  CacheInv' /\ Dataset!Step
<1>1. op' = <<"setpos", row>> /\ \E out \in SetposOutcomes(row) : MadeBy(out)
  BY MoveIs DEF setpos
<1>2. PICK out \in SetposOutcomes(row) : MadeBy(out)
  BY <1>1
<1>3. row \in Nat \ {0}
  BY RowNumbersAssumption
<1>4. /\ CacheInv' /\ ret' = out.ret
      /\ Failed(ret') \/ (Refused(ret') /\ row > Len(VisibleRows)) \/ Reached(ret', row)
  BY <1>2, <1>3, SetposEffect, GoodAnswers DEF Same
<1>5. CASE Failed(ret')
  BY <1>4, <1>5, TruncateStep DEF Dataset!Step
<1>6. CASE Refused(ret') /\ row > Len(VisibleRows)
  <2>1. row \notin 1 .. Len(VisibleRows)
    BY <1>3, <1>6, VisibleFacts, PositionInside
  <2>2. Dataset!Setpos(row)
    BY <1>1, <1>6, <2>1, Words
    DEF Refused, position, Dataset!Setpos, Dataset!Answer, Dataset!MoveTo
  <2> QED BY <1>4, <2>2 DEF Dataset!Step
<1>7. CASE Reached(ret', row)
  <2>1. Dataset!Setpos(row)
    BY <1>1, <1>7, Words DEF Reached, position, Dataset!Setpos, Dataset!MoveTo
  <2> QED BY <1>4, <2>1 DEF Dataset!Step
<1> QED BY <1>4, <1>5, <1>6, <1>7

\* A move over the rows that are cached already.
LEMMA CachedFacts ==
  ASSUME CacheInv, Ready, NEW f \in Unfetched(Ok)
  PROVE  /\ f.rs = m_rscache /\ f.src = src /\ f.ret = Ok
         /\ \E n \in Nat : Copied(f, n)
<1>1. f.rs = m_rscache /\ f.src = src /\ f.ret = Ok
  BY DEF Unfetched
<1>2. Copied(f, 0)
  BY <1>1, NothingCopied
<1> QED BY <1>1, <1>2

LEMMA PrevStep == CacheInv /\ Ready /\ Positioned /\ prev => CacheInv' /\ Dataset!Step
<1> SUFFICES ASSUME CacheInv, Ready, Positioned, prev PROVE CacheInv' /\ Dataset!Step
  OBVIOUS
<1>1. op' = <<"prev">> /\ \E out \in PrevOutcomes : MadeBy(out)
  BY MoveIs DEF prev
<1>2. PICK out \in PrevOutcomes : MadeBy(out)
  BY <1>1
<1>3. PICK f \in Unfetched(Ok) :
        out = IF m_current_row > 1 THEN Place(f, m_current_row - 1) ELSE Stay(f, No)
  BY <1>2 DEF PrevOutcomes
<1>4. f.rs = m_rscache /\ f.src = src /\ f.ret = Ok /\ \E n \in Nat : Copied(f, n)
  BY CachedFacts
<1>5. /\ position = m_current_row /\ position \in 0 .. RowCount(m_rscache)
      /\ RowCount(m_rscache) <= Len(VisibleRows)
      /\ Len(VisibleRows) \in Nat /\ RowCount(m_rscache) \in Nat
  BY PositionInside, VisibleFacts DEF position
<1>6. position >= 1
  BY <1>5, Conditions DEF CacheInv, Placed, Positioned
<1>7. CASE m_current_row > 1
  <2>1. m_current_row - 1 \in 1 .. RowCount(f.rs) /\ out = Place(f, m_current_row - 1)
    BY <1>3, <1>4, <1>5, <1>7
  <2>2. PICK row \in 1 .. RowCount(f.rs) : row = m_current_row - 1
    BY <2>1
  <2>3. Place(f, row).ret = Yes
    <3>1. PICK n \in Nat : Copied(f, n)
      BY <1>4
    <3>2. PICK set : Loaded(f.rs, m_current_row, set, m_source, f.src)
      BY <3>1 DEF Copied
    <3>3. Landed(Place(f, row), f, row, m_source, f.src)
      BY <3>2, PlaceOutcome
    <3> QED BY <3>3 DEF Landed
  <2>4. Same(Place(f, row), out) /\ GoesOn(out.ret)
    BY <2>1, <2>2, <2>3, Fine DEF Same
  <2>5. CacheInv' /\ ret' = out.ret /\ Reached(Yes, row)
    BY <1>2, <1>4, <2>4, PlacedEffect
  <2>6. ret' = Yes
    BY <2>1, <2>2, <2>3, <2>5
  <2>7. position \in 1 .. Len(VisibleRows) /\ position > 1 /\ row = position - 1
    BY <1>5, <1>6, <1>7, <2>2
  <2>8. Dataset!Prev
    BY <1>1, <2>5, <2>6, <2>7, Words
    DEF Reached, position, Dataset!Prev, Dataset!OnRow, Dataset!MoveTo
  <2> QED BY <2>5, <2>8 DEF Dataset!Step
<1>8. CASE ~(m_current_row > 1)
  <2>1. out = Stay(f, No)
    BY <1>3, <1>8
  <2>2. out.rs = f.rs /\ out.src = f.src /\ out.row = m_current_row /\ out.ret = No /\ out.moved = FALSE
    BY <2>1 DEF Stay
  <2>3. CacheInv' /\ ret' = No /\ position' = position /\ VisibleRows' = Seen(f.rs, m_source, f.src)
    BY <1>2, <1>4, <2>2, Stayed, Fine
  <2>4. VisibleRows' = VisibleRows
    BY <1>4, <2>3, VisibleFacts
  <2>5. position = 1 /\ position \in 1 .. Len(VisibleRows)
    BY <1>5, <1>6, <1>8
  <2>6. Dataset!Prev
    BY <1>1, <2>3, <2>4, <2>5, Words
    DEF position, Dataset!Prev, Dataset!OnRow, Dataset!Answer, Dataset!MoveTo
  <2> QED BY <2>3, <2>6 DEF Dataset!Step
<1> QED BY <1>7, <1>8

LEMMA LastStep == CacheInv /\ Ready /\ last => CacheInv' /\ Dataset!Step
<1> SUFFICES ASSUME CacheInv, Ready, last PROVE CacheInv' /\ Dataset!Step
  OBVIOUS
<1>1. op' = <<"last">> /\ \E out \in LastOutcomes : MadeBy(out)
  BY MoveIs DEF last
<1>2. PICK out \in LastOutcomes : MadeBy(out)
  BY <1>1
<1>3. PICK f \in FetchRest :
        out = IF f.ret # Ok THEN Stay(f, f.ret)
              ELSE IF RowCount(f.rs) = 0 THEN Stay(f, No) ELSE Place(f, RowCount(f.rs))
  BY <1>2 DEF LastOutcomes
<1>4. /\ \E n \in Nat : Copied(f, n)
      /\ f.ret = Ok => Behind(m_source, f.src) = <<>>
  BY FetchRestCopies
<1>5. /\ f.ret \in {Ok, Throw} /\ RowCount(f.rs) \in Nat
      /\ f.ret = Ok => Len(VisibleRows) = RowCount(f.rs)
  BY <1>4, CopiedFacts
<1>6. CASE f.ret = Throw
  <2>1. out = Stay(f, Throw)
    BY <1>3, <1>6, Fine
  <2>2. Same(Stay(f, Throw), out) /\ GoesOn(out.ret) /\ out.ret = Throw
    BY <2>1, Fine DEF Same, Stay
  <2>3. CacheInv' /\ ret' = out.ret /\ (Failed(Throw) \/ Refused(Throw))
    BY <1>2, <1>4, <1>6, <2>2, StayedEffect, Fine
  <2>4. Failed(ret')
    BY <2>2, <2>3, Fine DEF Refused
  <2> QED BY <2>3, <2>4, TruncateStep DEF Dataset!Step
<1>7. CASE f.ret = Ok /\ RowCount(f.rs) = 0
  <2>1. out = Stay(f, No)
    BY <1>3, <1>7
  <2>2. Same(Stay(f, No), out) /\ GoesOn(out.ret) /\ out.ret = No
    BY <2>1, Fine DEF Same, Stay
  <2>3. CacheInv' /\ ret' = out.ret /\ (Failed(No) \/ Refused(No))
    BY <1>2, <1>4, <1>7, <2>2, StayedEffect, Fine
  <2>4. Refused(ret')
    BY <2>2, <2>3, Fine DEF Failed
  <2>5. VisibleRows = <<>>
    BY <1>5, <1>7, VisibleFacts, EmptySeq
  <2>6. Dataset!Last
    BY <1>1, <2>4, <2>5, Words DEF Refused, position, Dataset!Last, Dataset!Answer, Dataset!MoveTo
  <2> QED BY <2>3, <2>6 DEF Dataset!Step
<1>8. CASE f.ret = Ok /\ RowCount(f.rs) # 0
  <2>1. PICK row \in 1 .. RowCount(f.rs) : row = RowCount(f.rs)
    BY <1>5, <1>8
  <2>2. out = Place(f, row)
    BY <1>3, <1>8, <2>1
  <2>3. Place(f, row).ret = Yes
    <3>1. PICK n \in Nat : Copied(f, n)
      BY <1>4
    <3>2. PICK set : Loaded(f.rs, m_current_row, set, m_source, f.src)
      BY <3>1 DEF Copied
    <3>3. Landed(Place(f, row), f, row, m_source, f.src)
      BY <3>2, PlaceOutcome
    <3> QED BY <3>3 DEF Landed
  <2>4. Same(Place(f, row), out) /\ GoesOn(out.ret)
    BY <2>2, <2>3, Fine DEF Same
  <2>5. CacheInv' /\ ret' = out.ret /\ Reached(Yes, row)
    BY <1>2, <1>4, <1>8, <2>4, PlacedEffect
  <2>6. ret' = Yes
    BY <2>2, <2>3, <2>5
  <2>7. VisibleRows # <<>> /\ row = Len(VisibleRows)
    BY <1>5, <1>8, <2>1, EmptySeq
  <2>8. Dataset!Last
    BY <1>1, <2>5, <2>6, <2>7, Words DEF Reached, position, Dataset!Last, Dataset!MoveTo
  <2> QED BY <2>5, <2>8 DEF Dataset!Step
<1> QED BY <1>5, <1>6, <1>7, <1>8

\* The two calls that copy rows only.
LEMMA CopyEffect ==
  ASSUME CacheInv, Ready, NEW fetched, NEW o,
         \A f \in fetched : \E n \in Nat : Copied(f, n),
         Unfailed => \A f \in fetched : Told(f.ret, f.src),
         Copy(o, fetched)
  PROVE  /\ Served /\ op' = o
         /\ Failed(ret') \/ (ret' = Ok /\ position' = position /\ VisibleRows' = VisibleRows)
<1>1. op' = o /\ \E out \in {Stay(f, f.ret) : f \in fetched} : MadeBy(out)
  BY MoveIs DEF Copy
<1>2. PICK f \in fetched : MadeBy(Stay(f, f.ret))
  BY <1>1
<1>3. \E n \in Nat : Copied(f, n)
  OBVIOUS
<1>4. f.ret \in {Ok, Throw} /\ GoesOn(f.ret)
  BY <1>3, CopiedFacts, Fine
<1> DEFINE out == Stay(f, f.ret)
<1>5. out.rs = f.rs /\ out.src = f.src /\ out.row = m_current_row /\ out.ret = f.ret /\ out.moved = FALSE
  BY DEF Stay
<1>6. MadeBy(out)
  BY <1>2
<1> HIDE DEF out
<1>7. /\ CacheInv' /\ Ready' /\ ret' = f.ret
      /\ position' = position /\ VisibleRows' = Seen(f.rs, m_source, f.src)
  BY <1>3, <1>4, <1>5, <1>6, Stayed
<1>8. Served
  BY <1>5, <1>6, <1>7 DEF Served, MadeBy
<1>9. CASE f.ret = Ok
  <2>1. VisibleRows' = VisibleRows
    BY <1>3, <1>7, <1>9, CopiedFacts
  <2> QED BY <1>1, <1>7, <1>8, <1>9, <2>1
<1>10. CASE f.ret = Throw
  <2>1. Failed(ret')
    BY <1>3, <1>7, <1>10, CopiedFacts DEF Failed, Shortened
  <2> QED BY <1>1, <1>8, <2>1
<1> QED BY <1>4, <1>9, <1>10

LEMMA CopyStep ==
  ASSUME Served, op' \in {<<"fetchMore">>, <<"fetchAll">>},
         Failed(ret') \/ (ret' = Ok /\ position' = position /\ VisibleRows' = VisibleRows)
  PROVE  CacheInv' /\ Dataset!Step
<1>1. CASE Failed(ret')
  BY <1>1, TruncateStep DEF Served, Dataset!Step
<1>2. CASE ret' = Ok /\ position' = position /\ VisibleRows' = VisibleRows
  <2>1. Dataset!Ask
    BY <1>2 DEF position, Dataset!Ask
  <2> QED BY <2>1 DEF Served, Dataset!Step
<1> QED BY <1>1, <1>2

LEMMA FetchMoreEffect ==
  ASSUME CacheInv, Ready, fetchMore
  PROVE  /\ Served /\ op' = <<"fetchMore">>
         /\ Failed(ret') \/ (ret' = Ok /\ position' = position /\ VisibleRows' = VisibleRows)
<1> DEFINE fetched == IF m_source = NoSource THEN Unfetched(Ok) ELSE Fetch(RowsetSize)
<1>1. Copy(<<"fetchMore">>, fetched)
  BY DEF fetchMore
<1>2. ASSUME NEW f \in fetched PROVE \E n \in Nat : Copied(f, n)
  BY CachedFacts, FetchCopies, RowsetSizeAssumption
<1>3. ASSUME Unfailed, NEW f \in fetched PROVE Told(f.ret, f.src)
  BY <1>3, FetchTold, RowsetSizeAssumption DEF Unfailed
<1> HIDE DEF fetched
<1> QED BY <1>1, <1>2, <1>3, CopyEffect

LEMMA FetchMoreStep == CacheInv /\ Ready /\ fetchMore => CacheInv' /\ Dataset!Step
BY FetchMoreEffect, CopyStep

LEMMA FetchAllStep == CacheInv /\ Ready /\ fetchAll => CacheInv' /\ Dataset!Step
<1> SUFFICES ASSUME CacheInv, Ready, fetchAll PROVE CacheInv' /\ Dataset!Step
  OBVIOUS
<1> DEFINE fetched == IF m_source = NoSource THEN Unfetched(Throw) ELSE FetchRest
<1>1. Copy(<<"fetchAll">>, fetched)
  BY DEF fetchAll
<1>2. ASSUME NEW f \in fetched PROVE \E n \in Nat : Copied(f, n)
  <2>1. CASE m_source = NoSource
    <3>1. f.rs = m_rscache /\ f.src = src /\ f.ret = Throw
      BY <2>1 DEF Unfetched
    <3>2. Copied(f, 0)
      BY <3>1, NothingCopied
    <3> QED BY <3>2
  <2>2. CASE m_source # NoSource
    BY <2>2, FetchRestCopies
  <2> QED BY <2>1, <2>2
<1>3. ASSUME Unfailed, NEW f \in fetched PROVE Told(f.ret, f.src)
  <2>1. f \in Fetch(All)
    BY <1>3 DEF FetchRest, Unfailed
  <2>2. All \in Nat \ {0}
    <3>1. Remaining(m_source) = Left(src, m_source) /\ m_source \in Sources /\ SourcesFine(src)
      BY <1>3 DEF Remaining, Left, Unfailed, CacheInv, Attached
    <3> QED BY <3>1, LeftFacts DEF All
  <2> HIDE DEF fetched
  <2> QED BY <1>3, <2>1, <2>2, FetchTold
<1> HIDE DEF fetched
<1> QED BY <1>1, <1>2, <1>3, CopyEffect, CopyStep

\* The calls that change nothing.
LEMMA AnswerEffect ==
  ASSUME CacheInv, NEW o, NEW r, GoesOn(r), Answer(o, r)
  PROVE  /\ CacheInv' /\ op' = o /\ ret' = r
         /\ position' = position /\ VisibleRows' = VisibleRows
<1>1. /\ op' = o /\ ret' = r /\ m_source' = m_source /\ m_rscache' = m_rscache
      /\ m_current_row' = m_current_row /\ src' = src /\ settled' = settled
  BY DEF Answer, cache
<1>2. CacheInv'
  BY <1>1 DEF CacheInv, Running
<1>3. position' = position
  BY <1>1, Positions
<1>4. VisibleRows' = VisibleRows
  BY <1>1, SeenIsVisible
<1> QED BY <1>1, <1>2, <1>3, <1>4

LEMMA QuestionStep ==
  ASSUME CacheInv, NEW o \in {<<"moreAvail">>, <<"columnID">>}, NEW r, GoesOn(r), Answer(o, r)
  PROVE  CacheInv' /\ Dataset!Step
<1>1. CacheInv' /\ op' = o /\ position' = position /\ VisibleRows' = VisibleRows
  BY AnswerEffect
<1>2. Dataset!Ask
  BY <1>1 DEF position, Dataset!Ask
<1> QED BY <1>1, <1>2 DEF Dataset!Step

LEMMA MoreAvailStep == CacheInv /\ Ready /\ moreAvail => CacheInv' /\ Dataset!Step
<1> SUFFICES ASSUME CacheInv, Ready, moreAvail PROVE CacheInv' /\ Dataset!Step
  OBVIOUS
<1> DEFINE r == IF m_source = NoSource THEN No
                ELSE IF ~src[m_source].alive THEN Undefined
                ELSE IF src[m_source].pos = 0 THEN Throw
                ELSE Bool(Remaining(m_source) # <<>>)
<1>1. Answer(<<"moreAvail">>, r)
  BY DEF moreAvail
<1>2. m_source = NoSource \/ src[m_source].alive
  BY DEF CacheInv, Attached
<1>3. GoesOn(r)
  BY <1>2, Fine DEF Bool
<1> HIDE DEF r
<1> QED BY <1>1, <1>3, QuestionStep

LEMMA ColumnIDStep ==
  ASSUME CacheInv, NEW name, columnID(name)
  PROVE  CacheInv' /\ Dataset!Step
<1>1. PICK o \in RsColumnID(m_rscache, name) : Answer(<<"columnID">>, o.ret)
  BY DEF columnID, Ask
<1>2. GoesOn(o.ret)
  BY Fine DEF RsColumnID, Only, Outcome
<1> QED BY <1>1, <1>2, QuestionStep

\* A cache never stands at an end.
LEMMA EofStep == CacheInv /\ Positioned /\ eof => CacheInv' /\ Dataset!Step
<1> SUFFICES ASSUME CacheInv, Positioned, eof PROVE CacheInv' /\ Dataset!Step
  OBVIOUS
<1>1. PICK o \in RsEof(m_rscache) : Answer(<<"eof">>, o.ret)
  BY DEF eof, Ask
<1>2. ~IsEof(m_rscache) /\ IsOpen(m_rscache) /\ m_current_row \in 1 .. RowCount(m_rscache)
  BY Conditions DEF CacheInv, Positioned, Loaded, Placed
<1>3. o.ret = No
  BY <1>2 DEF RsEof, Positioned, Only, Outcome, Bool
<1>4. CacheInv' /\ op' = <<"eof">> /\ ret' = No /\ position' = position /\ VisibleRows' = VisibleRows
  BY <1>1, <1>3, AnswerEffect, Fine
<1>5. position # 0 /\ position # Len(VisibleRows) + 1
  <2>1. Ready
    BY <1>2, Conditions DEF CacheInv, Positioned, Ready, Loaded, Columnwise
  <2>2. /\ Len(VisibleRows) = RowCount(m_rscache) + Len(Behind(m_source, src))
        /\ Len(Behind(m_source, src)) \in Nat
    BY <2>1, VisibleFacts
  <2>3. RowCount(m_rscache) \in Nat /\ position = m_current_row
    BY PositionInside DEF position
  <2> QED BY <1>2, <2>2, <2>3
<1>6. Dataset!Eof
  BY <1>4, <1>5, Words DEF position, Dataset!Eof, Dataset!Answer, Dataset!MoveTo, Dataset!End, Bool
<1> QED BY <1>4, <1>6 DEF Dataset!Step

\* The column of a settled position.
LEMMA SettledColumn ==
  ASSUME CacheInv, Positioned, settled, NEW num \in Nat \ {0}, NEW o \in RsColumn(m_rscache, num)
  PROVE  LET row == VisibleRows[position]
         IN  /\ position = m_current_row /\ position \in 1 .. Len(VisibleRows)
             /\ Len(row) = m_rscache.m_count /\ Len(row) \in Nat /\ DOMAIN row = 1 .. Len(row)
             /\ o.ret = IF num > Len(row) THEN Throw ELSE Value(row[num])
<1> DEFINE row == m_rscache.m_records[m_current_row]
<1>1. /\ m_current_row \in 1 .. RowCount(m_rscache) /\ m_rscache.m_cursor = m_current_row - 1
      /\ m_rscache.m_records \in Seq(AllRows) /\ ~IsEof(m_rscache) /\ RowCount(m_rscache) \in Nat
      /\ Loaded(m_rscache, m_current_row, settled, m_source, src)
  BY Conditions DEF CacheInv, Positioned, Placed
<1>2. /\ row \in AllRows /\ m_rscache.m_cursor \in 0 .. RowCount(m_rscache) - 1
      /\ m_rscache.m_cursor + 1 = m_current_row
  BY <1>1 DEF RowCount
<1>3. /\ Len(row) \in Nat /\ DOMAIN row = 1 .. Len(row)
      /\ Len(row) = m_rscache.m_count
  BY <1>1, <1>2, RowFacts DEF Loaded, Columnwise
<1>4. Ready
  BY <1>1 DEF Ready, Loaded, Columnwise
<1>5. position = m_current_row /\ VisibleRows[m_current_row] = row
  BY <1>1, <1>4, VisibleFacts DEF position
<1>6. m_current_row \in 1 .. Len(VisibleRows)
  BY <1>1, <1>4, VisibleFacts
<1>7. o.ret = IF num > Len(row) THEN Throw ELSE Value(row[num])
  BY <1>1, <1>2 DEF RsColumn, Positioned, Only, Outcome
<1> HIDE DEF row
<1> QED BY <1>3, <1>5, <1>6, <1>7

LEMMA ColumnStep ==
  ASSUME CacheInv, Ready, settled \/ ~Positioned, NEW num \in Columns, column(num)
  PROVE  CacheInv' /\ Dataset!Step
<1>1. PICK o \in RsColumn(m_rscache, num) : Answer(<<"column", num>>, o.ret)
  BY DEF column, Ask
<1>2. num \in Nat \ {0}
  BY DEF Columns
<1>4. CASE ~Positioned
  <2>1. o.ret = Throw
    BY <1>4 DEF RsColumn, Positioned, Only, Outcome
  <2>2. /\ CacheInv' /\ op' = <<"column", num>> /\ ret' = Throw
        /\ position' = position /\ VisibleRows' = VisibleRows
    BY <1>1, <2>1, AnswerEffect, Fine
  <2>3. position = 0 /\ 0 \notin 1 .. Len(VisibleRows)
    BY <1>4 DEF position
  <2>4. Dataset!Column(num)
    BY <2>2, <2>3, Words DEF position, Dataset!Column, Dataset!OnRow, Dataset!Answer, Dataset!MoveTo
  <2> QED BY <2>2, <2>4 DEF Dataset!Step
<1>5. CASE Positioned
  <2> DEFINE row == VisibleRows[position]
  <2>1. /\ position \in 1 .. Len(VisibleRows) /\ DOMAIN row = 1 .. Len(row) /\ Len(row) \in Nat
        /\ o.ret = IF num > Len(row) THEN Throw ELSE Value(row[num])
    BY <1>2, <1>5, SettledColumn
  <2>2. row = VisibleRows[position]
    OBVIOUS
  <2> HIDE DEF row
  <2>3. GoesOn(o.ret)
    BY <2>1, Fine
  <2>4. /\ CacheInv' /\ op' = <<"column", num>> /\ ret' = o.ret
        /\ position' = position /\ VisibleRows' = VisibleRows
    BY <1>1, <2>3, AnswerEffect
  <2>5. num \in DOMAIN row <=> ~(num > Len(row))
    BY <1>2, <2>1
  <2>6. Dataset!Column(num)
    BY <2>1, <2>2, <2>4, <2>5, Words
    DEF position, Dataset!Column, Dataset!OnRow, Dataset!Answer, Dataset!MoveTo
  <2> QED BY <2>4, <2>6 DEF Dataset!Step
<1> QED BY <1>4, <1>5

-----------------------------------------------------------------------------
(* The life of the cache                                                   *)

LEMMA AttachStep ==
  ASSUME CacheInv, ~IsOpen(m_rscache), NEW s \in Sources, Width(s) > 0, attach(s)
  PROVE  CacheInv' /\ Dataset!Step
<1>1. /\ src[s].alive /\ m_source' = s /\ op' = <<"attach">> /\ ret' = Ok
      /\ m_rscache' = m_rscache /\ m_current_row' = m_current_row /\ src' = src /\ settled' = settled
  BY DEF attach
<1>2. m_rscache = RecordSetInit
  BY Conditions DEF CacheInv
<1>3. CacheInv'
  BY <1>1, <1>2, Fine DEF CacheInv, Running, Attached, Condition
<1>4. VisibleRows' = VisibleRows /\ position' = position
  BY <1>1, SeenIsVisible, Positions
<1>5. Dataset!Ask
  BY <1>1, <1>4 DEF position, Dataset!Ask
<1> QED BY <1>3, <1>5 DEF Dataset!Step

LEMMA DetachStep == CacheInv /\ Ready /\ detach => CacheInv' /\ Dataset!Step
<1> SUFFICES ASSUME CacheInv, Ready, detach PROVE CacheInv' /\ Dataset!Step
  OBVIOUS
<1>1. /\ m_source' = NoSource /\ op' = <<"detach">> /\ ret' = Ok
      /\ m_rscache' = m_rscache /\ m_current_row' = m_current_row /\ src' = src /\ settled' = settled
  BY DEF detach
<1>2. /\ Loaded(m_rscache, m_current_row, settled, m_source, src)
      /\ m_rscache.m_records \in Seq(AllRows) /\ RowCount(m_rscache) \in Nat
  BY Conditions DEF CacheInv, Ready
<1>3. Loaded(m_rscache, m_current_row, settled, NoSource, src)
  BY <1>2 DEF Loaded, Columnwise
<1>4. CacheInv'
  BY <1>1, <1>3, Fine DEF CacheInv, Running, Attached, Condition
<1>5. position' = position
  BY <1>1, Positions
<1>6. VisibleRows' = m_rscache.m_records
  <2>1. VisibleRows' = m_rscache.m_records \o <<>>
    BY <1>1, SeenIsVisible DEF Ready, Seen, Behind
  <2> QED BY <1>2, <2>1, ConcatEmptySeq
<1>7. m_rscache.m_records = SubSeq(VisibleRows, 1, RowCount(m_rscache))
  <2>1. VisibleRows = m_rscache.m_records \o Behind(m_source, src)
    BY VisibleFacts DEF Seen
  <2>2. Behind(m_source, src) \in Seq(AllRows) /\ Len(Behind(m_source, src)) \in Nat
    BY BehindFacts DEF CacheInv, Attached
  <2> DEFINE left == Behind(m_source, src)
  <2>3. 0 \in 0 .. Len(left)
    BY <2>2
  <2>4. /\ m_rscache.m_records \o SubSeq(left, 1, 0)
              = SubSeq(m_rscache.m_records \o left, 1, Len(m_rscache.m_records) + 0)
    BY <1>2, <2>2, <2>3, Beginning
  <2>5. SubSeq(left, 1, 0) = <<>>
    BY SubSeqEmpty
  <2>6. m_rscache.m_records \o <<>> = m_rscache.m_records
    BY <1>2, ConcatEmptySeq
  <2>7. Len(m_rscache.m_records) + 0 = RowCount(m_rscache)
    BY <1>2 DEF RowCount
  <2> QED BY <2>1, <2>4, <2>5, <2>6, <2>7
<1>8. RowCount(m_rscache) \in position .. Len(VisibleRows)
  BY <1>2, PositionInside, VisibleFacts
<1>9. Dataset!Truncate
  BY <1>1, <1>5, <1>6, <1>7, <1>8, Words DEF position, Dataset!Truncate
<1> QED BY <1>4, <1>9 DEF Dataset!Step

\* A RecordSet after its reset() is a new one.
LEMMA Emptied ==
  ASSUME NEW rs \in Caches
  PROVE  \A o \in RsReset(rs) : o.rs = RecordSetInit
<1> DEFINE a == [rs EXCEPT !.m_records = <<>>]
           b == [a EXCEPT !.m_cursorstate = CLOSED]
           c == [b EXCEPT !.m_cursor = Dangling]
           d == [c EXCEPT !.m_count = 0]
           e == [d EXCEPT !.m_column_descriptors = <<>>]
<1>1. \A o \in RsReset(rs) : o.rs = e
  <2>1. RsClear(rs) = {Outcome(c, Ok)}
    BY DEF RsClear, Only
  <2>2. RsReset(rs) = {Outcome(e, Ok)}
    <3>1. Outcome(c, Ok).rs = c /\ Outcome(c, Ok).ret = Ok
      BY DEF Outcome
    <3> HIDE DEF c
    <3>2. RsReset(rs) = {Outcome([o.rs EXCEPT !.m_count = 0, !.m_column_descriptors = <<>>], o.ret) :
                           o \in {Outcome(c, Ok)}}
      BY <2>1 DEF RsReset
    <3>3. e = [Outcome(c, Ok).rs EXCEPT !.m_count = 0, !.m_column_descriptors = <<>>]
      BY <3>1
    <3> HIDE DEF e
    <3> QED BY <3>1, <3>2, <3>3
  <2> HIDE DEF e
  <2> QED BY <2>2 DEF Outcome
<1>2. a \in Caches /\ a.m_records = <<>>
  BY EmptySeq DEF Caches
<1> HIDE DEF a
<1>3. b \in Caches /\ b.m_records = <<>> /\ b.m_cursorstate = CLOSED
  BY <1>2 DEF Caches
<1> HIDE DEF b
<1>4. c \in Caches /\ c.m_records = <<>> /\ c.m_cursorstate = CLOSED /\ c.m_cursor = Dangling
  BY <1>3 DEF Caches
<1> HIDE DEF c
<1>5. /\ d \in Caches /\ d.m_records = <<>> /\ d.m_cursorstate = CLOSED /\ d.m_cursor = Dangling
      /\ d.m_count = 0
  BY <1>4 DEF Caches
<1> HIDE DEF d
<1>6. /\ e \in Caches /\ e.m_records = <<>> /\ e.m_cursorstate = CLOSED /\ e.m_cursor = Dangling
      /\ e.m_count = 0 /\ e.m_column_descriptors = <<>>
  BY <1>5 DEF Caches, AllNames
<1> HIDE DEF e
<1>7. e = RecordSetInit
  BY <1>6 DEF Caches, RecordSetInit
<1> QED BY <1>1, <1>7

LEMMA CloseStep == CacheInv /\ close => CacheInv' /\ Dataset!Step
<1> SUFFICES ASSUME CacheInv, close PROVE CacheInv' /\ Dataset!Step
  OBVIOUS
<1>1. /\ m_source' = NoSource /\ op' = <<"close">> /\ ret' = Ok
      /\ m_current_row' = m_current_row /\ src' = src /\ settled' = settled
      /\ \E o \in RsReset(m_rscache) : m_rscache' = o.rs
  BY DEF close
<1>2. m_rscache' = RecordSetInit
  BY <1>1, Emptied, Conditions DEF CacheInv
<1>3. CacheInv'
  BY <1>1, <1>2, Fine DEF CacheInv, Running, Attached, Condition
<1>4. VisibleRows' = <<>> /\ position' = 0
  BY <1>2, InitFacts, SeenIsVisible, Positions DEF Pos
<1>5. Dataset!Clear
  BY <1>1, <1>4, Words DEF position, Dataset!Clear
<1> QED BY <1>3, <1>5 DEF Dataset!Step

\* A cache with the columns of its source is loaded, with no row yet.
LEMMA LoadedByOpen ==
  ASSUME NEW s \in Sources, Width(s) > 0, NEW sources, sources[s].pos >= 1, NEW row, NEW set
  PROVE  LET q == WithMetadata(Opening, s)
         IN  /\ Loaded(q, row, set, s, sources)
             /\ q.m_records = <<>> /\ IsOpen(q) /\ ~IsPositioned(q)
<1> DEFINE q == WithMetadata(Opening, s)
           e == [Opening EXCEPT !.m_count = Width(s)]
<1>1. Width(s) \in Nat /\ SourceNames[s] \in AllNames
  BY SourceFacts
<1>2. q = [e EXCEPT !.m_column_descriptors = SourceNames[s]]
  BY DEF WithMetadata
<1>3. /\ e \in Caches /\ e.m_records = Opening.m_records /\ e.m_count = Width(s)
      /\ e.m_cursorstate = Opening.m_cursorstate
  BY <1>1, OpeningFacts DEF Caches
<1> HIDE DEF e, q
<1>4. /\ q \in Caches /\ q.m_records = Opening.m_records /\ q.m_count = Width(s)
      /\ q.m_cursorstate = Opening.m_cursorstate /\ q.m_column_descriptors = SourceNames[s]
  BY <1>1, <1>2, <1>3 DEF Caches
<1>5. IsOpen(q) /\ ~IsPositioned(q) /\ q.m_records = <<>>
  BY <1>4, OpeningFacts DEF IsOpen, IsPositioned
<1>6. RowCount(q) = 0
  BY <1>5, EmptySeq DEF RowCount
<1>7. Columnwise(q, s, sources)
  BY <1>4, <1>6 DEF Columnwise
<1> QED BY <1>4, <1>5, <1>7 DEF Loaded, q

LEMMA OpenStep ==
  CacheInv /\ ~IsOpen(m_rscache) /\ m_source # NoSource /\ open => CacheInv' /\ Dataset!Step
<1> SUFFICES ASSUME CacheInv, ~IsOpen(m_rscache), m_source # NoSource, open
             PROVE CacheInv' /\ Dataset!Step
  OBVIOUS
<1> DEFINE s  == m_source
           at == IF src[s].pos = 0 THEN [src EXCEPT ![s].pos = 1] ELSE src
<1>1. /\ s \in Sources /\ src[s].alive /\ Width(s) > 0 /\ Width(s) \in Nat
      /\ m_rscache = RecordSetInit
      /\ SourcesFine(src) /\ m_current_row \in Nat /\ settled \in BOOLEAN
  BY Conditions, SourceFacts DEF CacheInv, Attached
<1>2. VisibleRows = <<>> /\ position = 0
  BY <1>1, InitFacts, SeenIsVisible, Positions DEF Pos
<1>3. \/ src[s].pos = 0 /\ Opened(Opening, src, Throw)
      \/ Opened(WithMetadata(Opening, s), at, Ok)
  BY <1>1 DEF open, Opening
<1>4. CASE src[s].pos = 0 /\ Opened(Opening, src, Throw)
  <2>1. /\ op' = <<"open">> /\ m_rscache' = Opening /\ src' = src /\ ret' = Throw
        /\ m_source' = m_source /\ m_current_row' = m_current_row /\ settled' = settled
    BY <1>4 DEF Opened
  <2>2. CacheInv'
    BY <1>1, <2>1, Fine DEF CacheInv, Running, Attached, Condition
  <2>3. position' = 0
    BY <2>1, OpeningFacts, Positions DEF Pos
  <2>4. VisibleRows' = <<>> \o <<>>
    BY <1>4, <2>1, OpeningFacts, SeenIsVisible, SourcesAssumption DEF Seen, Behind, Left
  <2>5. VisibleRows' = <<>>
    BY <2>4, EmptySeq, ConcatEmptySeq
  <2>6. SubSeq(VisibleRows, 1, 0) = <<>> /\ 0 \in position .. Len(VisibleRows)
    BY <1>2, SubSeqEmpty, EmptySeq
  <2>7. Failed(ret')
    BY <1>2, <2>1, <2>3, <2>5, <2>6 DEF Failed, Shortened
  <2> QED BY <2>2, <2>7, TruncateStep DEF Dataset!Step
<1>5. CASE Opened(WithMetadata(Opening, s), at, Ok)
  <2> DEFINE q == WithMetadata(Opening, s)
  <2>1. /\ op' = <<"open">> /\ m_rscache' = q /\ src' = at /\ ret' = Ok
        /\ m_source' = s /\ m_current_row' = m_current_row /\ settled' = settled
    BY <1>5 DEF Opened
  <2>2. /\ src \in [Sources -> SourceStates] /\ src[s] \in SourceStates
        /\ src[s].pos \in 0 .. Len(SourceRows[s]) + 1
        /\ SourceRows[s] \in Seq(AllRows) /\ Len(SourceRows[s]) \in Nat
    BY <1>1, SourceFacts DEF SourcesFine
  <2>3. /\ SourcesFine(at) /\ at[s].alive /\ at[s].pos \in 1 .. Len(SourceRows[s]) + 1
    <3>1. CASE src[s].pos = 0
      <4> DEFINE e == [src[s] EXCEPT !.pos = 1]
      <4>1. e \in SourceStates /\ e.pos = 1 /\ e.alive = src[s].alive
        BY <2>2 DEF SourceStates
      <4>2. at = [src EXCEPT ![s] = e]
        BY <3>1
      <4> HIDE DEF e, at
      <4>3. /\ at \in [Sources -> SourceStates] /\ at[s] = e
            /\ \A z \in Sources \ {s} : at[z] = src[z]
        BY <1>1, <2>2, <4>1, <4>2
      <4>4. \A z \in Sources \ {s} : at[z].pos \in 0 .. Len(SourceRows[z]) + 1
        BY <1>1, <4>3 DEF SourcesFine
      <4>5. 1 \in 1 .. Len(SourceRows[s]) + 1 /\ 1 \in 0 .. Len(SourceRows[s]) + 1
        BY <2>2
      <4> QED BY <1>1, <4>1, <4>3, <4>4, <4>5 DEF SourcesFine
    <3>2. CASE src[s].pos # 0
      <4>1. src[s].pos \in 1 .. Len(SourceRows[s]) + 1
        BY <2>2, <3>2
      <4> QED BY <1>1, <3>2, <4>1
    <3> QED BY <3>1, <3>2
  <2> HIDE DEF at
  <2>4. q.m_records = <<>> /\ ~IsPositioned(q) /\ IsOpen(q)
    BY <1>1, <2>3, LoadedByOpen
  <2>6. Loaded(q, m_current_row, settled, s, at)
    BY <1>1, <2>3, LoadedByOpen
  <2> HIDE DEF q
  <2>7. CacheInv'
    BY <1>1, <2>1, <2>3, <2>6, Fine DEF CacheInv, Running, Attached, Condition
  <2>8. position' = 0
    BY <2>1, <2>4, Positions DEF Pos
  <2>9. VisibleRows' = Left(at, s)
    <3>1. VisibleRows' = <<>> \o Left(at, s)
      BY <1>1, <2>1, <2>4, SeenIsVisible, SourcesAssumption DEF Seen, Behind
    <3>2. Left(at, s) \in Seq(AllRows)
      BY <1>1, <2>3, LeftFacts
    <3> QED BY <3>1, <3>2, ConcatEmptySeq
  <2>10. \/ VisibleRows' = <<>>
         \/ \E i \in 1 .. Len(SourceRows[s]) + 1 :
              VisibleRows' = SubSeq(SourceRows[s], i, Len(SourceRows[s]))
    BY <2>3, <2>9 DEF Left
  <2>11. \/ VisibleRows' = VisibleRows
         \/ VisibleRows' \in UNION {{SubSeq(SourceRows[z], i, Len(SourceRows[z])) :
                                       i \in 1 .. Len(SourceRows[z]) + 1} : z \in Sources}
    BY <1>1, <1>2, <2>10
  <2>12. Dataset!Open
    BY <1>2, <2>1, <2>8, <2>11, Words DEF position, Dataset!Open
  <2> QED BY <2>7, <2>12 DEF Dataset!Step
<1> QED BY <1>3, <1>4, <1>5

\* What becomes of a resultset the cache is not attached to is no concern of
\* the cache.
LEMMA ElsewhereKeeps ==
  ASSUME CacheInv, NEW s \in Sources \ {m_source}, NEW d \in SourceStates,
         d.pos \in 0 .. Len(SourceRows[s]) + 1, Elsewhere([src EXCEPT ![s] = d])
  PROVE  CacheInv' /\ UNCHANGED <<VisibleRows, position, op, ret>>
<1>1. /\ src' = [src EXCEPT ![s] = d] /\ src \in [Sources -> SourceStates]
      /\ m_source' = m_source /\ m_rscache' = m_rscache /\ m_current_row' = m_current_row
      /\ op' = op /\ ret' = ret /\ settled' = settled
  BY DEF Elsewhere, cache, CacheInv, SourcesFine
<1>2. /\ src' \in [Sources -> SourceStates] /\ src'[s] = d
      /\ \A z \in Sources \ {s} : src'[z] = src[z]
  BY <1>1
<1>3. SourcesFine(src')
  BY <1>2 DEF CacheInv, SourcesFine
<1>4. m_source = NoSource \/ (m_source \in Sources /\ src'[m_source] = src[m_source])
  BY <1>2 DEF CacheInv, Attached
<1>5. Attached(m_source, src') /\ Behind(m_source, src') = Behind(m_source, src)
  BY <1>4 DEF CacheInv, Attached, Behind, Left
<1>6. Condition(m_rscache, m_current_row, settled, m_source, src')
  BY <1>4 DEF CacheInv, Condition, Loaded, Columnwise
<1>7. CacheInv'
  BY <1>1, <1>3, <1>5, <1>6 DEF CacheInv, Running
<1>8. VisibleRows' = VisibleRows
  BY <1>1, <1>5, SeenIsVisible DEF Seen
<1>9. position' = position
  BY <1>1, Positions
<1> QED BY <1>1, <1>7, <1>8, <1>9

LEMMA ExecuteStep ==
  ASSUME CacheInv, NEW s \in Sources \ {m_source}, execute(s)
  PROVE  CacheInv' /\ UNCHANGED <<VisibleRows, position, op, ret>>
<1> DEFINE e == [src[s] EXCEPT !.pos = 1]
           d == [e EXCEPT !.failed = FALSE]
<1>1. src \in [Sources -> SourceStates] /\ src[s] \in SourceStates /\ Len(SourceRows[s]) \in Nat
  BY SourceFacts DEF CacheInv, SourcesFine
<1>2. [src EXCEPT ![s].pos = 1, ![s].failed = FALSE] = [src EXCEPT ![s] = d]
  BY <1>1
<1>3. e \in SourceStates /\ e.pos = 1
  BY <1>1 DEF SourceStates
<1> HIDE DEF e
<1>4. d \in SourceStates /\ d.pos = 1
  BY <1>3 DEF SourceStates
<1>5. Elsewhere([src EXCEPT ![s] = d])
  BY <1>2 DEF execute
<1> HIDE DEF d
<1>6. d.pos \in 0 .. Len(SourceRows[s]) + 1
  BY <1>1, <1>4
<1> QED BY <1>4, <1>5, <1>6, ElsewhereKeeps

LEMMA StatementClosedStep ==
  ASSUME CacheInv, NEW s \in Sources \ {m_source}, closeStatement(s)
  PROVE  CacheInv' /\ UNCHANGED <<VisibleRows, position, op, ret>>
<1> DEFINE d == [src[s] EXCEPT !.alive = FALSE]
<1>1. /\ src \in [Sources -> SourceStates] /\ src[s] \in SourceStates
      /\ src[s].pos \in 0 .. Len(SourceRows[s]) + 1
  BY DEF CacheInv, SourcesFine
<1>2. d \in SourceStates /\ d.pos = src[s].pos
  BY <1>1 DEF SourceStates
<1>3. Elsewhere([src EXCEPT ![s] = d])
  BY <1>1 DEF closeStatement
<1> HIDE DEF d
<1> QED BY <1>1, <1>2, <1>3, ElsewhereKeeps

LEMMA AdvanceStep ==
  ASSUME CacheInv, NEW s \in Sources \ {m_source}, advance(s)
  PROVE  CacheInv' /\ UNCHANGED <<VisibleRows, position, op, ret>>
<1> DEFINE p == src[s].pos + 1
           d == [src[s] EXCEPT !.pos = p]
<1>1. src \in [Sources -> SourceStates] /\ src[s] \in SourceStates
  BY DEF CacheInv, SourcesFine
<1>2. Left(src, s) # <<>>
  BY DEF advance, Remaining, Left
<1>3. src[s].pos \in 1 .. Len(SourceRows[s]) /\ Len(SourceRows[s]) \in Nat
  BY <1>2, LeftFacts, SourceFacts DEF CacheInv
<1>4. Elsewhere([src EXCEPT ![s] = d])
  BY <1>1 DEF advance
<1>5. p \in Nat /\ p \in 0 .. Len(SourceRows[s]) + 1
  BY <1>3
<1> HIDE DEF p
<1>6. d \in SourceStates /\ d.pos = p
  BY <1>1, <1>5 DEF SourceStates
<1> HIDE DEF d
<1> QED BY <1>4, <1>5, <1>6, ElsewhereKeeps

-----------------------------------------------------------------------------
(* The whole                                                               *)

LEMMA InitStep == Init => CacheInv /\ Dataset!Init
<1> SUFFICES ASSUME Init PROVE CacheInv /\ Dataset!Init
  OBVIOUS
<1>1. SourcesFine(src)
  <2>1. NewSource \in SourceStates /\ NewSource.pos = 0
    BY DEF NewSource, SourceStates
  <2>2. \A s \in Sources : 0 \in 0 .. Len(SourceRows[s]) + 1
    BY SourceFacts
  <2> QED BY <2>1, <2>2 DEF Init, SourcesFine
<1>2. CacheInv
  BY <1>1, Fine DEF Init, CacheInv, Running, Attached, Condition
<1>3. VisibleRows = <<>> /\ position = 0
  BY InitFacts, SeenIsVisible, Positions DEF Init, Pos
<1> QED BY <1>2, <1>3, Words DEF Init, position, Dataset!Init

LEMMA IdleStep == CacheInv /\ UNCHANGED vars => CacheInv' /\ UNCHANGED <<VisibleRows, position, op, ret>>
BY DEF vars, CacheInv, Running, VisibleRows, Remaining, position, Positioned

LEMMA ProtocolStep ==
  CacheInv /\ [Protocol]_vars => CacheInv' /\ [Dataset!Step]_(Dataset!vars)
<1> SUFFICES ASSUME CacheInv, [Protocol]_vars
             PROVE  CacheInv' /\ (Dataset!Step \/ UNCHANGED <<VisibleRows, position, op, ret>>)
  BY DEF Dataset!vars, position
<1>1. CASE UNCHANGED vars
  BY <1>1, IdleStep
<1>2. CASE SourceStep
  <2>1. PICK s \in Sources \ {m_source} : execute(s) \/ closeStatement(s) \/ advance(s)
    BY <1>2 DEF SourceStep
  <2> QED BY <2>1, ExecuteStep, StatementClosedStep, AdvanceStep
<1>3. CASE ClientStep
  <2>1. CASE Ready /\ (first \/ last \/ fetchMore \/ fetchAll \/ moreAvail)
    BY <2>1, FirstStep, LastStep, FetchMoreStep, FetchAllStep, MoreAvailStep
  <2>2. CASE Ready /\ Positioned /\ (next \/ prev \/ eof)
    BY <2>2, NextStep, PrevStep, EofStep
  <2>3. CASE Ready /\ \E row \in RowNumbers : row >= 1 /\ setpos(row)
    BY <2>3, SetposStep
  <2>4. CASE Ready /\ (settled \/ ~Positioned) /\ \E num \in Columns : column(num)
    BY <2>4, ColumnStep
  <2>5. CASE Ready /\ \E name \in ColumnNames : columnID(name)
    BY <2>5, ColumnIDStep
  <2>6. CASE ~IsOpen(m_rscache) /\ m_source # NoSource /\ open
    BY <2>6, OpenStep
  <2>7. CASE Ready /\ detach
    BY <2>7, DetachStep
  <2>8. CASE close
    BY <2>8, CloseStep
  <2>9. CASE ~IsOpen(m_rscache) /\ \E s \in Sources : Width(s) > 0 /\ attach(s)
    BY <2>9, AttachStep
  <2> QED BY <1>3, <2>1, <2>2, <2>3, <2>4, <2>5, <2>6, <2>7, <2>8, <2>9 DEF ClientStep
<1> QED BY <1>1, <1>2, <1>3 DEF Protocol

\* The invariant holds in every state a client that keeps the protocol can
\* bring the cache to (cachedresult.cc).
THEOREM ProtocolInductive == ProtocolSpec => []CacheInv
<1> USE DEF ProtocolSpec
<1>1. Init => CacheInv
  BY InitStep
<1>2. CacheInv /\ [Protocol]_vars => CacheInv'
  BY ProtocolStep
<1> QED BY <1>1, <1>2, PTL

\* No call ends in one of the asserts of CachedResultBase or reads a resultset
\* that its statement has deleted.
THEOREM CacheDefined == ProtocolSpec => []Defined
<1>1. CacheInv => Defined
  BY DEF CacheInv, Defined
<1> QED BY <1>1, ProtocolInductive, PTL

\* m_current_row and the cursor of m_rscache are kept apart and moved by
\* different statements of the code: they designate the same row, but where
\* copied rows have invalidated the cursor.
THEOREM PositionsAlwaysAgree == ProtocolSpec => []PositionsAgree
<1>1. CacheInv => PositionsAgree
  <2> SUFFICES ASSUME CacheInv, Positioned PROVE m_rscache.m_cursor \in {m_current_row - 1, Dangling}
    BY DEF PositionsAgree
  <2> QED BY Conditions, CachedFacts, InitFacts, OpeningFacts
          DEF CacheInv, Positioned, Condition, Loaded, Placed
<1> QED BY <1>1, ProtocolInductive, PTL

\* After a move that succeeded, and until rows are copied without a move, the
\* cursor is on a row of the cache: column() never reads a dead iterator.
THEOREM SettledIsOnRow == ProtocolSpec => []SettledOnRow
<1>1. CacheInv => SettledOnRow
  <2> SUFFICES ASSUME CacheInv, Positioned, settled
               PROVE  m_rscache.m_cursor \in 0 .. RowCount(m_rscache) - 1
    BY DEF SettledOnRow
  <2>1. Placed(m_rscache, m_current_row, settled) /\ RowCount(m_rscache) \in Nat
    BY Conditions, InitFacts, OpeningFacts DEF CacheInv, Positioned, Condition, Loaded
  <2> QED BY <2>1 DEF Placed
<1> QED BY <1>1, ProtocolInductive, PTL

\* The columns of an open cache are those of the resultset its rows are copied
\* from, and every row has all of them (copyMetadata(), copyRecord()).
THEOREM MetadataOfSource == ProtocolSpec => []MetadataMatches
<1>1. CacheInv => MetadataMatches
  <2> SUFFICES ASSUME CacheInv, Ready
               PROVE  /\ m_source # NoSource => m_rscache.m_column_descriptors = SourceNames[m_source]
                      /\ \A i \in 1 .. RowCount(m_rscache) :
                           Len(m_rscache.m_records[i]) = m_rscache.m_count
    BY DEF MetadataMatches
  <2>1. Loaded(m_rscache, m_current_row, settled, m_source, src)
    BY Conditions DEF CacheInv, Ready
  <2> QED BY <2>1 DEF Loaded, Columnwise
<1> QED BY <1>1, ProtocolInductive, PTL

\* Caching is invisible: whatever is copied when, the cache is a
\* ScrollableDataset over the rows of its source.
THEOREM Refinement == ProtocolSpec => ImplementsDataset
<1> USE DEF ProtocolSpec
<1>1. Init => CacheInv /\ Dataset!Init
  BY InitStep
<1>2. CacheInv /\ [Protocol]_vars => CacheInv' /\ [Dataset!Step]_(Dataset!vars)
  BY ProtocolStep
<1> QED BY <1>1, <1>2, PTL DEF ImplementsDataset, Dataset!Spec
-----------------------------------------------------------------------------
(* The loop over the rows                                                  *)

\* The values of the first column, and those of some rows.
Fields == {row[1] : row \in AllRows}

FirstColumn(rows) == [j \in 1 .. Len(rows) |-> rows[j][1]]

\* The loop is under way: what it has to read are the rows that can be seen.
Going == CacheInv /\ Ready /\ Unfailed /\ expected = FirstColumn(VisibleRows)

\* Between two calls: the body is to be run for the row after those it was run
\* for, or was last run for the row the cache is on.
Under ==
  \/ pc = "first" /\ position = 0 /\ Len(visited) = 0
  \/ pc = "body" /\ settled = TRUE /\ position = Len(visited) + 1
  \/ pc \in {"next", "move"} /\ position >= 1 /\ position = Len(visited)

Prefix ==
  /\ expected \in Seq(Fields) /\ Len(expected) <= MaxCached
  /\ Len(visited) \in 0 .. Len(expected)
  /\ visited = SubSeq(expected, 1, Len(visited))

LoopInv ==
  /\ Prefix
  /\ \/ Going /\ Under
     \/ pc = "done" /\ Len(visited) = Len(expected)
     \/ pc = "failed" /\ ret = Throw /\ m_source \in Faulty

LEMMA FirstColumnFacts ==
  ASSUME NEW rows \in Seq(AllRows)
  PROVE  /\ FirstColumn(rows) \in Seq(Fields) /\ Len(FirstColumn(rows)) = Len(rows)
         /\ \A j \in 1 .. Len(rows) : FirstColumn(rows)[j] = rows[j][1]
<1>1. Len(rows) \in Nat /\ \A j \in 1 .. Len(rows) : rows[j] \in AllRows
  OBVIOUS
<1>2. \A j \in 1 .. Len(rows) : rows[j][1] \in Fields
  BY <1>1 DEF Fields
<1> QED BY <1>1, <1>2, IsASeq DEF FirstColumn

\* One value more is read.
LEMMA OneMore ==
  ASSUME NEW S, NEW s \in Seq(S), NEW n \in Nat, n + 1 <= Len(s)
  PROVE  /\ Append(SubSeq(s, 1, n), s[n + 1]) = SubSeq(s, 1, n + 1)
         /\ Len(SubSeq(s, 1, n + 1)) = n + 1
<1> DEFINE a == SubSeq(s, 1, n)
           b == SubSeq(s, 1, n + 1)
           c == Append(a, s[n + 1])
<1>1. Len(s) \in Nat /\ n + 1 \in 1 .. Len(s) /\ \A j \in 1 .. Len(s) : s[j] \in S
  OBVIOUS
<1>2. a \in Seq(S) /\ Len(a) = n /\ \A j \in 1 .. n : a[j] = s[j]
  <2>1. \A j \in 1 .. n : s[j] \in S
    BY <1>1
  <2> QED BY <1>1, <2>1, SubSeqProperties
<1>3. b \in Seq(S) /\ Len(b) = n + 1 /\ \A j \in 1 .. n + 1 : b[j] = s[j]
  <2>1. \A j \in 1 .. n + 1 : s[j] \in S
    BY <1>1
  <2> QED BY <1>1, <2>1, SubSeqProperties
<1> HIDE DEF a, b
<1>4. /\ c \in Seq(S) /\ Len(c) = n + 1
      /\ \A j \in 1 .. n : c[j] = a[j]
      /\ c[n + 1] = s[n + 1]
  BY <1>1, <1>2, AppendProperties
<1> HIDE DEF c
<1>5. \A j \in 1 .. Len(c) : c[j] = b[j]
  <2>1. \A j \in 1 .. n + 1 : j \in 1 .. n \/ j = n + 1
    OBVIOUS
  <2> QED BY <1>2, <1>3, <1>4, <2>1
<1>6. c = b
  BY <1>3, <1>4, <1>5, SeqEqual
<1> QED BY <1>3, <1>6 DEF a, b, c

\* A call that was served has failed, or the loop is still under way.
LEMMA StillGoing ==
  ASSUME Going, Served, expected' = expected
  PROVE  /\ ret' = Throw => m_source' \in Faulty
         /\ ret' # Throw /\ VisibleRows' = VisibleRows => Going'
<1>1. Told(ret', src') /\ m_source' = m_source /\ m_source # NoSource
  BY DEF Going, Served, Unfailed
<1>2. src[m_source]' = src'[m_source]
  BY <1>1
<1>3. ret' = Throw => m_source' \in Faulty
  BY <1>1, Fine DEF Told
<1>4. ASSUME ret' # Throw, VisibleRows' = VisibleRows PROVE Going'
  <2>1. Unfailed'
    BY <1>1, <1>2, <1>4 DEF Told, Unfailed
  <2>2. expected' = FirstColumn(VisibleRows')
    BY <1>4 DEF Going
  <2> QED BY <2>1, <2>2 DEF Going, Served, FirstColumn
<1> QED BY <1>3, <1>4

\* The cache has a position, seen from the invariant.
LEMMA Whereabouts ==
  ASSUME NEW rs, NEW row, NEW set, NEW source, NEW sources, Condition(rs, row, set, source, sources)
  PROVE  IsPositioned(rs) <=> Pos(rs, row) # 0
<1>1. IsPositioned(rs) => row \in 1 .. RowCount(rs)
  BY Conditions DEF Placed
<1>2. RowCount(rs) \in Nat
  BY Conditions
<1> QED BY <1>1, <1>2 DEF Pos

\* What the loop relies on, of a loop under way.
LEMMA GoingFacts ==
  ASSUME Going
  PROVE  /\ VisibleRows \in Seq(AllRows) /\ Len(VisibleRows) \in Nat
         /\ Len(expected) = Len(VisibleRows)
         /\ \A j \in 1 .. Len(VisibleRows) : expected[j] = VisibleRows[j][1]
         /\ Positioned <=> position # 0
<1>1. VisibleRows \in Seq(AllRows)
  BY VisibleFacts DEF Going
<1>2. Positioned <=> position # 0
  BY Whereabouts, Positions DEF Going, CacheInv, Positioned
<1> QED BY <1>1, <1>2, FirstColumnFacts DEF Going

LEMMA PrefixKept == Prefix /\ UNCHANGED <<expected, visited>> => Prefix'
BY DEF Prefix

LEMMA LoopFirst ==
  ASSUME LoopInv, first, Goto({"first"}, IF IsPositioned(m_rscache') THEN "body" ELSE "done"),
         visited' = visited
  PROVE  LoopInv'
<1>1. Prefix /\ Going /\ pc = "first" /\ position = 0 /\ Len(visited) = 0 /\ expected' = expected
  BY DEF LoopInv, Under, Goto
<1>2. Prefix'
  BY <1>1, PrefixKept
<1>3. /\ Served
      /\ \/ Failed(ret')
         \/ ret' = Ok /\ Refused(No) /\ VisibleRows = <<>>
         \/ ret' = Ok /\ Reached(Yes, 1)
  BY <1>1, FirstEffect DEF Going
<1>4. IsPositioned(m_rscache') <=> position' # 0
  BY <1>3, Whereabouts, Positions DEF Served, CacheInv
<1>5. CASE Failed(ret')
  <2>1. ret' = Throw /\ pc' = "failed"
    BY <1>5 DEF Failed, Goto
  <2> QED BY <1>1, <1>2, <1>3, <2>1, StillGoing DEF LoopInv
<1>6. CASE ret' = Ok /\ Refused(No) /\ VisibleRows = <<>>
  <2>1. pc' = "done"
    BY <1>1, <1>4, <1>6, Fine DEF Refused, Goto
  <2>2. Len(visited') = 0 /\ Len(expected') = 0
    BY <1>1, <1>6, GoingFacts, EmptySeq
  <2> QED BY <1>2, <2>1, <2>2 DEF LoopInv
<1>7. CASE ret' = Ok /\ Reached(Yes, 1)
  <2>1. position' = 1 /\ settled' = TRUE /\ VisibleRows' = VisibleRows /\ ret' # Throw
    BY <1>7, Fine DEF Reached
  <2>2. pc' = "body"
    BY <1>4, <1>7, <2>1, Fine DEF Goto
  <2>3. Going'
    BY <1>1, <1>3, <2>1, StillGoing
  <2>4. Len(visited') = 0
    BY <1>1
  <2>5. Under'
    BY <2>1, <2>2, <2>4 DEF Under
  <2> QED BY <1>2, <2>3, <2>5 DEF LoopInv
<1> QED BY <1>3, <1>5, <1>6, <1>7

LEMMA LoopBody == LoopInv /\ Body("next") => LoopInv'
<1> SUFFICES ASSUME LoopInv, Body("next") PROVE LoopInv'
  OBVIOUS
<1>1. /\ Prefix /\ Going /\ pc = "body" /\ settled = TRUE /\ position = Len(visited) + 1
      /\ expected' = expected /\ column(1)
  BY DEF LoopInv, Under, Goto, Body
<1>2. /\ Len(expected) = Len(VisibleRows) /\ Len(VisibleRows) \in Nat
      /\ \A j \in 1 .. Len(VisibleRows) : expected[j] = VisibleRows[j][1]
      /\ Positioned <=> position # 0
  BY <1>1, GoingFacts
<1>3. Len(visited) \in Nat /\ Positioned
  BY <1>1, <1>2 DEF Prefix
<1>4. PICK o \in RsColumn(m_rscache, 1) : Answer(<<"column", 1>>, o.ret)
  BY <1>1 DEF column, Ask
<1>5. /\ position \in 1 .. Len(VisibleRows)
      /\ o.ret = Value(VisibleRows[position][1])
  <2>1. 1 \in Nat \ {0} /\ CacheInv /\ settled
    BY <1>1 DEF Going
  <2>2. /\ position \in 1 .. Len(VisibleRows)
        /\ Len(VisibleRows[position]) = m_rscache.m_count /\ Len(VisibleRows[position]) \in Nat
        /\ o.ret = IF 1 > Len(VisibleRows[position]) THEN Throw ELSE Value(VisibleRows[position][1])
    BY <1>3, <1>4, <2>1, SettledColumn
  <2>3. m_rscache.m_count > 0
    BY <1>1 DEF Going, Ready
  <2> QED BY <2>2, <2>3
<1>6. /\ m_source' = m_source /\ m_rscache' = m_rscache /\ src' = src /\ settled' = settled
      /\ ret' = Value(expected[position])
  BY <1>2, <1>4, <1>5 DEF Answer, cache
<1>7. CacheInv' /\ position' = position /\ VisibleRows' = VisibleRows
  BY <1>1, <1>4, <1>5, AnswerEffect, Fine DEF Going
<1>8. Going'
  BY <1>1, <1>6, <1>7 DEF Going, Ready, Unfailed, FirstColumn
<1>9. pc' = "next"
  BY <1>6, Fine DEF Body, Goto, Value, Throw
<1>10. visited' = Append(visited, expected[position])
  <2>1. Len(visited) <= MaxCached
    BY <1>1, <1>2, <1>3, <1>5, RowNumbersAssumption DEF Prefix
  <2>2. ret'[1] = "value" /\ ret'[2] = expected[position]
    BY <1>6 DEF Value
  <2> QED BY <2>1, <2>2 DEF Body
<1>11. visited' = SubSeq(expected, 1, position) /\ Len(visited') = position
  <2>1. /\ expected \in Seq(Fields) /\ visited = SubSeq(expected, 1, Len(visited))
        /\ Len(visited) + 1 <= Len(expected)
    BY <1>1, <1>2, <1>5 DEF Prefix
  <2>2. PICK n \in Nat : n = Len(visited)
    BY <1>3
  <2>3. /\ Append(SubSeq(expected, 1, n), expected[n + 1]) = SubSeq(expected, 1, n + 1)
        /\ Len(SubSeq(expected, 1, n + 1)) = n + 1
    BY <2>1, <2>2, OneMore
  <2> QED BY <1>1, <1>10, <2>1, <2>2, <2>3
<1>12. Prefix'
  <2>1. Len(visited') \in 0 .. Len(expected)
    BY <1>2, <1>5, <1>11
  <2> QED BY <1>1, <1>11, <2>1 DEF Prefix
<1>13. Under'
  BY <1>5, <1>7, <1>9, <1>11 DEF Under
<1> QED BY <1>8, <1>12, <1>13 DEF LoopInv

LEMMA LoopFetchMore ==
  ASSUME LoopInv, fetchMore, Goto({"next"}, "move"), visited' = visited
  PROVE  LoopInv'
<1>1. /\ Prefix /\ Going /\ pc = "next" /\ position >= 1 /\ position = Len(visited)
      /\ expected' = expected
  BY DEF LoopInv, Under, Goto
<1>2. Prefix'
  BY <1>1, PrefixKept
<1>3. /\ Served
      /\ Failed(ret') \/ (ret' = Ok /\ position' = position /\ VisibleRows' = VisibleRows)
  BY <1>1, FetchMoreEffect DEF Going
<1>4. CASE Failed(ret')
  <2>1. ret' = Throw /\ pc' = "failed"
    BY <1>4 DEF Failed, Goto
  <2> QED BY <1>1, <1>2, <1>3, <2>1, StillGoing DEF LoopInv
<1>5. CASE ret' = Ok /\ position' = position /\ VisibleRows' = VisibleRows
  <2>1. Going' /\ pc' = "move"
    BY <1>1, <1>3, <1>5, StillGoing, Fine DEF Goto
  <2>2. Under'
    BY <1>1, <1>5, <2>1 DEF Under
  <2> QED BY <1>2, <2>1, <2>2 DEF LoopInv
<1> QED BY <1>3, <1>4, <1>5

LEMMA LoopNext ==
  ASSUME LoopInv, next, Goto({"next", "move"}, IF ret' = Yes THEN "body" ELSE "done"),
         visited' = visited
  PROVE  LoopInv'
<1>1. /\ Prefix /\ Going /\ position >= 1 /\ position = Len(visited) /\ expected' = expected
  BY DEF LoopInv, Under, Goto
<1>2. Prefix'
  BY <1>1, PrefixKept
<1>3. Positioned /\ Len(expected) = Len(VisibleRows)
  BY <1>1, GoingFacts DEF Prefix
<1>4. /\ Served
      /\ position \in 1 .. Len(VisibleRows)
      /\ \/ Failed(ret')
         \/ Refused(ret') /\ position = Len(VisibleRows)
         \/ Reached(ret', position + 1) /\ position < Len(VisibleRows)
  BY <1>1, <1>3, NextEffect DEF Going
<1>5. CASE Failed(ret')
  <2>1. ret' = Throw /\ pc' = "failed"
    BY <1>5 DEF Failed, Goto
  <2> QED BY <1>1, <1>2, <1>4, <2>1, StillGoing DEF LoopInv
<1>6. CASE Refused(ret') /\ position = Len(VisibleRows)
  <2>1. pc' = "done"
    BY <1>6, Fine DEF Refused, Goto
  <2>2. Len(visited') = Len(expected')
    BY <1>1, <1>3, <1>6
  <2> QED BY <1>2, <2>1, <2>2 DEF LoopInv
<1>7. CASE Reached(ret', position + 1) /\ position < Len(VisibleRows)
  <2>1. /\ position' = position + 1 /\ settled' = TRUE /\ VisibleRows' = VisibleRows
        /\ ret' = Yes /\ ret' # Throw
    BY <1>7, Fine DEF Reached
  <2>2. pc' = "body"
    BY <2>1, Fine DEF Goto
  <2>3. Going'
    BY <1>1, <1>4, <2>1, StillGoing
  <2>4. Under'
    BY <1>1, <2>1, <2>2 DEF Under
  <2> QED BY <1>2, <2>3, <2>4 DEF LoopInv
<1> QED BY <1>4, <1>5, <1>6, <1>7

LEMMA LoopStarts == LoopInit => LoopInv
<1> SUFFICES ASSUME LoopInit PROVE LoopInv
  OBVIOUS
<1> DEFINE s == m_source
           l == SourceRows[s]
<1>1. /\ s \in Sources /\ Width(s) > 0 /\ l \in Seq(AllRows) /\ Len(l) \in Nat /\ Len(l) <= MaxCached
      /\ s # NoSource
  BY SourceFacts, SourcesAssumption DEF LoopInit
<1>2. PICK i \in 1 .. Len(l) + 1 :
        /\ src = [z \in Sources |-> IF z = s THEN [NewSource EXCEPT !.pos = i] ELSE NewSource]
        /\ expected = ValuesFrom(s, i)
  BY DEF LoopInit
<1> DEFINE rows == SubSeq(l, i, Len(l))
<1>3. i \in Nat /\ i >= 1
  BY <1>1
<1>4. /\ SourcesFine(src) /\ src[s].alive /\ src[s].pos = i /\ src[s].failed = FALSE
  <2> DEFINE d == [NewSource EXCEPT !.pos = i]
  <2>1. NewSource \in SourceStates /\ NewSource.pos = 0
    BY DEF NewSource, SourceStates
  <2>2. d \in SourceStates /\ d.pos = i /\ d.alive /\ d.failed = FALSE
    BY <1>3 DEF NewSource, SourceStates
  <2>3. /\ src \in [Sources -> SourceStates] /\ src[s] = d
        /\ \A z \in Sources \ {s} : src[z] = NewSource
    <3> HIDE DEF d
    <3>1. src = [z \in Sources |-> IF z = s THEN d ELSE NewSource]
      BY <1>2 DEF d
    <3> QED BY <1>1, <2>1, <2>2, <3>1
  <2> HIDE DEF d
  <2>4. \A z \in Sources : 0 \in 0 .. Len(SourceRows[z]) + 1
    BY SourceFacts
  <2>5. i \in 0 .. Len(l) + 1
    BY <1>1
  <2> QED BY <2>1, <2>2, <2>3, <2>4, <2>5 DEF SourcesFine
<1>5. m_rscache = WithMetadata(Opening, s) /\ m_current_row = 0 /\ settled = FALSE /\ ret = Ok
  BY DEF LoopInit, Opening
<1>6. /\ Loaded(m_rscache, m_current_row, settled, s, src)
      /\ m_rscache.m_records = <<>> /\ IsOpen(m_rscache) /\ ~IsPositioned(m_rscache)
  BY <1>1, <1>3, <1>4, <1>5, LoadedByOpen
<1>7. CacheInv /\ Ready
  BY <1>1, <1>4, <1>5, <1>6, Fine DEF CacheInv, Ready, Running, Attached, Condition, Loaded, Columnwise
<1>8. VisibleRows = rows
  <2>1. Left(src, s) = rows
    BY <1>3, <1>4 DEF Left
  <2>2. Left(src, s) \in Seq(AllRows)
    BY <1>1, <1>4, LeftFacts
  <2>3. VisibleRows = <<>> \o Left(src, s)
    BY <1>1, <1>6, SeenIsVisible DEF Seen, Behind
  <2> QED BY <2>1, <2>2, <2>3, ConcatEmptySeq
<1>9. /\ rows \in Seq(AllRows) /\ Len(rows) = Len(l) + 1 - i
      /\ \A j \in 1 .. Len(rows) : rows[j] = l[i + j - 1]
  <2>1. 0 \in 0 .. Len(l) + 1 - i
    BY <1>1
  <2> QED BY <1>1, <2>1, Dropped
<1> HIDE DEF rows
<1>10. expected = FirstColumn(rows)
  BY <1>2, <1>9 DEF ValuesFrom, FirstColumn
<1>11. visited = <<>> /\ Len(visited) = 0 /\ pc = "first"
  BY EmptySeq DEF LoopInit
<1>12. expected \in Seq(Fields) /\ Len(expected) = Len(l) + 1 - i
  BY <1>9, <1>10, FirstColumnFacts
<1>13. Prefix
  <2>1. visited = SubSeq(expected, 1, Len(visited))
    BY <1>11, SubSeqEmpty
  <2>2. Len(expected) <= MaxCached /\ Len(visited) \in 0 .. Len(expected)
    BY <1>1, <1>3, <1>11, <1>12, RowNumbersAssumption
  <2> QED BY <1>12, <2>1, <2>2 DEF Prefix
<1>14. Going
  BY <1>1, <1>4, <1>7, <1>8, <1>10 DEF Going, Unfailed
<1>15. Under
  BY <1>6, <1>11 DEF Under, position, Positioned
<1> QED BY <1>13, <1>14, <1>15 DEF LoopInv

LEMMA LoopGoesOn == LoopInv /\ [WhileNext]_allvars => LoopInv'
<1> SUFFICES ASSUME LoopInv, [WhileNext]_allvars PROVE LoopInv'
  OBVIOUS
<1>1. CASE UNCHANGED allvars
  <2>1. UNCHANGED <<VisibleRows, position, expected, visited, pc, settled>>
    BY <1>1, IdleStep DEF allvars, vars, VisibleRows, Remaining, position, Positioned
  <2>2. Prefix => Prefix'
    BY <2>1, PrefixKept
  <2>3. Going => Going'
    <3>1. CacheInv => CacheInv'
      BY <1>1, IdleStep DEF allvars
    <3>2. Ready => Ready'
      BY <1>1 DEF allvars, vars, Ready
    <3>3. Unfailed => Unfailed'
      BY <1>1 DEF allvars, vars, Unfailed
    <3> QED BY <2>1, <3>1, <3>2, <3>3 DEF Going, FirstColumn
  <2>4. Under => Under'
    BY <2>1 DEF Under
  <2>5. ret' = ret /\ src' = src /\ m_source' = m_source
    BY <1>1 DEF allvars, vars
  <2> QED BY <2>1, <2>2, <2>3, <2>4, <2>5 DEF LoopInv
<1>2. CASE /\ first
           /\ Goto({"first"}, IF IsPositioned(m_rscache') THEN "body" ELSE "done")
           /\ UNCHANGED visited
  BY <1>2, LoopFirst
<1>3. CASE Body("next")
  BY <1>3, LoopBody
<1>4. CASE fetchMore /\ Goto({"next"}, "move") /\ UNCHANGED visited
  BY <1>4, LoopFetchMore
<1>5. CASE /\ next
           /\ Goto({"next", "move"}, IF ret' = Yes THEN "body" ELSE "done")
           /\ UNCHANGED visited
  BY <1>5, LoopNext
<1> QED BY <1>1, <1>2, <1>3, <1>4, <1>5 DEF WhileNext

\* A loop that relies on what next() answers runs its body once for each row
\* of the source, in their order, whatever is prefetched on the way; where it
\* ends early the source has thrown (setpos() and fetchMore(),
\* cachedresult.cc).
THEOREM EachRowVisited == WhileNextSpec => []VisitsEachRow
<1> USE DEF WhileNextSpec
<1>1. LoopInit => LoopInv
  BY LoopStarts
<1>2. LoopInv /\ [WhileNext]_allvars => LoopInv'
  BY LoopGoesOn
<1>3. LoopInv => VisitsEachRow
  <2> SUFFICES ASSUME LoopInv PROVE VisitsEachRow
    OBVIOUS
  <2>1. visited = SubSeq(expected, 1, Len(visited)) /\ expected \in Seq(Fields)
    BY DEF LoopInv, Prefix
  <2>2. pc = "done" => visited = expected
    BY <2>1, SubSeqFull DEF LoopInv, Under
  <2>3. pc = "failed" => ret = Throw /\ m_source \in Faulty
    BY DEF LoopInv, Under
  <2> QED BY <2>1, <2>2, <2>3 DEF VisitsEachRow
<1> QED BY <1>1, <1>2, <1>3, PTL
=============================================================================
