-------------------------- MODULE RecordSetProofs --------------------------
(***************************************************************************)
(* What RecordSet keeps true for any number of rows and columns: first for *)
(* a client that calls what it likes, then for one that keeps the protocol.*)
(* And what the listings of Metadata, which are made with record sets, keep*)
(* true for any servers, databases and arguments.                          *)
(***************************************************************************)
EXTENDS RecordSet, Metadata, SequenceTheorems, TLAPS

\* The objects of the class.
RecordSets ==
  [m_records : Seq(Rows), m_count : Nat, m_column_descriptors : Seq(Names \union Nat),
   m_cursorstate : CursorStates, m_cursor : Int \union {Dangling}]

\* The parts of the invariant that speak of one object.
CursorInRange(r)  == r.m_cursor \in 0 .. RowCount(r) \union {Dangling}
NotBad(r)         == "BAD" \notin r.m_cursorstate
InStep(r)         == Len(r.m_column_descriptors) = r.m_count
Sound(r) ==
  /\ r \in RecordSets
  /\ CursorInRange(r)
  /\ NotBad(r)
  /\ InStep(r)

\* The object stands on a row and its iterator is one.
PlacedOn(r) == r.m_cursor \in 0 .. RowCount(r) - 1
At(r)       == IsPositioned(r) /\ ~IsEof(r)

-----------------------------------------------------------------------------
(* The cursor states                                                       *)

\* The macro sets the bit of the state and the lower ones.
LEMMA Masks ==
  /\ Mask("PREPARED") = {"PREPARED"}
  /\ Mask("OPEN") = {"PREPARED", "OPEN"}
  /\ Mask("POSITIONED") = {"PREPARED", "OPEN", "POSITIONED"}
  /\ Mask("EOF") = {"PREPARED", "OPEN", "POSITIONED", "EOF"}
<1>1. ASSUME NEW i \in 1 .. 4
      PROVE  Mask(Ranked[i]) = {Ranked[j] : j \in 1 .. i}
  <2>1. \A r \in 1 .. 4 : Ranked[r] = Ranked[i] => r = i
    BY DEF Ranked
  <2>. QED  BY <2>1 DEF Mask
<1>2. /\ Ranked[1] = "PREPARED" /\ Ranked[2] = "OPEN"
      /\ Ranked[3] = "POSITIONED" /\ Ranked[4] = "EOF"
  BY DEF Ranked
<1>3. Mask("PREPARED") = {"PREPARED"}
  BY <1>1, <1>2, 1 .. 1 = {1}
<1>4. Mask("OPEN") = {"PREPARED", "OPEN"}
  BY <1>1, <1>2, 1 .. 2 = {1, 2}
<1>5. Mask("POSITIONED") = {"PREPARED", "OPEN", "POSITIONED"}
  BY <1>1, <1>2, 1 .. 3 = {1, 2, 3}
<1>6. Mask("EOF") = {"PREPARED", "OPEN", "POSITIONED", "EOF"}
  BY <1>1, <1>2, 1 .. 4 = {1, 2, 3, 4}
<1>. QED  BY <1>3, <1>4, <1>5, <1>6

\* What the methods make of the flags.
LEMMA States ==
  ASSUME NEW r \in RecordSets, NEW s \in {"OPEN", "POSITIONED", "EOF"}
  PROVE  /\ SetState(r, s) \in RecordSets
         /\ SetState(r, s) = [r EXCEPT !.m_cursorstate = Mask(s)]
         /\ NotBad(SetState(r, s))
         /\ IsOpen(SetState(r, s))
         /\ IsPositioned(SetState(r, s)) <=> s # "OPEN"
         /\ IsEof(SetState(r, s)) <=> s = "EOF"
<1>1. SetCursorState(r.m_cursorstate, s) = Mask(s)
  BY DEF SetCursorState
<1>2. Mask(s) \in CursorStates
  <2>1. \E i \in 1 .. 4 : s = Ranked[i]
    BY DEF Ranked
  <2>. QED  BY <2>1 DEF CursorStates
<1>3. SetState(r, s) = [r EXCEPT !.m_cursorstate = Mask(s)]
  BY <1>1 DEF SetState
<1>4. SetState(r, s) \in RecordSets /\ SetState(r, s).m_cursorstate = Mask(s)
  BY <1>2, <1>3 DEF RecordSets
<1>. QED  BY <1>3, <1>4, Masks DEF NotBad, IsOpen, IsPositioned, IsEof

-----------------------------------------------------------------------------
(* The methods: what each leaves of a sound object and what it answers     *)

\* Rows and columns are those of r.
SameData(r, q) ==
  /\ q.m_records = r.m_records
  /\ q.m_count = r.m_count
  /\ q.m_column_descriptors = r.m_column_descriptors

LEMMA SoundOutcome ==
  ASSUME NEW q, NEW x, NEW o \in Only(q, x)
  PROVE  o.rs = q /\ o.ret = x
BY DEF Only, Outcome

LEMMA Reframed ==
  ASSUME NEW r, Sound(r), NEW q \in RecordSets, SameData(r, q),
         CursorInRange(q), NotBad(q)
  PROVE  Sound(q)
BY DEF Sound, SameData, InStep

LEMMA OpenMethod ==
  ASSUME NEW r, Sound(r), NEW o \in RsOpen(r)
  PROVE  Sound(o.rs) /\ SameData(r, o.rs) /\ ~IsPositioned(o.rs) /\ IsOpen(o.rs) /\ o.ret = Ok
<1>1. o.rs = SetState(r, "OPEN") /\ o.ret = Ok
  BY SoundOutcome DEF RsOpen
<1>2. r \in RecordSets
  BY DEF Sound
<1>3. SameData(r, o.rs) /\ o.rs.m_cursor = r.m_cursor
  <2>1. SetState(r, "OPEN") = [r EXCEPT !.m_cursorstate = Mask("OPEN")]
    BY <1>2, States
  <2>. QED  BY <1>1, <1>2, <2>1 DEF RecordSets, SameData
<1>4. CursorInRange(o.rs)
  BY <1>3 DEF Sound, CursorInRange, SameData, RowCount
<1>. QED  BY <1>1, <1>2, <1>3, <1>4, States, Reframed

LEMMA FirstMethod ==
  ASSUME NEW r, Sound(r), NEW o \in RsFirst(r)
  PROVE  /\ Sound(o.rs) /\ SameData(r, o.rs) /\ o.ret = Ok
         /\ IsPositioned(o.rs) /\ (IsEof(o.rs) <=> RowCount(r) = 0)
         /\ o.rs.m_cursor = 0 /\ (At(o.rs) => PlacedOn(o.rs))
<1> DEFINE at == [r EXCEPT !.m_cursor = 0]
           s  == IF RowCount(r) = 0 THEN "EOF" ELSE "POSITIONED"
<1>1. o.rs = SetState(at, s) /\ o.ret = Ok
  BY SoundOutcome DEF RsFirst
<1>2. r \in RecordSets /\ RowCount(r) \in Nat
  BY DEF Sound, RecordSets, RowCount
<1>3. at \in RecordSets /\ SameData(r, at) /\ at.m_cursor = 0
  BY <1>2 DEF RecordSets, SameData
<1>4. SetState(at, s) = [at EXCEPT !.m_cursorstate = Mask(s)]
  BY <1>3, States
<1>5. SameData(r, o.rs) /\ o.rs.m_cursor = 0
  BY <1>1, <1>3, <1>4 DEF RecordSets, SameData
<1>6. /\ o.rs \in RecordSets /\ NotBad(o.rs) /\ IsPositioned(o.rs)
      /\ IsEof(o.rs) <=> s = "EOF"
  BY <1>1, <1>3, States
<1>7. RowCount(o.rs) = RowCount(r)
  BY <1>5 DEF SameData, RowCount
<1>8. CursorInRange(o.rs) /\ (At(o.rs) => PlacedOn(o.rs))
  BY <1>2, <1>5, <1>6, <1>7 DEF CursorInRange, At, PlacedOn
<1>. QED  BY <1>1, <1>5, <1>6, <1>8, Reframed

LEMMA SetposMethod ==
  ASSUME NEW r, Sound(r), NEW row \in Int, NEW o \in RsSetpos(r, row)
  PROVE  /\ Sound(o.rs) /\ SameData(r, o.rs)
         /\ \/ row \notin 1 .. RowCount(r) /\ o.ret = No /\ o.rs = r
            \/ /\ row \in 1 .. RowCount(r) /\ o.ret = Yes
               /\ IsPositioned(o.rs) /\ ~IsEof(o.rs)
               /\ o.rs.m_cursor = row - 1 /\ PlacedOn(o.rs)
<1>1. r \in RecordSets /\ RowCount(r) \in Nat
  BY DEF Sound, RecordSets, RowCount
<1>2. CASE row > RowCount(r) \/ row < 1
  <2>1. o.rs = r /\ o.ret = No
    BY <1>2, SoundOutcome DEF RsSetpos
  <2>. QED  BY <2>1, <1>1, <1>2 DEF SameData
<1>3. CASE ~(row > RowCount(r) \/ row < 1)
  <2> DEFINE at == [r EXCEPT !.m_cursor = row - 1]
  <2>1. o.rs = SetState(at, "POSITIONED") /\ o.ret = Yes
    BY <1>3, SoundOutcome DEF RsSetpos
  <2>2. at \in RecordSets /\ SameData(r, at) /\ at.m_cursor = row - 1
    BY <1>1 DEF RecordSets, SameData
  <2>3. SetState(at, "POSITIONED") = [at EXCEPT !.m_cursorstate = Mask("POSITIONED")]
    BY <2>2, States
  <2>4. SameData(r, o.rs) /\ o.rs.m_cursor = row - 1
    BY <2>1, <2>2, <2>3 DEF RecordSets, SameData
  <2>5. o.rs \in RecordSets /\ NotBad(o.rs) /\ IsPositioned(o.rs) /\ ~IsEof(o.rs)
    BY <2>1, <2>2, States
  <2>6. CursorInRange(o.rs) /\ PlacedOn(o.rs)
    BY <1>1, <1>3, <2>4 DEF CursorInRange, PlacedOn, SameData, RowCount
  <2>. QED  BY <1>1, <1>3, <2>1, <2>4, <2>5, <2>6, Reframed
<1>. QED  BY <1>2, <1>3

LEMMA EofMethod ==
  ASSUME NEW r, NEW o \in RsEof(r)
  PROVE  /\ o.rs = r
         /\ IsPositioned(r) => o.ret = Bool(IsEof(r))
<1>1. CASE IsPositioned(r)
  BY <1>1, SoundOutcome DEF RsEof
<1>2. CASE ~IsPositioned(r)
  BY <1>2, SoundOutcome DEF RsEof, Asserting
<1>. QED  BY <1>1, <1>2

\* One step of the cursor of a set that is not at its end.
LEMMA AdvanceMethod ==
  ASSUME NEW r, Sound(r), NEW o \in Advance(r)
  PROVE  /\ Sound(o.rs) /\ SameData(r, o.rs)
         /\ \/ o.ret = No /\ IsPositioned(o.rs) /\ IsEof(o.rs)
            \/ o.ret = Yes /\ o.rs.m_cursorstate = r.m_cursorstate
         /\ PlacedOn(r) => /\ o.rs.m_cursor = r.m_cursor + 1
                           /\ o.ret = Yes <=> r.m_cursor + 1 < RowCount(r)
<1> DEFINE to == Forward(r)
           at == [r EXCEPT !.m_cursor = to]
<1>1. r \in RecordSets /\ RowCount(r) \in Nat /\ CursorInRange(r) /\ NotBad(r)
  BY DEF Sound, RecordSets, RowCount
<1>2. to \in 0 .. RowCount(r) \union {Dangling}
  BY <1>1, DanglingAssumption DEF Forward, CursorInRange
<1>3. /\ at \in RecordSets /\ SameData(r, at) /\ at.m_cursor = to
      /\ at.m_cursorstate = r.m_cursorstate
  BY <1>1, <1>2 DEF RecordSets, SameData
<1> DEFINE end == SetState(at, "EOF")
<1>4. /\ end \in RecordSets /\ NotBad(end) /\ IsPositioned(end) /\ IsEof(end)
      /\ end = [at EXCEPT !.m_cursorstate = Mask("EOF")]
  BY <1>3, States
<1>5. SameData(r, end) /\ end.m_cursor = to
  BY <1>3, <1>4 DEF RecordSets, SameData
<1>6. Sound(at) /\ Sound(end)
  <2>1. RowCount(at) = RowCount(r) /\ RowCount(end) = RowCount(r)
    BY <1>3, <1>5 DEF SameData, RowCount
  <2>2. CursorInRange(at) /\ CursorInRange(end) /\ NotBad(at)
    BY <1>1, <1>2, <1>3, <1>5, <2>1 DEF CursorInRange, NotBad
  <2>. QED  BY <1>3, <1>4, <1>5, <2>2, Reframed
<1>7. \/ o.rs = at /\ o.ret = Yes /\ to # RowCount(r)
      \/ o.rs = end /\ o.ret = No /\ to \in {RowCount(r), Dangling}
  <2>1. o \in {Outcome(at, Yes), Outcome(end, No)}
    BY DEF Advance
  <2>2. to = RowCount(r) => o = Outcome(end, No)
    BY <1>1, DanglingAssumption DEF Advance
  <2>3. to # RowCount(r) /\ to # Dangling => o = Outcome(at, Yes)
    BY DEF Advance
  <2>. QED  BY <2>1, <2>2, <2>3 DEF Outcome
<1>8. PlacedOn(r) => to = r.m_cursor + 1
  BY <1>1, DanglingAssumption DEF PlacedOn, Forward
<1>9. Yes # No
  BY DEF Yes, No
<1>10. CASE o.rs = at /\ o.ret = Yes /\ to # RowCount(r)
  <2>1. PlacedOn(r) => r.m_cursor + 1 < RowCount(r)
    BY <1>1, <1>8, <1>10 DEF PlacedOn
  <2>. QED  BY <1>3, <1>6, <1>8, <1>10, <2>1
<1>11. CASE o.rs = end /\ o.ret = No /\ to \in {RowCount(r), Dangling}
  <2>1. PlacedOn(r) => ~(r.m_cursor + 1 < RowCount(r))
    BY <1>1, <1>8, <1>11, DanglingAssumption DEF PlacedOn
  <2>. QED  BY <1>4, <1>5, <1>6, <1>8, <1>9, <1>11, <2>1
<1>. QED  BY <1>7, <1>10, <1>11

LEMMA NextMethod ==
  ASSUME NEW r, Sound(r), NEW o \in RsNext(r)
  PROVE  /\ Sound(o.rs) /\ SameData(r, o.rs)
         /\ At(r) /\ PlacedOn(r) =>
              /\ At(o.rs) => PlacedOn(o.rs)
              /\ \/ /\ r.m_cursor + 1 < RowCount(r) /\ o.ret = Yes
                    /\ At(o.rs) /\ o.rs.m_cursor = r.m_cursor + 1
                 \/ /\ r.m_cursor + 1 = RowCount(r) /\ o.ret = No
                    /\ IsPositioned(o.rs) /\ IsEof(o.rs)
         /\ IsPositioned(r) => GoesOn(o.ret) /\ IsPositioned(o.rs)
         /\ IsPositioned(r) /\ IsEof(r) => o.rs = r /\ o.ret = No
         /\ ~IsEof(r) /\ ~IsPositioned(r) => o.rs = r \/ o \in Advance(r)
<1>1. GoesOn(Yes) /\ GoesOn(No) /\ Yes # No
  BY DEF GoesOn, Yes, No, Abort, Undefined
<1>2. SameData(r, r)
  BY DEF SameData
<1>3. CASE ~IsPositioned(r) /\ ~NDEBUG
  <2>1. o.rs = r
    BY <1>3, SoundOutcome DEF RsNext
  <2>. QED  BY <1>2, <1>3, <2>1 DEF At
<1>4. CASE ~(~IsPositioned(r) /\ ~NDEBUG) /\ IsEof(r)
  <2>1. o.rs = r /\ o.ret = No
    BY <1>4, SoundOutcome DEF RsNext
  <2>. QED  BY <1>1, <1>2, <1>4, <2>1 DEF At
<1>5. CASE ~(~IsPositioned(r) /\ ~NDEBUG) /\ ~IsEof(r)
  <2>1. o \in Advance(r)
    BY <1>5 DEF RsNext
  <2>2. Sound(o.rs) /\ SameData(r, o.rs)
    BY <2>1, AdvanceMethod
  <2>3. GoesOn(o.ret)
    BY <1>1, <2>1, AdvanceMethod
  <2>4. IsPositioned(r) => IsPositioned(o.rs)
    BY <2>1, AdvanceMethod DEF IsPositioned
  <2>5. RowCount(o.rs) = RowCount(r) /\ RowCount(r) \in Nat
    BY <2>2 DEF SameData, RowCount, Sound, RecordSets
  <2>6. ASSUME At(r), PlacedOn(r), o.ret = Yes
        PROVE  /\ r.m_cursor + 1 < RowCount(r) /\ At(o.rs) /\ PlacedOn(o.rs)
               /\ o.rs.m_cursor = r.m_cursor + 1
    <3>1. r.m_cursor + 1 < RowCount(r) /\ o.rs.m_cursor = r.m_cursor + 1
      BY <2>1, <2>6, AdvanceMethod
    <3>2. o.rs.m_cursorstate = r.m_cursorstate
      BY <1>1, <2>1, <2>6, AdvanceMethod
    <3>. QED  BY <2>5, <2>6, <3>1, <3>2 DEF At, PlacedOn, IsPositioned, IsEof
  <2>7. ASSUME At(r), PlacedOn(r), o.ret # Yes
        PROVE  /\ r.m_cursor + 1 = RowCount(r) /\ o.ret = No
               /\ IsPositioned(o.rs) /\ IsEof(o.rs)
    <3>1. o.ret = No /\ IsPositioned(o.rs) /\ IsEof(o.rs)
      BY <2>1, <2>7, AdvanceMethod
    <3>2. ~(r.m_cursor + 1 < RowCount(r))
      BY <2>1, <2>7, AdvanceMethod
    <3>. QED  BY <2>5, <2>7, <3>1, <3>2 DEF PlacedOn
  <2>. QED  BY <1>5, <2>1, <2>2, <2>3, <2>4, <2>6, <2>7 DEF At
<1>. QED  BY <1>3, <1>4, <1>5

LEMMA PrevMethod ==
  ASSUME NEW r, Sound(r), NEW o \in RsPrev(r)
  PROVE  /\ Sound(o.rs) /\ SameData(r, o.rs)
         /\ o.rs.m_cursorstate = r.m_cursorstate
         /\ GoesOn(o.ret)
         /\ PlacedOn(r) =>
              /\ PlacedOn(o.rs)
              /\ \/ r.m_cursor = 0 /\ o.ret = No /\ o.rs = r
                 \/ r.m_cursor > 0 /\ o.ret = Yes /\ o.rs.m_cursor = r.m_cursor - 1
<1> DEFINE at == [r EXCEPT !.m_cursor = IF @ = Dangling THEN @ ELSE @ - 1]
<1>1. r \in RecordSets /\ RowCount(r) \in Nat /\ CursorInRange(r)
  BY DEF Sound, RecordSets, RowCount
<1>2. \/ o.rs = r /\ o.ret = No /\ (r.m_cursor = Dangling \/ r.m_cursor = 0)
      \/ o.rs = at /\ o.ret = Yes /\ r.m_cursor # 0
  BY DanglingAssumption DEF RsPrev, Outcome
<1>3. GoesOn(o.ret)
  BY <1>2 DEF GoesOn, Yes, No, Abort, Undefined
<1>4. PlacedOn(r) => r.m_cursor # Dangling /\ r.m_cursor \in Int
  BY <1>1, DanglingAssumption DEF PlacedOn
<1>5. CASE o.rs = r /\ o.ret = No /\ (r.m_cursor = Dangling \/ r.m_cursor = 0)
  BY <1>3, <1>4, <1>5 DEF SameData
<1>6. CASE o.rs = at /\ o.ret = Yes /\ r.m_cursor # 0
  <2>1. at.m_cursor \in 0 .. RowCount(r) \union {Dangling}
    BY <1>1, <1>6, DanglingAssumption DEF CursorInRange, RecordSets
  <2>2. at \in RecordSets /\ SameData(r, at) /\ at.m_cursorstate = r.m_cursorstate
    BY <1>1, DanglingAssumption DEF RecordSets, SameData
  <2>3. CursorInRange(at) /\ NotBad(at) /\ RowCount(at) = RowCount(r)
    BY <2>1, <2>2 DEF CursorInRange, SameData, RowCount, NotBad, Sound
  <2>4. PlacedOn(r) => at.m_cursor = r.m_cursor - 1
    BY <1>1, <1>4 DEF RecordSets
  <2>5. PlacedOn(r) => PlacedOn(at) /\ r.m_cursor > 0
    BY <1>1, <1>4, <1>6, <2>3, <2>4 DEF PlacedOn
  <2>. QED  BY <1>3, <1>6, <2>2, <2>3, <2>4, <2>5, Reframed
<1>. QED  BY <1>2, <1>5, <1>6

LEMMA LastMethod ==
  ASSUME NEW r, Sound(r), NEW o \in RsLast(r)
  PROVE  /\ Sound(o.rs) /\ SameData(r, o.rs)
         /\ o.rs.m_cursorstate = r.m_cursorstate /\ o.ret = Yes
         /\ PlacedOn(r) => PlacedOn(o.rs) /\ o.rs.m_cursor = RowCount(r) - 1
<1> DEFINE c == IF RowCount(r) = 0 THEN Dangling ELSE RowCount(r) - 1
<1>1. r \in RecordSets /\ RowCount(r) \in Nat
  BY DEF Sound, RecordSets, RowCount
<1>2. o.rs = [r EXCEPT !.m_cursor = c] /\ o.ret = Yes
  BY SoundOutcome DEF RsLast
<1>3. c \in Int \union {Dangling} /\ c \in 0 .. RowCount(r) \union {Dangling}
  BY <1>1
<1>4. /\ o.rs \in RecordSets /\ SameData(r, o.rs)
      /\ o.rs.m_cursorstate = r.m_cursorstate /\ o.rs.m_cursor = c
  BY <1>1, <1>2, <1>3 DEF RecordSets, SameData
<1>5. RowCount(o.rs) = RowCount(r)
  BY <1>4 DEF SameData, RowCount
<1>6. CursorInRange(o.rs) /\ NotBad(o.rs)
  BY <1>3, <1>4, <1>5 DEF CursorInRange, NotBad, Sound
<1>7. PlacedOn(r) => RowCount(r) # 0
  BY <1>1 DEF PlacedOn
<1>8. PlacedOn(r) => PlacedOn(o.rs) /\ o.rs.m_cursor = RowCount(r) - 1
  BY <1>1, <1>4, <1>5, <1>7 DEF PlacedOn
<1>. QED  BY <1>2, <1>4, <1>6, <1>8, Reframed

\* clear() and reset() leave an object without rows and without position.
LEMMA ClearMethod ==
  ASSUME NEW r, Sound(r), NEW o \in RsClear(r)
  PROVE  /\ Sound(o.rs) /\ RowCount(o.rs) = 0 /\ o.ret = Ok
         /\ o.rs.m_records = <<>>
         /\ ~IsPositioned(o.rs)
<1> DEFINE q == [r EXCEPT !.m_records = <<>>, !.m_cursorstate = CLOSED,
                          !.m_cursor = Dangling]
<1>1. r \in RecordSets /\ InStep(r)
  BY DEF Sound
<1>2. o.rs = q /\ o.ret = Ok
  BY SoundOutcome DEF RsClear
<1>3. CLOSED \in CursorStates /\ CLOSED = {}
  BY DEF CLOSED, CursorStates
<1>4. <<>> \in Seq(Rows)
  OBVIOUS
<1>5. /\ q \in RecordSets /\ q.m_records = <<>> /\ q.m_cursor = Dangling
      /\ q.m_cursorstate = {} /\ q.m_count = r.m_count
      /\ q.m_column_descriptors = r.m_column_descriptors
  BY <1>1, <1>3, <1>4 DEF RecordSets
<1>6. InStep(q) /\ CursorInRange(q) /\ NotBad(q) /\ RowCount(q) = 0 /\ ~IsPositioned(q)
  BY <1>1, <1>5 DEF InStep, CursorInRange, NotBad, RowCount, IsPositioned
<1>. QED  BY <1>2, <1>5, <1>6 DEF Sound

LEMMA ResetMethod ==
  ASSUME NEW r, Sound(r), NEW o \in RsReset(r)
  PROVE  /\ Sound(o.rs) /\ RowCount(o.rs) = 0 /\ o.ret = Ok
         /\ o.rs.m_records = <<>>
         /\ ~IsPositioned(o.rs)
<1>1. PICK p \in RsClear(r) :
        o = Outcome([p.rs EXCEPT !.m_count = 0, !.m_column_descriptors = <<>>], p.ret)
  BY DEF RsReset
<1>2. Sound(p.rs) /\ p.rs.m_records = <<>> /\ ~IsPositioned(p.rs) /\ p.ret = Ok
  BY ClearMethod
<1> DEFINE q == [p.rs EXCEPT !.m_count = 0, !.m_column_descriptors = <<>>]
<1>3. p.rs \in RecordSets /\ CursorInRange(p.rs) /\ NotBad(p.rs)
  BY <1>2 DEF Sound
<1>4. <<>> \in Seq(Names \union Nat) /\ Len(<<>>) = 0
  OBVIOUS
<1>5. /\ q \in RecordSets /\ q.m_records = <<>> /\ q.m_cursor = p.rs.m_cursor
      /\ q.m_cursorstate = p.rs.m_cursorstate /\ q.m_count = 0
      /\ q.m_column_descriptors = <<>>
  BY <1>2, <1>3, <1>4 DEF RecordSets
<1>6. InStep(q) /\ CursorInRange(q) /\ NotBad(q) /\ RowCount(q) = 0 /\ ~IsPositioned(q)
  BY <1>2, <1>3, <1>4, <1>5 DEF InStep, CursorInRange, NotBad, RowCount, IsPositioned
<1>. QED  BY <1>1, <1>2, <1>5, <1>6 DEF Sound, Outcome

\* updateDescriptors() makes as many descriptors as there are columns.
LEMMA Descriptors ==
  ASSUME NEW d \in Seq(Names \union Nat), NEW n \in Nat
  PROVE  /\ UpdateDescriptors(d, n) \in Seq(Names \union Nat)
         /\ Len(UpdateDescriptors(d, n)) = n
<1>1. \A i \in 1 .. n : (IF i <= Len(d) THEN d[i] ELSE i) \in Names \union Nat
  OBVIOUS
<1>2. UpdateDescriptors(d, n) \in [1 .. n -> Names \union Nat]
  BY <1>1 DEF UpdateDescriptors
<1>. QED  BY <1>2

\* The columns are n, the rows and the position those of r.
LEMMA Widened ==
  ASSUME NEW r, Sound(r), NEW n \in Nat
  PROVE  LET q == WithColumns(r, n)
         IN  /\ Sound(q) /\ q.m_records = r.m_records /\ q.m_count = n
             /\ q.m_cursor = r.m_cursor /\ q.m_cursorstate = r.m_cursorstate
<1> DEFINE q == WithColumns(r, n)
<1>1. r \in RecordSets /\ CursorInRange(r) /\ NotBad(r)
  BY DEF Sound
<1>2. r.m_column_descriptors \in Seq(Names \union Nat)
  BY <1>1 DEF RecordSets
<1>3. /\ UpdateDescriptors(r.m_column_descriptors, n) \in Seq(Names \union Nat)
      /\ Len(UpdateDescriptors(r.m_column_descriptors, n)) = n
  BY <1>2, Descriptors
<1>4. /\ q \in RecordSets /\ q.m_records = r.m_records /\ q.m_count = n
      /\ q.m_column_descriptors = UpdateDescriptors(r.m_column_descriptors, n)
      /\ q.m_cursor = r.m_cursor /\ q.m_cursorstate = r.m_cursorstate
  BY <1>1, <1>3 DEF RecordSets, WithColumns
<1> HIDE DEF q
<1>5. InStep(q)
  BY <1>3, <1>4 DEF InStep
<1>6. CursorInRange(q) /\ NotBad(q)
  BY <1>1, <1>4 DEF CursorInRange, NotBad, RowCount
<1>. QED  BY <1>4, <1>5, <1>6 DEF Sound, q

LEMMA SetColumnCountMethod ==
  ASSUME NEW r, Sound(r), NEW n \in Nat, NEW o \in RsSetColumnCount(r, n)
  PROVE  /\ Sound(o.rs) /\ o.rs.m_records = r.m_records /\ o.ret = Ok
         /\ o.rs.m_cursor = r.m_cursor /\ o.rs.m_cursorstate = r.m_cursorstate
<1>1. o.rs = WithColumns(r, n) /\ o.ret = Ok
  BY SoundOutcome DEF RsSetColumnCount
<1>. QED  BY <1>1, Widened

LEMMA ModifyColumnDescMethod ==
  ASSUME NEW r, Sound(r), NEW num \in Int, NEW name \in Names,
         NEW o \in RsModifyColumnDesc(r, num, name)
  PROVE  /\ Sound(o.rs) /\ o.rs.m_records = r.m_records /\ o.rs.m_count = r.m_count
         /\ o.rs.m_cursor = r.m_cursor /\ o.rs.m_cursorstate = r.m_cursorstate
         /\ num \in DOMAIN r.m_column_descriptors => o.ret = Ok
<1>1. /\ r \in RecordSets /\ r.m_column_descriptors \in Seq(Names \union Nat)
      /\ InStep(r) /\ CursorInRange(r) /\ NotBad(r)
  BY DEF Sound, RecordSets
<1>2. CASE num \notin DOMAIN r.m_column_descriptors
  <2>1. num <= 0 \/ num > Len(r.m_column_descriptors)
    BY <1>1, <1>2
  <2>2. o.rs = r
    BY <2>1, SoundOutcome DEF RsModifyColumnDesc, Asserting
  <2>. QED  BY <1>2, <2>2
<1>3. CASE num \in DOMAIN r.m_column_descriptors
  <2> DEFINE q == [r EXCEPT !.m_column_descriptors[num] = name]
             d == [r.m_column_descriptors EXCEPT ![num] = name]
  <2>1. ~(num <= 0) /\ ~(num > Len(r.m_column_descriptors))
    BY <1>1, <1>3
  <2>2. o.rs = q /\ o.ret = Ok
    BY <2>1, SoundOutcome DEF RsModifyColumnDesc
  <2>3. d \in Seq(Names \union Nat) /\ Len(d) = Len(r.m_column_descriptors)
    BY <1>1, <1>3
  <2>4. q = [r EXCEPT !.m_column_descriptors = d]
    OBVIOUS
  <2> HIDE DEF d, q
  <2>5. /\ q \in RecordSets /\ q.m_records = r.m_records /\ q.m_count = r.m_count
        /\ q.m_cursor = r.m_cursor /\ q.m_cursorstate = r.m_cursorstate
        /\ q.m_column_descriptors = d
    BY <1>1, <2>3, <2>4 DEF RecordSets
  <2>6. InStep(q) /\ CursorInRange(q) /\ NotBad(q)
    BY <1>1, <2>3, <2>5 DEF InStep, CursorInRange, NotBad, RowCount
  <2>. QED  BY <2>2, <2>5, <2>6 DEF Sound
<1>. QED  BY <1>2, <1>3

\* A row is appended; the iterator stays or dangles.
LEMMA PushBackMethod ==
  ASSUME NEW r, Sound(r), NEW row \in Rows, NEW q \in PushBack(r, <<row>>)
  PROVE  /\ Sound(q) /\ q.m_records = Append(r.m_records, row)
         /\ q.m_count = r.m_count /\ q.m_cursorstate = r.m_cursorstate
<1> DEFINE grown == [r EXCEPT !.m_records = @ \o <<row>>]
           loose == [grown EXCEPT !.m_cursor = Dangling]
<1>1. /\ r \in RecordSets /\ r.m_records \in Seq(Rows) /\ CursorInRange(r)
      /\ NotBad(r) /\ InStep(r)
  BY DEF Sound, RecordSets
<1>2. /\ r.m_records \o <<row>> = Append(r.m_records, row)
      /\ Append(r.m_records, row) \in Seq(Rows)
      /\ Len(Append(r.m_records, row)) = Len(r.m_records) + 1
  BY <1>1
<1>3. \/ q = grown /\ r.m_cursor \in 0 .. RowCount(r) - 1
      \/ q = loose
  BY DEF PushBack
<1>4. /\ grown \in RecordSets /\ grown.m_records = Append(r.m_records, row)
      /\ grown.m_count = r.m_count /\ grown.m_cursorstate = r.m_cursorstate
      /\ grown.m_column_descriptors = r.m_column_descriptors
      /\ grown.m_cursor = r.m_cursor
  BY <1>1, <1>2 DEF RecordSets
<1> HIDE DEF grown
<1>5. /\ loose \in RecordSets /\ loose.m_records = Append(r.m_records, row)
      /\ loose.m_count = r.m_count /\ loose.m_cursorstate = r.m_cursorstate
      /\ loose.m_column_descriptors = r.m_column_descriptors
      /\ loose.m_cursor = Dangling
  BY <1>4 DEF RecordSets
<1> HIDE DEF loose
<1>6. q.m_cursor \in 0 .. RowCount(q) \union {Dangling}
  BY <1>1, <1>2, <1>3, <1>4, <1>5 DEF RowCount
<1>7. /\ q \in RecordSets /\ q.m_records = Append(r.m_records, row)
      /\ q.m_count = r.m_count /\ q.m_cursorstate = r.m_cursorstate
      /\ q.m_column_descriptors = r.m_column_descriptors
  BY <1>3, <1>4, <1>5
<1>8. InStep(q) /\ NotBad(q) /\ CursorInRange(q)
  BY <1>1, <1>6, <1>7 DEF InStep, NotBad, CursorInRange
<1>. QED  BY <1>7, <1>8 DEF Sound

LEMMA InsertMethod ==
  ASSUME NEW r, Sound(r), NEW row \in Rows, NEW o \in RsInsert(r, row)
  PROVE  /\ Sound(o.rs) /\ o.rs.m_cursorstate = r.m_cursorstate
         /\ \/ o.ret = Throw /\ o.rs = r
            \/ /\ o.ret = Ok /\ o.rs.m_records = Append(r.m_records, row)
               /\ o.rs.m_count = Len(row)
               /\ HasColumns(r) => r.m_count = Len(row)
<1> DEFINE several == <<row>>
           width   == Len(several[1])
           wide    == IF HasColumns(r) THEN r ELSE WithColumns(r, width)
<1>1. width = Len(row) /\ width \in Nat
  BY RowsAssumption
<1>2. CASE ~Accepts(r, width)
  <2>1. o \in Only(r, Throw)
    BY <1>2 DEF RsInsert, RsInsertRows
  <2>. QED  BY <2>1, SoundOutcome
<1>3. CASE Accepts(r, width)
  <2>1. PICK after \in PushBack(wide, several) : o = Outcome(after, Ok)
    BY <1>3 DEF RsInsert, RsInsertRows
  <2>2. HasColumns(r) => r.m_count = width
    BY <1>3 DEF Accepts
  <2>3. /\ Sound(wide) /\ wide.m_records = r.m_records /\ wide.m_count = width
        /\ wide.m_cursorstate = r.m_cursorstate
    <3>1. CASE HasColumns(r)
      BY <2>2, <3>1
    <3>2. CASE ~HasColumns(r)
      BY <1>1, <3>2, Widened
    <3>. QED  BY <3>1, <3>2
  <2> HIDE DEF wide, width
  <2>4. /\ Sound(after) /\ after.m_records = Append(wide.m_records, row)
        /\ after.m_count = wide.m_count /\ after.m_cursorstate = wide.m_cursorstate
    BY <2>1, <2>3, PushBackMethod
  <2>. QED  BY <1>1, <2>1, <2>2, <2>3, <2>4 DEF Outcome
<1>. QED  BY <1>2, <1>3

\* The methods that read.
LEMMA ColumnMethod ==
  ASSUME NEW r, Sound(r), NEW num \in Int, NEW o \in RsColumn(r, num)
  PROVE  /\ o.rs = r
         /\ At(r) /\ PlacedOn(r) =>
              o.ret = IF num \in DOMAIN r.m_records[r.m_cursor + 1]
                        THEN Value(r.m_records[r.m_cursor + 1][num]) ELSE Throw
         /\ ~At(r) => o.ret = Throw
<1>1. CASE ~At(r) \/ num < 1
  <2>1. o.rs = r /\ o.ret = Throw
    BY <1>1, SoundOutcome DEF RsColumn, At
  <2>2. At(r) /\ PlacedOn(r) => num \notin DOMAIN r.m_records[r.m_cursor + 1]
    <3> SUFFICES ASSUME At(r), PlacedOn(r)
                 PROVE  num \notin DOMAIN r.m_records[r.m_cursor + 1]
      OBVIOUS
    <3>1. r.m_records \in Seq(Seq(Values))
      BY RowsAssumption, SeqMonotonic DEF Sound, RecordSets
    <3>2. r.m_records[r.m_cursor + 1] \in Seq(Values)
      BY <3>1 DEF PlacedOn, RowCount
    <3>. QED  BY <1>1, <3>2
  <2>. QED  BY <2>1, <2>2
<1>2. CASE At(r) /\ ~(num < 1) /\ ~PlacedOn(r)
  BY <1>2, SoundOutcome DEF RsColumn, At, PlacedOn
<1>3. CASE At(r) /\ ~(num < 1) /\ PlacedOn(r)
  <2> DEFINE row == r.m_records[r.m_cursor + 1]
  <2>1. o \in Only(r, IF num > Len(row) THEN Throw ELSE Value(row[num]))
    BY <1>3 DEF RsColumn, At, PlacedOn
  <2>2. r.m_records \in Seq(Seq(Values))
    BY RowsAssumption, SeqMonotonic DEF Sound, RecordSets
  <2>3. row \in Seq(Values)
    BY <1>3, <2>2 DEF PlacedOn, RowCount
  <2>4. num \in DOMAIN row <=> ~(num > Len(row))
    BY <1>3, <2>3
  <2> HIDE DEF row
  <2>5. o.rs = r /\ o.ret = IF num \in DOMAIN row THEN Value(row[num]) ELSE Throw
    BY <2>1, <2>4, SoundOutcome
  <2>. QED  BY <1>3, <2>5 DEF row
<1>. QED  BY <1>1, <1>2, <1>3

LEMMA ColumnIDMethod ==
  ASSUME NEW r, NEW name, NEW o \in RsColumnID(r, name)
  PROVE  o.rs = r /\ GoesOn(o.ret)
<1>1. \A v : GoesOn(Value(v))
  BY DEF GoesOn, Value, Abort, Undefined
<1>2. GoesOn(Throw)
  BY DEF GoesOn, Throw, Abort, Undefined
<1>. QED  BY <1>1, <1>2, SoundOutcome DEF RsColumnID

LEMMA DescribeColumnMethod ==
  ASSUME NEW r, Sound(r), NEW num \in Int, NEW o \in RsDescribeColumn(r, num)
  PROVE  o.rs = r /\ GoesOn(o.ret)
<1>1. GoesOn(Throw) /\ \A v : GoesOn(Value(v))
  BY DEF GoesOn, Throw, Value, Abort, Undefined
<1>2. Len(r.m_column_descriptors) = r.m_count /\ r.m_count \in Nat
  BY DEF Sound, InStep, RecordSets
<1>3. CASE num \notin 1 .. r.m_count
  BY <1>1, <1>3, SoundOutcome DEF RsDescribeColumn
<1>4. CASE num \in 1 .. r.m_count
  <2>1. ~(num > Len(r.m_column_descriptors))
    BY <1>2, <1>4
  <2>. QED  BY <1>1, <1>4, <2>1, SoundOutcome DEF RsDescribeColumn
<1>. QED  BY <1>3, <1>4

-----------------------------------------------------------------------------
(* Any client                                                              *)

\* What holds whatever the client does.
AnyInv ==
  /\ Sound(rs)
  /\ RowCount(rs) <= MaxRows
  /\ disturbed \in BOOLEAN
  /\ CursorOnRow

LEMMA AnyInit == Init => AnyInv
<1> SUFFICES ASSUME Init PROVE AnyInv
  OBVIOUS
<1>1. CLOSED \in CursorStates /\ CLOSED = {}
  BY DEF CLOSED, CursorStates
<1>2. <<>> \in Seq(Rows) /\ <<>> \in Seq(Names \union Nat) /\ Len(<<>>) = 0
  OBVIOUS
<1>3. rs = RecordSetInit /\ disturbed = FALSE
  BY DEF Init
<1>4. Sound(rs)
  BY <1>1, <1>2, <1>3
  DEF RecordSetInit, RecordSets, Sound, CursorInRange, NotBad, InStep, RowCount
<1>5. RowCount(rs) = 0 /\ ~IsPositioned(rs)
  BY <1>1, <1>2, <1>3 DEF RecordSetInit, RowCount, IsPositioned
<1>6. RowCount(rs) <= MaxRows
  BY <1>5, BoundsAssumption
<1>7. CursorOnRow
  BY <1>5 DEF CursorOnRow, OnRow
<1>. QED  BY <1>3, <1>4, <1>6, <1>7 DEF AnyInv

\* The rows of two objects with the same data are as many.
LEMMA SameCount ==
  ASSUME NEW r, NEW q, SameData(r, q)
  PROVE  RowCount(q) = RowCount(r)
BY DEF SameData, RowCount

\* The invariant after a step, in terms of the object.
LEMMA AnyAfter ==
  ASSUME Sound(rs'), RowCount(rs') <= MaxRows, disturbed' \in BOOLEAN,
         At(rs') /\ ~disturbed' => PlacedOn(rs')
  PROVE  AnyInv'
<1>1. CursorOnRow'
  BY DEF CursorOnRow, OnRow, At, PlacedOn, RowCount, IsPositioned, IsEof
<1>2. Sound(rs)' /\ (RowCount(rs) <= MaxRows)'
  BY DEF Sound, RecordSets, CursorInRange, NotBad, InStep, RowCount
<1>. QED  BY <1>1, <1>2 DEF AnyInv

\* A step that answers and leaves the object as it was.
LEMMA AnyAnswer == AnyInv /\ rs' = rs /\ disturbed' = disturbed => AnyInv'
<1> SUFFICES ASSUME AnyInv, rs' = rs, disturbed' = disturbed PROVE AnyInv'
  OBVIOUS
<1>. QED
  BY DEF AnyInv, CursorOnRow, OnRow, IsPositioned, IsEof, RowCount, Sound,
         RecordSets, CursorInRange, NotBad, InStep

LEMMA AnyOpen == AnyInv /\ open => AnyInv'
<1> SUFFICES ASSUME AnyInv, open PROVE AnyInv'
  OBVIOUS
<1>1. PICK o \in RsOpen(rs) : rs' = o.rs
  BY DEF open, Afresh, Call
<1>2. Sound(rs') /\ SameData(rs, rs') /\ ~IsPositioned(rs')
  BY <1>1, OpenMethod DEF AnyInv
<1>3. RowCount(rs') <= MaxRows /\ disturbed' \in BOOLEAN /\ ~At(rs')
  BY <1>2, SameCount DEF AnyInv, open, Afresh, At
<1>. QED  BY <1>2, <1>3, AnyAfter

LEMMA AnyFirst == AnyInv /\ first => AnyInv'
<1> SUFFICES ASSUME AnyInv, first PROVE AnyInv'
  OBVIOUS
<1>1. PICK o \in RsFirst(rs) : rs' = o.rs
  BY DEF first, Afresh, Call
<1>2. Sound(rs') /\ SameData(rs, rs') /\ (At(rs') => PlacedOn(rs'))
  BY <1>1, FirstMethod DEF AnyInv
<1>3. RowCount(rs') <= MaxRows /\ disturbed' \in BOOLEAN
  BY <1>2, SameCount DEF AnyInv, first, Afresh
<1>. QED  BY <1>2, <1>3, AnyAfter

LEMMA AnyNext == AnyInv /\ next => AnyInv'
<1> SUFFICES ASSUME AnyInv, next PROVE AnyInv'
  OBVIOUS
<1>1. PICK o \in RsNext(rs) : rs' = o.rs
  BY DEF next, Quietly, Call
<1>2. Sound(rs) /\ Sound(rs') /\ SameData(rs, rs')
  BY <1>1, NextMethod DEF AnyInv
<1>3. RowCount(rs') <= MaxRows /\ disturbed' \in BOOLEAN /\ disturbed' = disturbed
  BY <1>2, SameCount DEF AnyInv, next, Quietly
<1>4. ASSUME At(rs'), ~disturbed' PROVE PlacedOn(rs')
  <2>1. CASE At(rs)
    <3>1. PlacedOn(rs)
      BY <1>3, <1>4, <2>1 DEF AnyInv, CursorOnRow, OnRow, At, PlacedOn
    <3>. QED  BY <1>1, <1>2, <1>4, <2>1, <3>1, NextMethod
  <2>2. CASE IsPositioned(rs) /\ IsEof(rs)
    <3>1. rs' = rs
      BY <1>1, <1>2, <2>2, NextMethod
    <3>. QED  BY <1>4, <2>2, <3>1 DEF At, IsPositioned, IsEof
  <2>3. CASE ~IsPositioned(rs)
    <3>1. PICK a \in RsNext(rs) : a.rs = rs'
      BY <1>1
    <3>2. rs'.m_cursorstate = rs.m_cursorstate \/ IsEof(rs')
      BY <1>1, <1>2, <2>3, AdvanceMethod, SoundOutcome DEF RsNext
    <3>. QED  BY <1>4, <2>3, <3>2 DEF At, IsPositioned, IsEof
  <2>. QED  BY <2>1, <2>2, <2>3 DEF At
<1>. QED  BY <1>2, <1>3, <1>4, AnyAfter

LEMMA AnyPrev == AnyInv /\ prev => AnyInv'
<1> SUFFICES ASSUME AnyInv, prev PROVE AnyInv'
  OBVIOUS
<1>1. PICK o \in RsPrev(rs) : rs' = o.rs
  BY DEF prev, Quietly, Call
<1>2. /\ Sound(rs') /\ SameData(rs, rs') /\ rs'.m_cursorstate = rs.m_cursorstate
      /\ PlacedOn(rs) => PlacedOn(rs')
  BY <1>1, PrevMethod DEF AnyInv
<1>3. RowCount(rs') <= MaxRows /\ disturbed' \in BOOLEAN /\ disturbed' = disturbed
  BY <1>2, SameCount DEF AnyInv, prev, Quietly
<1>4. At(rs') => At(rs)
  BY <1>2 DEF At, IsPositioned, IsEof
<1>5. At(rs) /\ ~disturbed => PlacedOn(rs)
  BY DEF AnyInv, CursorOnRow, OnRow, At, PlacedOn
<1>. QED  BY <1>2, <1>3, <1>4, <1>5, AnyAfter

LEMMA AnyLast == AnyInv /\ last => AnyInv'
<1> SUFFICES ASSUME AnyInv, last PROVE AnyInv'
  OBVIOUS
<1>1. PICK o \in RsLast(rs) : rs' = o.rs
  BY DEF last, Quietly, Call
<1>2. /\ Sound(rs') /\ SameData(rs, rs') /\ rs'.m_cursorstate = rs.m_cursorstate
      /\ PlacedOn(rs) => PlacedOn(rs')
  BY <1>1, LastMethod DEF AnyInv
<1>3. RowCount(rs') <= MaxRows /\ disturbed' \in BOOLEAN /\ disturbed' = disturbed
  BY <1>2, SameCount DEF AnyInv, last, Quietly
<1>4. At(rs') => At(rs)
  BY <1>2 DEF At, IsPositioned, IsEof
<1>5. At(rs) /\ ~disturbed => PlacedOn(rs)
  BY DEF AnyInv, CursorOnRow, OnRow, At, PlacedOn
<1>. QED  BY <1>2, <1>3, <1>4, <1>5, AnyAfter

LEMMA AnySetpos ==
  ASSUME AnyInv, NEW row \in RowNumbers, setpos(row)
  PROVE  AnyInv'
<1>0. row \in Int
  BY BoundsAssumption DEF RowNumbers
<1>1. PICK o \in RsSetpos(rs, row) : rs' = o.rs /\ ret' = o.ret
  BY DEF setpos, Call
<1>2. /\ Sound(rs') /\ SameData(rs, rs')
      /\ (ret' = No /\ rs' = rs) \/ PlacedOn(rs')
  BY <1>0, <1>1, SetposMethod DEF AnyInv
<1>3. RowCount(rs') <= MaxRows /\ disturbed' \in BOOLEAN
  BY <1>2, SameCount DEF AnyInv, setpos
<1>4. CASE PlacedOn(rs')
  BY <1>2, <1>3, <1>4, AnyAfter
<1>5. CASE ret' = No /\ rs' = rs
  <2>1. disturbed' = disturbed
    BY <1>5 DEF setpos, AnyInv
  <2>. QED  BY <1>5, <2>1, AnyAnswer
<1>. QED  BY <1>2, <1>4, <1>5

LEMMA AnyInsert ==
  ASSUME AnyInv, NEW row \in Rows, insert(row)
  PROVE  AnyInv'
<1>1. PICK o \in RsInsert(rs, row) : rs' = o.rs /\ ret' = o.ret
  BY DEF insert, Call
<1>2. /\ Sound(rs) /\ Sound(rs') /\ rs'.m_cursorstate = rs.m_cursorstate
      /\ \/ ret' = Throw /\ rs' = rs
         \/ ret' = Ok /\ rs'.m_records = Append(rs.m_records, row)
  BY <1>1, InsertMethod DEF AnyInv
<1>3. CASE ret' = Throw /\ rs' = rs
  <2>1. disturbed' = disturbed
    BY <1>3 DEF insert, AnyInv, Throw, Ok
  <2>. QED  BY <1>3, <2>1, AnyAnswer
<1>4. CASE ret' = Ok /\ rs'.m_records = Append(rs.m_records, row)
  <2>1. rs.m_records \in Seq(Rows) /\ RowCount(rs) < MaxRows
    BY <1>2 DEF Sound, RecordSets, insert
  <2>2. RowCount(rs') <= MaxRows
    BY <1>4, <2>1, BoundsAssumption DEF RowCount
  <2>3. disturbed' \in BOOLEAN /\ (At(rs') => disturbed')
    BY <1>2, <1>4 DEF insert, AnyInv, At, OnRow, IsPositioned, IsEof
  <2>. QED  BY <1>2, <2>2, <2>3, AnyAfter
<1>. QED  BY <1>2, <1>3, <1>4

LEMMA AnyClear == AnyInv /\ (clear \/ reset) => AnyInv'
<1> SUFFICES ASSUME AnyInv, clear \/ reset PROVE AnyInv'
  OBVIOUS
<1>1. PICK o \in RsClear(rs) \union RsReset(rs) : rs' = o.rs
  BY DEF clear, reset, Afresh, Call
<1>2. Sound(rs') /\ RowCount(rs') = 0 /\ ~IsPositioned(rs')
  BY <1>1, ClearMethod, ResetMethod DEF AnyInv
<1>3. disturbed' = FALSE
  BY DEF clear, reset, Afresh
<1>4. RowCount(rs') <= MaxRows
  BY <1>2, BoundsAssumption
<1>5. ~At(rs')
  BY <1>2 DEF At
<1>. QED  BY <1>2, <1>3, <1>4, <1>5, AnyAfter

\* The columns are described anew.
LEMMA AnyColumns ==
  ASSUME AnyInv, Sound(rs'), disturbed' = disturbed,
         rs'.m_records = rs.m_records, rs'.m_cursor = rs.m_cursor,
         rs'.m_cursorstate = rs.m_cursorstate
  PROVE  AnyInv'
<1>1. RowCount(rs') <= MaxRows /\ disturbed' \in BOOLEAN
  BY DEF AnyInv, RowCount
<1>2. At(rs') /\ ~disturbed' => PlacedOn(rs')
  BY DEF AnyInv, CursorOnRow, OnRow, At, PlacedOn, IsPositioned, IsEof, RowCount
<1>. QED  BY <1>1, <1>2, AnyAfter

LEMMA AnySetColumnCount ==
  ASSUME AnyInv, NEW num \in 0 .. MaxCols, setColumnCount(num)
  PROVE  AnyInv'
<1>1. PICK o \in RsSetColumnCount(rs, num) : rs' = o.rs
  BY DEF setColumnCount, Quietly, Call
<1>2. num \in Nat /\ Sound(rs) /\ disturbed' = disturbed
  BY BoundsAssumption DEF AnyInv, setColumnCount, Quietly
<1>. QED  BY <1>1, <1>2, SetColumnCountMethod, AnyColumns

LEMMA AnyModifyColumnDesc ==
  ASSUME AnyInv, NEW num \in Int, NEW name \in Names, modifyColumnDesc(num, name)
  PROVE  AnyInv'
<1>1. PICK o \in RsModifyColumnDesc(rs, num, name) : rs' = o.rs
  BY DEF modifyColumnDesc, Quietly, Call
<1>2. Sound(rs) /\ disturbed' = disturbed
  BY DEF AnyInv, modifyColumnDesc, Quietly
<1>. QED  BY <1>1, <1>2, ModifyColumnDescMethod, AnyColumns

\* The calls that only read, and close(), which does nothing.
LEMMA Readers ==
  ASSUME AnyInv,
         \/ eof \/ close
         \/ \E num \in ColumnNumbers : column(num) \/ describeColumn(num)
         \/ \E name \in ColumnNames : columnID(name)
  PROVE  rs' = rs /\ disturbed' = disturbed
<1>1. Sound(rs) /\ ColumnNumbers \subseteq Int
  BY BoundsAssumption DEF AnyInv, ColumnNumbers
<1>2. CASE eof
  BY <1>2, EofMethod DEF eof, Quietly, Call
<1>3. CASE close
  BY <1>3, SoundOutcome DEF close, Quietly, Call, RsClose
<1>4. ASSUME NEW num \in ColumnNumbers, column(num)
      PROVE  rs' = rs /\ disturbed' = disturbed
  BY <1>1, <1>4, ColumnMethod DEF column, Quietly, Call
<1>5. ASSUME NEW num \in ColumnNumbers, describeColumn(num)
      PROVE  rs' = rs /\ disturbed' = disturbed
  BY <1>1, <1>5, DescribeColumnMethod DEF describeColumn, Quietly, Call
<1>6. ASSUME NEW name \in ColumnNames, columnID(name)
      PROVE  rs' = rs /\ disturbed' = disturbed
  BY <1>6, ColumnIDMethod DEF columnID, Quietly, Call
<1>. QED  BY <1>2, <1>3, <1>4, <1>5, <1>6

LEMMA AnyStep == AnyInv /\ [Next]_vars => AnyInv'
<1> SUFFICES ASSUME AnyInv, [Next]_vars PROVE AnyInv'
  OBVIOUS
<1>1. CASE open
  BY <1>1, AnyOpen
<1>2. CASE first
  BY <1>2, AnyFirst
<1>3. CASE next
  BY <1>3, AnyNext
<1>4. CASE prev
  BY <1>4, AnyPrev
<1>5. CASE last
  BY <1>5, AnyLast
<1>6. CASE clear \/ reset
  BY <1>6, AnyClear
<1>7. CASE \/ eof \/ close
           \/ \E num \in ColumnNumbers : column(num) \/ describeColumn(num)
           \/ \E name \in ColumnNames : columnID(name)
  BY <1>7, Readers, AnyAnswer
<1>8. CASE \E row \in RowNumbers : setpos(row)
  BY <1>8, AnySetpos
<1>9. CASE \E row \in Rows : insert(row)
  BY <1>9, AnyInsert
<1>10. CASE \E num \in 0 .. MaxCols : setColumnCount(num)
  BY <1>10, AnySetColumnCount
<1>11. CASE \E num \in ColumnNumbers, name \in Names : modifyColumnDesc(num, name)
  BY <1>11, AnyModifyColumnDesc, BoundsAssumption DEF ColumnNumbers
<1>12. CASE UNCHANGED vars
  BY <1>12, AnyAnswer DEF vars
<1>. QED
  BY <1>1, <1>2, <1>3, <1>4, <1>5, <1>6, <1>7, <1>8, <1>9, <1>10, <1>11, <1>12 DEF Next

LEMMA AnyImplies == AnyInv => TypeOK /\ DescriptorsMatch /\ CursorOnRow
BY DEF AnyInv, Sound, RecordSets, CursorInRange, NotBad, InStep, TypeOK, DescriptorsMatch

THEOREM AnyInductive == Spec => []AnyInv
<1>. QED  BY AnyInit, AnyStep, PTL DEF Spec

\* The members keep their types, and the iterator a place in the vector,
\* whatever the client calls.
THEOREM TypeCorrect == Spec => []TypeOK
<1>1. AnyInv => TypeOK
  BY AnyImplies
<1>. QED  BY <1>1, AnyInductive, PTL

\* Whatever the client calls, describeColumn() finds a descriptor for every
\* column: setColumnCount(), insert() and reset() keep the two in step.
THEOREM DescriptorsComplete == Spec => []DescriptorsMatch
<1>1. AnyInv => DescriptorsMatch
  BY AnyImplies
<1>. QED  BY <1>1, AnyInductive, PTL

\* column() reads a live row as long as nobody inserted rows under the cursor.
THEOREM CursorNeverDangles == Spec => []CursorOnRow
<1>1. AnyInv => CursorOnRow
  BY AnyImplies
<1>. QED  BY <1>1, AnyInductive, PTL

-----------------------------------------------------------------------------
(***************************************************************************)
(* What a RecordSet promises to a client that keeps the protocol: no call  *)
(* fails, its rows have one width, and iterator and flags together are a   *)
(* position in a ScrollableDataset.                                        *)
(***************************************************************************)

\* Under the protocol nothing disturbs the cursor, and no call fails.
ProtocolInv ==
  /\ AnyInv
  /\ disturbed = FALSE
  /\ RowsUniform
  /\ Running

\* The abstract position of an object.
Pos(r) ==
  IF ~IsPositioned(r) THEN 0
  ELSE IF IsEof(r) THEN RowCount(r) + 1 ELSE r.m_cursor + 1

\* The current row of the abstract dataset is the one under the iterator.
LEMMA Positions ==
  ASSUME NEW r, RowCount(r) \in Nat, At(r) => PlacedOn(r)
  PROVE  /\ Pos(r) \in 0 .. RowCount(r) + 1
         /\ Pos(r) = 0 <=> ~IsPositioned(r)
         /\ Pos(r) = RowCount(r) + 1 <=> IsPositioned(r) /\ IsEof(r)
         /\ Pos(r) \in 1 .. RowCount(r) <=> At(r)
         /\ At(r) => Pos(r) = r.m_cursor + 1
BY DEF Pos, At, PlacedOn

LEMMA AbstractPosition == position = Pos(rs) /\ position' = Pos(rs')
BY DEF position, Pos, IsPositioned, IsEof, RowCount

LEMMA Fine ==
  /\ GoesOn(None) /\ GoesOn(Ok) /\ GoesOn(Yes) /\ GoesOn(No) /\ GoesOn(Throw)
  /\ \A v : GoesOn(Value(v))
BY DEF GoesOn, None, Ok, Yes, No, Throw, Value, Abort, Undefined

\* The dataset answers with the same words.
LEMMA Words ==
  /\ Dataset!Ok = Ok /\ Dataset!Yes = Yes /\ Dataset!No = No /\ Dataset!Throw = Throw
  /\ \A b : Dataset!Bool(b) = Bool(b)
  /\ \A v : Dataset!Value(v) = Value(v)
BY DEF Ok, Yes, No, Throw, Bool, Value,
       Dataset!Ok, Dataset!Yes, Dataset!No, Dataset!Throw, Dataset!Bool, Dataset!Value

\* What the invariant says of the object.
LEMMA Here ==
  ASSUME ProtocolInv
  PROVE  /\ Sound(rs) /\ rs.m_records \in Seq(Rows) /\ RowCount(rs) \in Nat
         /\ At(rs) => PlacedOn(rs)
         /\ OnRow <=> At(rs)
BY DEF ProtocolInv, AnyInv, CursorOnRow, OnRow, At, PlacedOn, Sound, RecordSets, RowCount

\* The rows keep their width when neither they nor the columns change.
LEMMA SameWidths ==
  ASSUME RowsUniform, rs'.m_records = rs.m_records, rs'.m_count = rs.m_count
  PROVE  RowsUniform'
BY DEF RowsUniform, RowCount

\* The step leaves the data alone and answers.
LEMMA QuietStep ==
  ASSUME ProtocolInv, AnyInv', disturbed' = disturbed, SameData(rs, rs'), GoesOn(ret')
  PROVE  ProtocolInv'
<1>1. RowsUniform'
  BY SameWidths DEF ProtocolInv, SameData
<1>. QED  BY <1>1 DEF ProtocolInv, Running

-----------------------------------------------------------------------------
(* One lemma per call: it keeps the invariant and is a step of the dataset *)

LEMMA OpenStep == ProtocolInv /\ open => ProtocolInv' /\ Dataset!Open
<1> SUFFICES ASSUME ProtocolInv, open PROVE ProtocolInv' /\ Dataset!Open
  OBVIOUS
<1>1. PICK o \in RsOpen(rs) : rs' = o.rs /\ ret' = o.ret
  BY DEF open, Afresh, Call
<1>2. op' = <<"open">> /\ disturbed' = FALSE
  BY DEF open, Afresh, Call
<1>3. SameData(rs, rs') /\ ~IsPositioned(rs') /\ ret' = Ok
  BY <1>1, Here, OpenMethod
<1>4. ProtocolInv'
  BY <1>2, <1>3, AnyOpen, QuietStep, Fine DEF ProtocolInv
<1>5. position' = 0
  BY <1>3, AbstractPosition DEF Pos
<1>6. Dataset!Open
  BY <1>2, <1>3, <1>5, Words DEF Dataset!Open, SameData
<1>. QED  BY <1>4, <1>6

LEMMA FirstStep == ProtocolInv /\ first => ProtocolInv' /\ Dataset!First
<1> SUFFICES ASSUME ProtocolInv, first PROVE ProtocolInv' /\ Dataset!First
  OBVIOUS
<1>1. PICK o \in RsFirst(rs) : rs' = o.rs /\ ret' = o.ret
  BY DEF first, Afresh, Call
<1>2. op' = <<"first">> /\ disturbed' = FALSE
  BY DEF first, Afresh, Call
<1>3. /\ SameData(rs, rs') /\ ret' = Ok /\ IsPositioned(rs')
      /\ IsEof(rs') <=> RowCount(rs) = 0
      /\ rs'.m_cursor = 0
  BY <1>1, Here, FirstMethod
<1>4. ProtocolInv'
  BY <1>2, <1>3, AnyFirst, QuietStep, Fine DEF ProtocolInv
<1>5. position' = 1
  BY <1>3, AbstractPosition, SameCount, Here DEF Pos
<1>6. Dataset!First
  BY <1>2, <1>3, <1>5, Words DEF Dataset!First, Dataset!MoveTo, SameData
<1>. QED  BY <1>4, <1>6

LEMMA NextStep ==
  ProtocolInv /\ IsPositioned(rs) /\ next => ProtocolInv' /\ Dataset!Next
<1> SUFFICES ASSUME ProtocolInv, IsPositioned(rs), next
             PROVE  ProtocolInv' /\ Dataset!Next
  OBVIOUS
<1>1. PICK o \in RsNext(rs) : rs' = o.rs /\ ret' = o.ret
  BY DEF next, Quietly, Call
<1>2. op' = <<"next">> /\ disturbed' = disturbed
  BY DEF next, Quietly, Call
<1>3. Sound(rs') /\ SameData(rs, rs') /\ GoesOn(ret') /\ IsPositioned(rs')
  BY <1>1, Here, NextMethod
<1>4. ProtocolInv'
  BY <1>2, <1>3, AnyNext, QuietStep DEF ProtocolInv
<1>5. RowCount(rs') = RowCount(rs) /\ RowCount(rs) \in Nat /\ (At(rs') => PlacedOn(rs'))
  <2>1. At(rs') => PlacedOn(rs')
    BY <1>4 DEF ProtocolInv, AnyInv, CursorOnRow, OnRow, At, PlacedOn, IsPositioned,
                IsEof, RowCount
  <2>. QED  BY <1>3, <2>1, SameCount, Here
<1>6. CASE IsEof(rs)
  <2>1. rs' = rs /\ ret' = No
    BY <1>1, <1>6, Here, NextMethod
  <2>2. position' = position /\ position = RowCount(rs) + 1
    BY <1>5, <1>6, <2>1, AbstractPosition DEF Pos
  <2>3. position = Len(rs.m_records) + 1
    BY <2>2 DEF RowCount
  <2>. QED
    BY <1>2, <1>4, <2>1, <2>2, <2>3, Words
    DEF Dataset!Next, Dataset!Answer, Dataset!MoveTo, Dataset!End
<1>7. CASE ~IsEof(rs) /\ rs.m_cursor + 1 < RowCount(rs)
  <2>1. At(rs) /\ PlacedOn(rs)
    BY <1>7, Here DEF At
  <2>2. ret' = Yes /\ At(rs') /\ rs'.m_cursor = rs.m_cursor + 1
    BY <1>1, <1>7, <2>1, Here, NextMethod
  <2>3. position = rs.m_cursor + 1 /\ position' = position + 1
    BY <1>5, <2>1, <2>2, AbstractPosition, Positions
  <2>4. position < Len(rs.m_records)
    BY <1>7, <2>3 DEF RowCount
  <2>. QED
    BY <1>2, <1>3, <1>4, <2>2, <2>3, <2>4, Words
    DEF Dataset!Next, Dataset!MoveTo, SameData
<1>8. CASE ~IsEof(rs) /\ ~(rs.m_cursor + 1 < RowCount(rs))
  <2>1. At(rs) /\ PlacedOn(rs)
    BY <1>8, Here DEF At
  <2>2. rs.m_cursor + 1 = RowCount(rs) /\ ret' = No /\ IsPositioned(rs') /\ IsEof(rs')
    BY <1>1, <1>8, <2>1, Here, NextMethod
  <2>3. position = RowCount(rs) /\ position' = RowCount(rs) + 1
    BY <1>5, <2>1, <2>2, AbstractPosition, Positions
  <2>4. position = Len(rs.m_records) /\ position' = Len(rs.m_records) + 1
    BY <2>3 DEF RowCount
  <2>. QED
    BY <1>2, <1>3, <1>4, <2>2, <2>4, Words
    DEF Dataset!Next, Dataset!MoveTo, Dataset!End, SameData
<1>. QED  BY <1>6, <1>7, <1>8

LEMMA EofStep ==
  ProtocolInv /\ IsPositioned(rs) /\ eof => ProtocolInv' /\ Dataset!Eof
<1> SUFFICES ASSUME ProtocolInv, IsPositioned(rs), eof
             PROVE  ProtocolInv' /\ Dataset!Eof
  OBVIOUS
<1>1. PICK o \in RsEof(rs) : rs' = o.rs /\ ret' = o.ret
  BY DEF eof, Quietly, Call
<1>2. op' = <<"eof">> /\ disturbed' = disturbed
  BY DEF eof, Quietly, Call
<1>3. rs' = rs /\ ret' = Bool(IsEof(rs))
  BY <1>1, EofMethod
<1>4. GoesOn(ret') /\ SameData(rs, rs')
  BY <1>3, Fine DEF Bool, SameData
<1>5. ProtocolInv'
  BY <1>2, <1>3, <1>4, AnyAnswer, QuietStep DEF ProtocolInv
<1>6. position' = position /\ position # 0
  BY <1>3, AbstractPosition, Here, Positions
<1>7. IsEof(rs) <=> position = RowCount(rs) + 1
  BY AbstractPosition, Here, Positions
<1>8. ret' = Bool(position = Len(rs.m_records) + 1)
  <2>1. IsEof(rs) <=> position = Len(rs.m_records) + 1
    BY <1>7 DEF RowCount
  <2>. QED  BY <1>3, <2>1 DEF Bool
<1>9. Dataset!Eof
  BY <1>2, <1>3, <1>6, <1>8, Words
  DEF Dataset!Eof, Dataset!Answer, Dataset!MoveTo, Dataset!End
<1>. QED  BY <1>5, <1>9

LEMMA PrevStep == ProtocolInv /\ OnRow /\ prev => ProtocolInv' /\ Dataset!Prev
<1> SUFFICES ASSUME ProtocolInv, OnRow, prev PROVE ProtocolInv' /\ Dataset!Prev
  OBVIOUS
<1>1. PICK o \in RsPrev(rs) : rs' = o.rs /\ ret' = o.ret
  BY DEF prev, Quietly, Call
<1>2. op' = <<"prev">> /\ disturbed' = disturbed
  BY DEF prev, Quietly, Call
<1>3. At(rs) /\ PlacedOn(rs) /\ RowCount(rs) \in Nat
  BY Here
<1>4. /\ SameData(rs, rs') /\ rs'.m_cursorstate = rs.m_cursorstate
      /\ GoesOn(ret') /\ PlacedOn(rs')
      /\ \/ rs.m_cursor = 0 /\ ret' = No /\ rs' = rs
         \/ rs.m_cursor > 0 /\ ret' = Yes /\ rs'.m_cursor = rs.m_cursor - 1
  BY <1>1, <1>3, Here, PrevMethod
<1>5. ProtocolInv'
  BY <1>2, <1>4, AnyPrev, QuietStep DEF ProtocolInv
<1>6. At(rs') /\ RowCount(rs') = RowCount(rs)
  BY <1>3, <1>4, SameCount DEF At, IsPositioned, IsEof
<1>7. /\ position = rs.m_cursor + 1 /\ position' = rs'.m_cursor + 1
      /\ position \in 1 .. Len(rs.m_records)
  <2>1. position = rs.m_cursor + 1 /\ position' = rs'.m_cursor + 1
    BY <1>3, <1>4, <1>6, AbstractPosition, Positions
  <2>. QED  BY <1>3, <2>1 DEF PlacedOn, RowCount
<1>8. CASE rs.m_cursor = 0 /\ ret' = No /\ rs' = rs
  <2>1. position = 1 /\ position' = position
    BY <1>7, <1>8
  <2>. QED
    BY <1>2, <1>4, <1>5, <1>7, <1>8, <2>1, Words
    DEF Dataset!Prev, Dataset!Answer, Dataset!MoveTo, Dataset!OnRow, SameData
<1>9. CASE rs.m_cursor > 0 /\ ret' = Yes /\ rs'.m_cursor = rs.m_cursor - 1
  <2>1. position > 1 /\ position' = position - 1
    BY <1>3, <1>7, <1>9 DEF PlacedOn
  <2>. QED
    BY <1>2, <1>4, <1>5, <1>7, <1>9, <2>1, Words
    DEF Dataset!Prev, Dataset!MoveTo, Dataset!OnRow, SameData
<1>. QED  BY <1>4, <1>8, <1>9

LEMMA LastStep == ProtocolInv /\ OnRow /\ last => ProtocolInv' /\ Dataset!Last
<1> SUFFICES ASSUME ProtocolInv, OnRow, last PROVE ProtocolInv' /\ Dataset!Last
  OBVIOUS
<1>1. PICK o \in RsLast(rs) : rs' = o.rs /\ ret' = o.ret
  BY DEF last, Quietly, Call
<1>2. op' = <<"last">> /\ disturbed' = disturbed
  BY DEF last, Quietly, Call
<1>3. At(rs) /\ PlacedOn(rs) /\ RowCount(rs) \in Nat
  BY Here
<1>4. /\ SameData(rs, rs') /\ rs'.m_cursorstate = rs.m_cursorstate /\ ret' = Yes
      /\ PlacedOn(rs') /\ rs'.m_cursor = RowCount(rs) - 1
  BY <1>1, <1>3, Here, LastMethod
<1>5. ProtocolInv'
  BY <1>2, <1>4, AnyLast, QuietStep, Fine DEF ProtocolInv
<1>6. At(rs') /\ RowCount(rs') = RowCount(rs)
  BY <1>3, <1>4, SameCount DEF At, IsPositioned, IsEof
<1>7. position' = RowCount(rs)
  BY <1>3, <1>4, <1>6, AbstractPosition, Positions
<1>8. rs.m_records # <<>> /\ position' = Len(rs.m_records)
  <2>1. RowCount(rs) # 0
    BY <1>3 DEF PlacedOn
  <2>. QED  BY <1>7, <2>1 DEF RowCount
<1>9. Dataset!Last
  BY <1>2, <1>4, <1>8, Words DEF Dataset!Last, Dataset!MoveTo, SameData
<1>. QED  BY <1>5, <1>9

LEMMA SetposStep ==
  ASSUME ProtocolInv, NEW row \in RowNumbers, setpos(row)
  PROVE  ProtocolInv' /\ Dataset!Setpos(row)
<1>0. row \in Int /\ RowCount(rs) \in Nat
  BY BoundsAssumption, Here DEF RowNumbers
<1>1. PICK o \in RsSetpos(rs, row) : rs' = o.rs /\ ret' = o.ret
  BY DEF setpos, Call
<1>2. op' = <<"setpos", row>> /\ disturbed' = disturbed
  BY DEF setpos, Call, ProtocolInv
<1>3. /\ SameData(rs, rs')
      /\ \/ row \notin 1 .. RowCount(rs) /\ ret' = No /\ rs' = rs
         \/ /\ row \in 1 .. RowCount(rs) /\ ret' = Yes
            /\ IsPositioned(rs') /\ ~IsEof(rs')
            /\ rs'.m_cursor = row - 1 /\ PlacedOn(rs')
  BY <1>0, <1>1, Here, SetposMethod
<1>4. GoesOn(ret')
  BY <1>3, Fine
<1>5. ProtocolInv'
  BY <1>2, <1>3, <1>4, AnySetpos, QuietStep DEF ProtocolInv
<1>6. CASE row \notin 1 .. RowCount(rs)
  <2>1. ret' = No /\ rs' = rs /\ position' = position
    BY <1>3, <1>6, AbstractPosition
  <2>2. row \notin 1 .. Len(rs.m_records)
    BY <1>6 DEF RowCount
  <2>. QED
    BY <1>2, <1>5, <2>1, <2>2, Words
    DEF Dataset!Setpos, Dataset!Answer, Dataset!MoveTo
<1>7. CASE row \in 1 .. RowCount(rs)
  <2>1. /\ ret' = Yes /\ IsPositioned(rs') /\ ~IsEof(rs')
        /\ rs'.m_cursor = row - 1
    BY <1>3, <1>7
  <2>2. position' = row
    BY <1>0, <2>1, AbstractPosition DEF Pos
  <2>3. row \in 1 .. Len(rs.m_records)
    BY <1>7 DEF RowCount
  <2>. QED
    BY <1>2, <1>3, <1>5, <2>1, <2>2, <2>3, Words
    DEF Dataset!Setpos, Dataset!MoveTo, SameData
<1>. QED  BY <1>6, <1>7

LEMMA InsertStep ==
  ASSUME ProtocolInv, ~OnRow, NEW row \in Rows, insert(row)
  PROVE  ProtocolInv' /\ Dataset!Insert(row)
<1>1. PICK o \in RsInsert(rs, row) : rs' = o.rs /\ ret' = o.ret
  BY DEF insert, Call
<1>2. op' = <<"insert", row>> /\ disturbed' = FALSE
  BY DEF insert, Call, ProtocolInv
<1>3. AnyInv'
  BY AnyInsert DEF ProtocolInv
<1>4. /\ Sound(rs') /\ rs'.m_cursorstate = rs.m_cursorstate
      /\ \/ ret' = Throw /\ rs' = rs
         \/ /\ ret' = Ok /\ rs'.m_records = Append(rs.m_records, row)
            /\ rs'.m_count = Len(row)
            /\ HasColumns(rs) => rs.m_count = Len(row)
  BY <1>1, Here, InsertMethod
<1>5. rs.m_records \in Seq(Rows) /\ RowCount(rs) \in Nat /\ ~At(rs)
  BY Here
<1>6. CASE ret' = Throw /\ rs' = rs
  <2>1. position' = position
    BY <1>6, AbstractPosition
  <2>2. RowsUniform'
    BY <1>6, SameWidths DEF ProtocolInv
  <2>3. ProtocolInv'
    BY <1>2, <1>3, <1>6, <2>2, Fine DEF ProtocolInv, Running
  <2>. QED
    BY <1>2, <1>6, <2>1, <2>3, Words
    DEF Dataset!Insert, Dataset!Answer, Dataset!MoveTo
<1>7. CASE /\ ret' = Ok /\ rs'.m_records = Append(rs.m_records, row)
           /\ rs'.m_count = Len(row)
           /\ HasColumns(rs) => rs.m_count = Len(row)
  <2>1. RowCount(rs') = RowCount(rs) + 1
    BY <1>5, <1>7 DEF RowCount
  <2>2. IsPositioned(rs') = IsPositioned(rs) /\ IsEof(rs') = IsEof(rs)
    BY <1>4 DEF IsPositioned, IsEof
  <2>3. position' = IF position = 0 THEN 0 ELSE Len(rs.m_records) + 2
    <3>1. CASE ~IsPositioned(rs)
      BY <2>2, <3>1, AbstractPosition DEF Pos
    <3>2. CASE IsPositioned(rs)
      <4>1. IsEof(rs)
        BY <1>5, <3>2 DEF At
      <4>2. position' = RowCount(rs) + 2 /\ position = RowCount(rs) + 1
        BY <1>5, <2>1, <2>2, <3>2, <4>1, AbstractPosition DEF Pos
      <4>. QED  BY <1>5, <4>2 DEF RowCount
    <3>. QED  BY <3>1, <3>2
  <2>4. ~Dataset!OnRow
    <3>1. position \notin 1 .. RowCount(rs)
      BY <1>5, AbstractPosition, Positions, Here
    <3>. QED  BY <3>1 DEF Dataset!OnRow, RowCount
  <2>5. Dataset!Insert(row)
    BY <1>2, <1>7, <2>3, <2>4, Words DEF Dataset!Insert
  <2>6. RowsUniform'
    <3>1. ASSUME NEW i \in 1 .. RowCount(rs')
          PROVE  Len(rs'.m_records[i]) = rs'.m_count
      <4>1. CASE i = RowCount(rs) + 1
        BY <1>5, <1>7, <4>1 DEF RowCount
      <4>2. CASE i # RowCount(rs) + 1
        <5>1. i \in 1 .. RowCount(rs)
          BY <1>5, <2>1, <4>2
        <5>2. rs.m_count = Len(row)
          BY <1>5, <1>7, <5>1 DEF HasColumns
        <5>3. rs'.m_records[i] = rs.m_records[i]
          BY <1>5, <1>7, <5>1 DEF RowCount
        <5>. QED  BY <1>7, <5>1, <5>2, <5>3 DEF ProtocolInv, RowsUniform
      <4>. QED  BY <4>1, <4>2
    <3>. QED  BY <3>1 DEF RowsUniform, RowCount
  <2>7. ProtocolInv'
    BY <1>2, <1>3, <1>7, <2>6, Fine DEF ProtocolInv, Running
  <2>. QED  BY <2>5, <2>7
<1>. QED  BY <1>4, <1>6, <1>7

LEMMA ColumnStep ==
  ASSUME ProtocolInv, NEW num \in ColumnNumbers, column(num)
  PROVE  ProtocolInv' /\ Dataset!Column(num)
<1>0. num \in Int
  BY BoundsAssumption DEF ColumnNumbers
<1>1. PICK o \in RsColumn(rs, num) : rs' = o.rs /\ ret' = o.ret
  BY DEF column, Quietly, Call
<1>2. op' = <<"column", num>> /\ disturbed' = disturbed
  BY DEF column, Quietly, Call
<1>3. /\ rs' = rs
      /\ At(rs) => ret' = IF num \in DOMAIN rs.m_records[rs.m_cursor + 1]
                            THEN Value(rs.m_records[rs.m_cursor + 1][num]) ELSE Throw
      /\ ~At(rs) => ret' = Throw
  BY <1>0, <1>1, Here, ColumnMethod
<1>4. GoesOn(ret') /\ SameData(rs, rs')
  BY <1>3, Fine DEF SameData
<1>5. ProtocolInv'
  BY <1>2, <1>3, <1>4, AnyAnswer, QuietStep DEF ProtocolInv
<1>6. position' = position
  BY <1>3, AbstractPosition
<1>7. (position \in 1 .. Len(rs.m_records)) <=> At(rs)
  <2>1. (position \in 1 .. RowCount(rs)) <=> At(rs)
    BY AbstractPosition, Positions, Here
  <2>. QED  BY <2>1 DEF RowCount
<1>8. At(rs) => position = rs.m_cursor + 1
  BY AbstractPosition, Positions, Here
<1>9. Dataset!Column(num)
  <2>1. CASE ~At(rs)
    BY <1>2, <1>3, <1>6, <1>7, <2>1, Words
    DEF Dataset!Column, Dataset!Answer, Dataset!MoveTo, Dataset!OnRow
  <2>2. CASE At(rs) /\ num \in DOMAIN rs.m_records[position]
    <3>1. ret' = Value(rs.m_records[position][num])
      BY <1>3, <1>8, <2>2
    <3>. QED
      BY <1>2, <1>3, <1>6, <1>7, <2>2, <3>1, Words
      DEF Dataset!Column, Dataset!Answer, Dataset!MoveTo, Dataset!OnRow
  <2>3. CASE At(rs) /\ num \notin DOMAIN rs.m_records[position]
    <3>1. ret' = Throw
      BY <1>3, <1>8, <2>3
    <3>. QED
      BY <1>2, <1>3, <1>6, <1>7, <2>3, <3>1, Words
      DEF Dataset!Column, Dataset!Answer, Dataset!MoveTo, Dataset!OnRow
  <2>. QED  BY <2>1, <2>2, <2>3
<1>. QED  BY <1>5, <1>9

LEMMA ClearStep ==
  ProtocolInv /\ (clear \/ reset) => ProtocolInv' /\ Dataset!Clear
<1> SUFFICES ASSUME ProtocolInv, clear \/ reset PROVE ProtocolInv' /\ Dataset!Clear
  OBVIOUS
<1>1. PICK o \in RsClear(rs) \union RsReset(rs) : rs' = o.rs /\ ret' = o.ret
  BY DEF clear, reset, Afresh, Call
<1>2. op' \in {<<"clear">>, <<"reset">>} /\ disturbed' = FALSE
  BY DEF clear, reset, Afresh, Call
<1>3. /\ RowCount(rs') = 0 /\ ret' = Ok /\ rs'.m_records = <<>>
      /\ ~IsPositioned(rs')
  BY <1>1, Here, ClearMethod, ResetMethod
<1>4. RowsUniform'
  BY <1>3 DEF RowsUniform, RowCount
<1>5. ProtocolInv'
  BY <1>2, <1>3, <1>4, AnyClear, Fine DEF ProtocolInv, Running
<1>6. position' = 0
  BY <1>3, AbstractPosition DEF Pos
<1>7. Dataset!Clear
  BY <1>2, <1>3, <1>6, Words DEF Dataset!Clear
<1>. QED  BY <1>5, <1>7

\* The calls that are not about rows.
LEMMA CloseStep == ProtocolInv /\ close => ProtocolInv' /\ Dataset!Ask
<1> SUFFICES ASSUME ProtocolInv, close PROVE ProtocolInv' /\ Dataset!Ask
  OBVIOUS
<1>1. op' = <<"close">> /\ disturbed' = disturbed /\ rs' = rs /\ ret' = Ok
  BY SoundOutcome DEF close, Quietly, Call, RsClose
<1>2. ProtocolInv'
  BY <1>1, AnyAnswer, QuietStep, Fine DEF ProtocolInv, SameData
<1>3. position' = position
  BY <1>1, AbstractPosition
<1>. QED  BY <1>1, <1>2, <1>3 DEF Dataset!Ask

LEMMA ColumnIDStep ==
  ASSUME ProtocolInv, NEW name \in ColumnNames, columnID(name)
  PROVE  ProtocolInv' /\ Dataset!Ask
<1>1. PICK o \in RsColumnID(rs, name) : rs' = o.rs /\ ret' = o.ret
  BY DEF columnID, Quietly, Call
<1>2. op' = <<"columnID">> /\ disturbed' = disturbed
  BY DEF columnID, Quietly, Call
<1>3. rs' = rs /\ GoesOn(ret')
  BY <1>1, ColumnIDMethod
<1>4. ProtocolInv'
  BY <1>2, <1>3, AnyAnswer, QuietStep DEF ProtocolInv, SameData
<1>5. position' = position
  BY <1>3, AbstractPosition
<1>. QED  BY <1>2, <1>3, <1>4, <1>5 DEF Dataset!Ask

LEMMA DescribeColumnStep ==
  ASSUME ProtocolInv, NEW num \in ColumnNumbers, describeColumn(num)
  PROVE  ProtocolInv' /\ Dataset!Ask
<1>0. num \in Int
  BY BoundsAssumption DEF ColumnNumbers
<1>1. PICK o \in RsDescribeColumn(rs, num) : rs' = o.rs /\ ret' = o.ret
  BY DEF describeColumn, Quietly, Call
<1>2. op' = <<"describeColumn">> /\ disturbed' = disturbed
  BY DEF describeColumn, Quietly, Call
<1>3. rs' = rs /\ GoesOn(ret')
  BY <1>0, <1>1, Here, DescribeColumnMethod
<1>4. ProtocolInv'
  BY <1>2, <1>3, AnyAnswer, QuietStep DEF ProtocolInv, SameData
<1>5. position' = position
  BY <1>3, AbstractPosition
<1>. QED  BY <1>2, <1>3, <1>4, <1>5 DEF Dataset!Ask

\* The columns change, rows and cursor do not.
LEMMA SamePosition ==
  ASSUME rs'.m_records = rs.m_records, rs'.m_cursor = rs.m_cursor,
         rs'.m_cursorstate = rs.m_cursorstate
  PROVE  position' = position
BY DEF position, IsPositioned, IsEof, RowCount

LEMMA SetColumnCountStep ==
  ASSUME ProtocolInv, RowCount(rs) = 0, NEW num \in 0 .. MaxCols, setColumnCount(num)
  PROVE  ProtocolInv' /\ Dataset!Ask
<1>1. PICK o \in RsSetColumnCount(rs, num) : rs' = o.rs /\ ret' = o.ret
  BY DEF setColumnCount, Quietly, Call
<1>2. op' = <<"setColumnCount">> /\ disturbed' = disturbed
  BY DEF setColumnCount, Quietly, Call
<1>3. num \in Nat
  BY BoundsAssumption
<1>4. /\ rs'.m_records = rs.m_records /\ ret' = Ok
      /\ rs'.m_cursor = rs.m_cursor /\ rs'.m_cursorstate = rs.m_cursorstate
  BY <1>1, <1>3, Here, SetColumnCountMethod
<1>5. RowsUniform'
  BY <1>4 DEF RowsUniform, RowCount
<1>6. ProtocolInv'
  BY <1>2, <1>4, <1>5, AnySetColumnCount, Fine DEF ProtocolInv, Running
<1>7. position' = position
  BY <1>4, SamePosition
<1>. QED  BY <1>2, <1>4, <1>6, <1>7 DEF Dataset!Ask

LEMMA ModifyColumnDescStep ==
  ASSUME ProtocolInv, NEW num \in DOMAIN rs.m_column_descriptors, NEW name \in Names,
         modifyColumnDesc(num, name)
  PROVE  ProtocolInv' /\ Dataset!Ask
<1>0. num \in Int
  BY Here DEF Sound, RecordSets
<1>1. PICK o \in RsModifyColumnDesc(rs, num, name) : rs' = o.rs /\ ret' = o.ret
  BY DEF modifyColumnDesc, Quietly, Call
<1>2. op' = <<"modifyColumnDesc">> /\ disturbed' = disturbed
  BY DEF modifyColumnDesc, Quietly, Call
<1>3. /\ rs'.m_records = rs.m_records /\ rs'.m_count = rs.m_count /\ ret' = Ok
      /\ rs'.m_cursor = rs.m_cursor /\ rs'.m_cursorstate = rs.m_cursorstate
  BY <1>0, <1>1, Here, ModifyColumnDescMethod
<1>4. RowsUniform'
  BY <1>3, SameWidths DEF ProtocolInv
<1>5. ProtocolInv'
  BY <1>0, <1>2, <1>3, <1>4, AnyModifyColumnDesc, Fine DEF ProtocolInv, Running
<1>6. position' = position
  BY <1>3, SamePosition
<1>. QED  BY <1>2, <1>3, <1>5, <1>6 DEF Dataset!Ask

-----------------------------------------------------------------------------
(* The theorems                                                            *)

LEMMA ProtocolInit == Init => ProtocolInv /\ Dataset!Init
<1> SUFFICES ASSUME Init PROVE ProtocolInv /\ Dataset!Init
  OBVIOUS
<1>1. /\ rs.m_records = <<>> /\ rs.m_cursorstate = {} /\ RowCount(rs) = 0
      /\ op = <<"none">> /\ ret = None /\ disturbed = FALSE
  BY DEF Init, RecordSetInit, CLOSED, RowCount
<1>2. RowsUniform /\ Running
  BY <1>1, Fine DEF RowsUniform, Running
<1>3. position = 0
  BY <1>1 DEF position, IsPositioned
<1>4. ret = Dataset!None
  BY <1>1 DEF None, Dataset!None
<1>. QED  BY <1>1, <1>2, <1>3, <1>4, AnyInit DEF ProtocolInv, Dataset!Init

\* A stutter is one of the dataset.
LEMMA IdleStep == ProtocolInv /\ UNCHANGED vars => ProtocolInv' /\ UNCHANGED Dataset!vars
<1> SUFFICES ASSUME ProtocolInv, UNCHANGED vars
             PROVE  ProtocolInv' /\ UNCHANGED Dataset!vars
  OBVIOUS
<1>1. rs' = rs /\ op' = op /\ ret' = ret /\ disturbed' = disturbed
  BY DEF vars
<1>2. GoesOn(ret')
  BY <1>1 DEF ProtocolInv, Running
<1>3. ProtocolInv'
  BY <1>1, <1>2, AnyAnswer, QuietStep DEF ProtocolInv, SameData
<1>4. position' = position
  BY <1>1, AbstractPosition
<1>. QED  BY <1>1, <1>3, <1>4 DEF Dataset!vars

LEMMA ProtocolStep ==
  ProtocolInv /\ [Protocol]_vars => ProtocolInv' /\ [Dataset!Step]_(Dataset!vars)
<1> SUFFICES ASSUME ProtocolInv, [Protocol]_vars
             PROVE  ProtocolInv' /\ (Dataset!Step \/ UNCHANGED Dataset!vars)
  OBVIOUS
<1>1. CASE open
  BY <1>1, OpenStep DEF Dataset!Step
<1>2. CASE first
  BY <1>2, FirstStep DEF Dataset!Step
<1>3. CASE IsPositioned(rs) /\ next
  BY <1>3, NextStep DEF Dataset!Step
<1>4. CASE IsPositioned(rs) /\ eof
  BY <1>4, EofStep DEF Dataset!Step
<1>5. CASE OnRow /\ prev
  BY <1>5, PrevStep DEF Dataset!Step
<1>6. CASE OnRow /\ last
  BY <1>6, LastStep DEF Dataset!Step
<1>7. CASE clear \/ reset
  BY <1>7, ClearStep DEF Dataset!Step
<1>8. CASE close
  BY <1>8, CloseStep DEF Dataset!Step
<1>9. CASE \E row \in RowNumbers : setpos(row)
  BY <1>9, SetposStep DEF Dataset!Step
<1>10. CASE ~OnRow /\ \E row \in Rows : insert(row)
  BY <1>10, InsertStep DEF Dataset!Step
<1>11. CASE \E num \in ColumnNumbers : column(num)
  BY <1>11, ColumnStep DEF Dataset!Step
<1>12. CASE \E num \in ColumnNumbers : describeColumn(num)
  BY <1>12, DescribeColumnStep DEF Dataset!Step
<1>13. CASE \E name \in ColumnNames : columnID(name)
  BY <1>13, ColumnIDStep DEF Dataset!Step
<1>14. CASE RowCount(rs) = 0 /\ \E num \in 0 .. MaxCols : setColumnCount(num)
  BY <1>14, SetColumnCountStep DEF Dataset!Step
<1>15. CASE \E num \in DOMAIN rs.m_column_descriptors, name \in Names :
              modifyColumnDesc(num, name)
  BY <1>15, ModifyColumnDescStep DEF Dataset!Step
<1>16. CASE UNCHANGED vars
  BY <1>16, IdleStep
<1>. QED
  BY <1>1, <1>2, <1>3, <1>4, <1>5, <1>6, <1>7, <1>8, <1>9, <1>10, <1>11, <1>12,
     <1>13, <1>14, <1>15, <1>16
  DEF Protocol

THEOREM ProtocolInductive == ProtocolSpec => []ProtocolInv
<1>1. Init => ProtocolInv
  BY ProtocolInit
<1>2. ProtocolInv /\ [Protocol]_vars => ProtocolInv'
  BY ProtocolStep
<1>. QED  BY <1>1, <1>2, PTL DEF ProtocolSpec

\* To a client that keeps the protocol every call returns or throws: no assert
\* fails and no dangling iterator is read, for any number of rows and columns.
THEOREM AlwaysDefined == ProtocolSpec => []Defined
<1>1. ProtocolInv => Defined
  BY DEF ProtocolInv, Defined
<1>. QED  BY <1>1, ProtocolInductive, PTL

\* insert() refuses every row that has not one field per column.
THEOREM UniformRows == ProtocolSpec => []RowsUniform
<1>1. ProtocolInv => RowsUniform
  BY DEF ProtocolInv
<1>. QED  BY <1>1, ProtocolInductive, PTL

\* A RecordSet implements the interface ScrollableDataset: under the position
\* mapping every call is a step of the abstract dataset or changes nothing.
THEOREM Refinement == ProtocolSpec => ImplementsDataset
<1>1. Init => Dataset!Init
  BY ProtocolInit
<1>2. ProtocolInv /\ [Protocol]_vars => [Dataset!Step]_(Dataset!vars)
  BY ProtocolStep
<1>. QED
  BY <1>1, <1>2, ProtocolInductive, PTL
  DEF ProtocolSpec, ImplementsDataset, Dataset!Spec

-----------------------------------------------------------------------------
(* The listings of metadata that are made with record sets                 *)

\* A sequence, of whatever.
IsSequence(s) == s \in Seq({s[i] : i \in DOMAIN s})

\* The listings that ask every database of SQLite, and those that ask for one
\* table after the other.
PerDatabase == source = "sqlite" /\ stage \in {"tables", "TableList", "IndexList", "ViewList"}
PerTable    == source \in {"sqlite", "sdi"} /\ stage = "columns"
Refused     == stage \in Copied
Single      == ~PerDatabase /\ ~PerTable /\ ~Refused

\* The tables are listed for their columns.
Preliminary == stage = "tables" /\ kind = "columns" /\ source \in {"sqlite", "sdi"}

\* The listings of single objects.
OfObjects == stage \in {"tables", "columns", "TableList", "IndexList", "ViewList"}

\* The engines that list metadata.
Engines == {"sqlite", "odbc", "firebird", "sdi"}

\* What the client has asked for, and what is being listed for it.
Asked ==
  /\ source \in Engines
  /\ kind \in {"catalogs", "schemas", "tables", "columns"} \union DbcLists
  /\ asked \in Arguments(source, kind)
  /\ stage = kind \/ Preliminary
  /\ answer \in {None, Ok, Throw}
  /\ answer = Ok => stage = kind /\ rows = {} /\ todo = <<>>

\* What was there all the time is there, and was there at some time.
Histories == through \subseteq objects /\ objects \subseteq seen /\ seen \subseteq Universe[source]

\* A record set of the listing.
SetFields == {"m_records", "m_count", "m_column_descriptors", "m_cursorstate", "m_cursor"}
Shaped(set) ==
  /\ DOMAIN set = SetFields
  /\ set.m_count = Len(Header(stage)) /\ set.m_column_descriptors = Header(stage)

\* The record sets are described for the listing, and the lists are sequences.
RecordSetsMade ==
  /\ Shaped(tmp) /\ DOMAIN listed = SetFields
  /\ IsSequence(listed.m_records) /\ IsSequence(list)

\* Every object of the name may be in the listing more than once.
NameRepeats(name) == \E o \in Known : o.name = name /\ MayRepeat(o)

\* What is left to execute.
DatabasesInTurn ==
  /\ \A i \in DOMAIN todo :
       /\ todo[i].text \in {"PRAGMA database_list", "sqlite_master", "sqlite_temp_master"}
       /\ todo[i].text = "sqlite_temp_master" => todo[i].arg = "temp" /\ i = Len(todo)
       /\ todo[i].text = "sqlite_master" /\ stage # "ViewList" => todo[Len(todo)].text = "sqlite_temp_master"
  /\ \A i, j \in DOMAIN todo :
       todo[i].text = "sqlite_master" /\ todo[j].text = "sqlite_master" /\ todo[i].arg = todo[j].arg => i = j

\* A table is asked for its columns once, unless its name is one of several.
TablesInTurn ==
  \A i, j \in DOMAIN todo :
    todo[i].text # "" /\ todo[j].text # "" /\ todo[i].arg = todo[j].arg => i = j \/ NameRepeats(todo[i].arg)

ToExecute ==
  /\ IsSequence(todo)
  /\ PerDatabase => DatabasesInTurn
  /\ PerTable => TablesInTurn
  /\ Refused => todo # <<>> /\ rows = {}
  /\ source = "sqlite" /\ ~PerDatabase => \A i \in DOMAIN todo : todo[i].text # "sqlite_master"
  /\ Single => Len(todo) <= 1

\* The statement may answer with this row.
CatalogOf(row) == IF stage \in DbcLists THEN row.catalog ELSE row[1]
MayAnswer(s, row) ==
  \/ PerDatabase /\ s.text = "sqlite_master" /\ s.arg = CatalogOf(row)
  \/ PerTable /\ s.text # "" /\ s.arg = row[3] /\ ~NameRepeats(row[3])
  \/ Single

\* The row tells of an object that may be in the listing more than once.
RowMayRepeat(row) == \E o \in Known : Tells(row, o) /\ MayRepeat(o)

\* No row comes twice.
RowsOnce ==
  /\ \A i \in DOMAIN todo : \A row \in rows : ~MayAnswer(todo[i], row)
  /\ \A i \in DOMAIN todo : \A j \in DOMAIN Listed : ~MayAnswer(todo[i], Listed[j])
  /\ OfObjects => \A i \in DOMAIN Listed :
       /\ Listed[i] \in rows => RowMayRepeat(Listed[i])
       /\ \A j \in DOMAIN Listed : Listed[i] = Listed[j] => i = j \/ RowMayRepeat(Listed[i])

\* A row of the tables whose columns are to be listed.
TableListed(row) ==
  /\ row = TableRow(row[1], row[2], row[3])
  /\ IF source = "sqlite" THEN row[2] = Null ELSE row[1] = Null

\* Every row tells of an object, which the filter let through.
RowsTell ==
  OfObjects =>
    /\ \A row \in rows : (\E o \in Known : Tells(row, o)) /\ (Preliminary => TableListed(row))
    /\ \A i \in DOMAIN Listed :
         /\ \E o \in Known : Tells(Listed[i], o) /\ (stage = kind => asked.filter \in {Null, o.name})
         /\ Preliminary => TableListed(Listed[i])

\* The statement will tell of the object, if it is there then.
Covers(s, o) ==
  /\ PerDatabase => \/ s.text = "sqlite_master" /\ s.arg = o.space
                    \/ s.text = "sqlite_temp_master" /\ o.space = "temp"
  /\ PerTable => s.text # "" /\ s.arg = o.name

\* What was there all the time is listed or still to come.
Comes(o) ==
  \/ \E i \in DOMAIN Listed : Tells(Listed[i], o)
  \/ \E row \in rows : Tells(row, o)
  \/ \E i \in DOMAIN todo : Covers(todo[i], o)

NothingLost ==
  answer \in {None, Ok} => \A o \in through : AskedFor(o) /\ Reachable(o) => Comes(o)

\* What every step of a listing keeps true.
ListingInv == Asked /\ Histories /\ RecordSetsMade /\ ToExecute /\ RowsOnce /\ RowsTell /\ NothingLost

\* A member of a set of sequences is a sequence.
LEMMA AnySequence ==
  ASSUME NEW S, NEW s \in Seq(S)
  PROVE  IsSequence(s) /\ Len(s) \in Nat /\ DOMAIN s = 1 .. Len(s)
<1> DEFINE T == {s[i] : i \in DOMAIN s}
           f == [i \in 1 .. Len(s) |-> s[i]]
<1>1. Len(s) \in Nat /\ DOMAIN s = 1 .. Len(s) /\ s = f
  OBVIOUS
<1>2. f \in [1 .. Len(s) -> T]
  BY <1>1
<1> HIDE DEF T, f
<1>3. s \in Seq(T)
  BY <1>1, <1>2
<1>. QED  BY <1>1, <1>3 DEF IsSequence, T

\* A sequence that is not empty is its first element and the others.
LEMMA FirstAndRest ==
  ASSUME NEW s, IsSequence(s), s # <<>>
  PROVE  /\ IsSequence(Tail(s)) /\ Len(s) \in Nat \ {0} /\ DOMAIN s = 1 .. Len(s)
         /\ 1 \in DOMAIN s /\ Head(s) = s[1]
         /\ Len(Tail(s)) = Len(s) - 1 /\ DOMAIN Tail(s) = 1 .. Len(s) - 1
         /\ \A i \in DOMAIN Tail(s) : i + 1 \in DOMAIN s /\ Tail(s)[i] = s[i + 1]
<1> DEFINE S == {s[i] : i \in DOMAIN s}
<1>1. s \in Seq(S)
  BY DEF IsSequence
<1> HIDE DEF S
<1>2. /\ Len(s) \in Nat \ {0} /\ DOMAIN s = 1 .. Len(s) /\ Head(s) = s[1]
      /\ Tail(s) \in Seq(S) /\ Len(Tail(s)) = Len(s) - 1
      /\ \A i \in 1 .. Len(Tail(s)) : Tail(s)[i] = s[i + 1]
  BY <1>1, HeadTailProperties, EmptySeq
<1>3. DOMAIN Tail(s) = 1 .. Len(s) - 1
  BY <1>2
<1>4. IsSequence(Tail(s))
  BY <1>2, AnySequence
<1>. QED  BY <1>2, <1>3, <1>4

\* A sequence with one more element at its end.
LEMMA Lengthened ==
  ASSUME NEW s, IsSequence(s), NEW e
  PROVE  /\ IsSequence(Append(s, e)) /\ Len(s) \in Nat /\ DOMAIN s = 1 .. Len(s)
         /\ DOMAIN Append(s, e) = 1 .. Len(s) + 1 /\ Append(s, e)[Len(s) + 1] = e
         /\ \A i \in DOMAIN s : Append(s, e)[i] = s[i]
<1> DEFINE S == {s[i] : i \in DOMAIN s} \union {e}
<1>1. s \in Seq(S) /\ e \in S
  BY SeqMonotonic DEF IsSequence
<1> HIDE DEF S
<1>2. /\ Len(s) \in Nat /\ DOMAIN s = 1 .. Len(s) /\ Append(s, e) \in Seq(S)
      /\ Len(Append(s, e)) = Len(s) + 1 /\ Append(s, e)[Len(s) + 1] = e
      /\ \A i \in 1 .. Len(s) : Append(s, e)[i] = s[i]
  BY <1>1, AppendProperties
<1>3. DOMAIN Append(s, e) = 1 .. Len(s) + 1
  BY <1>2
<1>4. IsSequence(Append(s, e))
  BY <1>2, AnySequence
<1>. QED  BY <1>2, <1>3, <1>4

\* Nothing is a sequence.
LEMMA NothingIsSequence == IsSequence(<<>>) /\ DOMAIN <<>> = {}
BY DEF IsSequence

-----------------------------------------------------------------------------
(* The rows and the record sets of a listing *)

\* TABLE_NAME is the third column of tables and columns, and none of the other listings'.
LEMMA HeaderPlaces ==
  ASSUME NEW k \in {"catalogs", "schemas", "tables", "columns"} \union DbcLists
  PROVE  /\ Len(Header(k)) \in Nat \ {0}
         /\ k \in {"tables", "columns"} =>
              {i \in 1 .. Len(Header(k)) : Header(k)[i] = "TABLE_NAME"} = {3}
         /\ k \in {"catalogs", "schemas"} =>
              {i \in 1 .. Len(Header(k)) : Header(k)[i] = "TABLE_NAME"} = {}
<1>1. CASE k \in {"catalogs", "CatalogList"}
  BY <1>1 DEF Header, CatalogColumns
<1>2. CASE k = "schemas"
  BY <1>2 DEF Header, SchemaColumns
<1>3. CASE k = "columns"
  <2>1. Header(k) = ColumnColumns
    BY <1>3 DEF Header
  <2>2. Len(ColumnColumns) = 10 /\ \A i \in 1 .. 10 : ColumnColumns[i] = "TABLE_NAME" <=> i = 3
    BY DEF ColumnColumns
  <2>. QED  BY <1>3, <2>1, <2>2
<1>4. CASE k \in {"tables", "TableList", "IndexList", "ViewList"}
  <2>1. Header(k) = TableColumns
    BY <1>4 DEF Header
  <2>2. Len(TableColumns) = 5 /\ \A i \in 1 .. 5 : TableColumns[i] = "TABLE_NAME" <=> i = 3
    BY DEF TableColumns
  <2>. QED  BY <1>4, <2>1, <2>2
<1>. QED  BY <1>1, <1>2, <1>3, <1>4 DEF DbcLists

\* The outcome of a call that has one.
LEMMA OnlyOne == \A r, v, o : o \in Only(r, v) <=> o = [rs |-> r, ret |-> v]
BY DEF Only, Outcome

\* The set that a listing begins with has its columns and no row.
LEMMA DescribedSet ==
  ASSUME NEW k
  PROVE  LET set == Described(k)
         IN  /\ DOMAIN set = SetFields /\ set.m_records = <<>>
             /\ set.m_count = Len(Header(k)) /\ set.m_column_descriptors = Header(k)
<1> DEFINE n == Len(Header(k))
           wide == WithColumns(RecordSetInit, n)
           counted == CHOOSE o \in RsSetColumnCount(RecordSetInit, n) : TRUE
<1>1. counted.rs = wide
  <2>1. RsSetColumnCount(RecordSetInit, n) = {[rs |-> wide, ret |-> Ok]}
    BY DEF RsSetColumnCount, Only, Outcome
  <2>2. counted = [rs |-> wide, ret |-> Ok]
    BY <2>1
  <2> HIDE DEF counted, wide
  <2>. QED  BY <2>2
<1>2. DOMAIN wide = SetFields /\ wide.m_records = <<>> /\ wide.m_count = n
  BY DEF WithColumns, RecordSetInit, SetFields
<1>3. Described(k) = [counted.rs EXCEPT !.m_column_descriptors = Header(k)]
  BY DEF Described
<1> HIDE DEF counted, wide, n
<1>. QED  BY <1>1, <1>2, <1>3 DEF SetFields, n

\* open() changes neither the columns nor the rows.
LEMMA OpenedSet ==
  ASSUME NEW set, DOMAIN set = SetFields
  PROVE  DOMAIN Opened(set) = SetFields /\ Opened(set).m_records = set.m_records
<1> DEFINE q      == SetState(set, "OPEN")
           opened == CHOOSE o \in RsOpen(set) : TRUE
<1>1. RsOpen(set) = {[rs |-> q, ret |-> Ok]}
  BY DEF RsOpen, Only, Outcome
<1>2. Opened(set) = opened.rs
  BY DEF Opened
<1>3. DOMAIN q = SetFields /\ q.m_records = set.m_records
  BY DEF SetState, SetFields
<1> HIDE DEF q
<1>4. opened = [rs |-> q, ret |-> Ok]
  BY <1>1
<1> HIDE DEF opened
<1>. QED  BY <1>2, <1>3, <1>4

\* A row that is inserted is the last one; a row that is refused changes nothing.
LEMMA InsertedRow ==
  ASSUME NEW set, DOMAIN set = SetFields, NEW row, NEW o \in RsInsert(set, row)
  PROVE  \/ o.ret = Throw /\ o.rs = set
         \/ /\ o.ret = Ok /\ DOMAIN o.rs = SetFields
            /\ o.rs.m_records = set.m_records \o <<row>>
            /\ HasColumns(set) => /\ o.rs.m_count = set.m_count
                                  /\ o.rs.m_column_descriptors = set.m_column_descriptors
<1> DEFINE rows2 == <<row>>
           width == Len(rows2[1])
           wide  == IF HasColumns(set) THEN set ELSE WithColumns(set, width)
<1>1. CASE ~Accepts(set, width)
  <2>1. o \in Only(set, Throw)
    BY <1>1 DEF RsInsert, RsInsertRows
  <2>. QED  BY <2>1, OnlyOne
<1>2. CASE Accepts(set, width)
  <2>1. PICK after \in PushBack(wide, rows2) : o = Outcome(after, Ok)
    BY <1>2 DEF RsInsert, RsInsertRows
  <2>2. /\ DOMAIN wide = SetFields /\ wide.m_records = set.m_records
        /\ HasColumns(set) => wide = set
    BY DEF WithColumns, SetFields
  <2> HIDE DEF wide, width
  <2> DEFINE grown == [wide EXCEPT !.m_records = @ \o rows2]
             loose == [grown EXCEPT !.m_cursor = Dangling]
  <2>3. after \in {grown, loose}
    BY <2>1 DEF PushBack
  <2>4. /\ DOMAIN grown = SetFields /\ grown.m_records = wide.m_records \o rows2
        /\ grown.m_count = wide.m_count /\ grown.m_column_descriptors = wide.m_column_descriptors
    BY <2>2 DEF SetFields
  <2> HIDE DEF grown
  <2>5. /\ DOMAIN loose = SetFields /\ loose.m_records = grown.m_records
        /\ loose.m_count = grown.m_count /\ loose.m_column_descriptors = grown.m_column_descriptors
    BY <2>4 DEF SetFields
  <2> HIDE DEF loose
  <2>. QED  BY <2>1, <2>2, <2>3, <2>4, <2>5 DEF Outcome
<1>. QED  BY <1>1, <1>2

\* The set tmp holds the row that is shown, and stands on it.
LEMMA ShownRow ==
  ASSUME NEW set, Shaped(set), stage \in {"catalogs", "schemas", "tables", "columns"},
         NEW row, NEW shown \in Show(set, row)
  PROVE  /\ shown.ret \in {Ok, Throw} /\ Shaped(shown.rs)
         /\ shown.ret = Ok => shown.rs.m_records = <<row>> /\ shown.rs.m_cursor = 0
<1>1. DOMAIN set = SetFields /\ set.m_count = Len(Header(stage)) /\ set.m_column_descriptors = Header(stage)
  BY DEF Shaped
<1>2. set.m_count \in Nat \ {0}
  BY <1>1, HeaderPlaces
<1> DEFINE empty == [set EXCEPT !.m_records = <<>>, !.m_cursorstate = CLOSED, !.m_cursor = Dangling]
           ready == SetState(empty, "OPEN")
           cleared == UNION {RsClear(o.rs) : o \in RsClose(set)}
           opens == UNION {RsOpen(o.rs) : o \in cleared}
           full == UNION {RsInsert(o.rs, row) : o \in opens}
<1>3. \A o \in RsClose(set) : o.rs = set
  BY DEF RsClose, Only, Outcome
<1>4. \A o \in cleared : o.rs = empty
  <2> SUFFICES ASSUME NEW o \in cleared PROVE o.rs = empty
    OBVIOUS
  <2>1. o \in RsClear(set)
    BY <1>3
  <2>2. RsClear(set) = Only(empty, Ok)
    BY DEF RsClear
  <2> HIDE DEF empty
  <2>. QED  BY <2>1, <2>2, OnlyOne
<1>5. \A o \in opens : o.rs = ready
  <2> SUFFICES ASSUME NEW o \in opens PROVE o.rs = ready
    OBVIOUS
  <2>1. o \in RsOpen(empty)
    BY <1>4
  <2>. QED  BY <2>1, OnlyOne DEF RsOpen
<1>6. /\ DOMAIN ready = SetFields /\ ready.m_records = <<>>
      /\ ready.m_count = set.m_count /\ ready.m_column_descriptors = set.m_column_descriptors
  <2>1. /\ DOMAIN empty = SetFields /\ empty.m_records = <<>>
        /\ empty.m_count = set.m_count /\ empty.m_column_descriptors = set.m_column_descriptors
    BY <1>1 DEF SetFields
  <2> HIDE DEF empty
  <2>. QED  BY <2>1 DEF SetState, SetFields
<1> HIDE DEF ready, opens, cleared
<1>7. HasColumns(ready)
  BY <1>2, <1>6 DEF HasColumns
<1>8. \A o \in full : \/ o.ret = Throw /\ o.rs = ready
                      \/ /\ o.ret = Ok /\ DOMAIN o.rs = SetFields /\ o.rs.m_records = <<row>>
                         /\ o.rs.m_count = set.m_count /\ o.rs.m_column_descriptors = set.m_column_descriptors
  <2> SUFFICES ASSUME NEW o \in full
               PROVE  \/ o.ret = Throw /\ o.rs = ready
                      \/ /\ o.ret = Ok /\ DOMAIN o.rs = SetFields /\ o.rs.m_records = <<row>>
                         /\ o.rs.m_count = set.m_count /\ o.rs.m_column_descriptors = set.m_column_descriptors
    OBVIOUS
  <2>1. o \in RsInsert(ready, row)
    BY <1>5
  <2>2. <<>> \o <<row>> = <<row>>
    OBVIOUS
  <2>3. \/ o.ret = Throw /\ o.rs = ready
        \/ /\ o.ret = Ok /\ DOMAIN o.rs = SetFields
           /\ o.rs.m_records = ready.m_records \o <<row>>
           /\ HasColumns(ready) => /\ o.rs.m_count = ready.m_count
                                   /\ o.rs.m_column_descriptors = ready.m_column_descriptors
    BY <1>6, <2>1, InsertedRow
  <2>. QED  BY <1>6, <1>7, <2>2, <2>3
<1> HIDE DEF full
<1>9. PICK o \in full : shown \in IF o.ret = Ok THEN RsFirst(o.rs) ELSE {o}
  BY DEF Show, Step, full, opens, cleared
<1>10. CASE o.ret = Throw
  <2>1. o.ret # Ok
    BY <1>10 DEF Ok, Throw
  <2>. QED  BY <1>1, <1>6, <1>8, <1>9, <1>10, <2>1 DEF Shaped
<1>11. CASE o.ret = Ok
  <2> DEFINE at == [o.rs EXCEPT !.m_cursor = 0]
             s2 == IF RowCount(o.rs) = 0 THEN "EOF" ELSE "POSITIONED"
  <2>1. shown = Outcome(SetState(at, s2), Ok)
    BY <1>9, <1>11, OnlyOne DEF RsFirst, Only
  <2> HIDE DEF s2
  <2>2. o.ret # Throw
    BY <1>11 DEF Ok, Throw
  <2>3. /\ DOMAIN o.rs = SetFields /\ o.rs.m_records = <<row>>
        /\ o.rs.m_count = set.m_count /\ o.rs.m_column_descriptors = set.m_column_descriptors
    BY <1>8, <2>2
  <2>4. /\ DOMAIN at = SetFields /\ at.m_records = <<row>> /\ at.m_cursor = 0
        /\ at.m_count = set.m_count /\ at.m_column_descriptors = set.m_column_descriptors
    BY <2>3 DEF SetFields
  <2> HIDE DEF at
  <2>5. LET q == SetState(at, s2)
        IN  /\ DOMAIN q = SetFields /\ q.m_records = <<row>> /\ q.m_cursor = 0
            /\ q.m_count = set.m_count /\ q.m_column_descriptors = set.m_column_descriptors
    BY <2>4 DEF SetState, SetFields
  <2>. QED  BY <1>1, <2>1, <2>5 DEF Outcome, Shaped
<1>. QED  BY <1>8, <1>9, <1>10, <1>11

\* The client's filter looks at the name of the table.
LEMMA FilteredRow ==
  ASSUME NEW set, Shaped(set), stage \in {"catalogs", "schemas", "tables", "columns"},
         NEW row, set.m_records = <<row>>, set.m_cursor = 0, NEW f \in Filter(set)
  PROVE  /\ f \in {Yes, No, Throw}
         /\ f = Yes /\ stage \in {"tables", "columns"} /\ stage = kind =>
              asked.filter = Null \/ asked.filter = row[3]
         /\ f = No => stage \in {"tables", "columns"} /\ stage = kind /\ asked.filter # Null /\ row[3] # asked.filter
<1>1. /\ DOMAIN set = SetFields /\ set.m_count = Len(Header(stage)) /\ set.m_column_descriptors = Header(stage)
  BY DEF Shaped
<1>2. Yes # No /\ Yes # Throw /\ No # Throw
  BY DEF Yes, No, Throw
<1>3. CASE asked.filter = Null \/ stage # kind \/ (source = "firebird" /\ stage \in {"catalogs", "schemas"})
  BY <1>2, <1>3 DEF Filter
<1>4. CASE ~(asked.filter = Null \/ stage # kind \/ (source = "firebird" /\ stage \in {"catalogs", "schemas"}))
  <2>1. f \in TableFilter(set, asked.filter)
    BY <1>4 DEF Filter
  <2>2. PICK id \in RsColumnID(set, "TABLE_NAME") :
           f \in IF id.ret = Throw THEN {Throw}
                 ELSE {IF c.ret = Throw THEN Throw ELSE Bool(c.ret = Value(asked.filter)) :
                         c \in RsColumn(set, id.ret[2])}
    BY <2>1 DEF TableFilter
  <2>3. CASE id.ret = Throw
    BY <1>2, <2>2, <2>3
  <2>4. CASE id.ret # Throw
    <3> DEFINE ids == ColumnsNamed(set, "TABLE_NAME")
    <3>1. /\ ids # {}
          /\ id.ret = Value(CHOOSE i \in ids : \A j \in ids : i <= j)
      BY <2>2, <2>4, OnlyOne DEF RsColumnID
    <3>2. ids = {i \in 1 .. Len(Header(stage)) : Header(stage)[i] = "TABLE_NAME"}
      BY <1>1 DEF ColumnsNamed
    <3>3. stage \in {"tables", "columns"} /\ ids = {3}
      BY <3>1, <3>2, HeaderPlaces
    <3>4. id.ret[2] = 3
      BY <3>1, <3>3 DEF Value
    <3>5. PICK c \in RsColumn(set, 3) : f = IF c.ret = Throw THEN Throw ELSE Bool(c.ret = Value(asked.filter))
      BY <2>2, <2>4, <3>4
    <3>6. CASE c.ret = Throw
      BY <1>2, <3>5, <3>6
    <3>7. CASE c.ret # Throw
      <4>1. RowCount(set) = 1 /\ 0 \in 0 .. RowCount(set) - 1
        BY DEF RowCount
      <4>2. c.ret = Value(row[3])
        <5>1. set.m_cursor \in 0 .. RowCount(set) - 1 /\ set.m_records[set.m_cursor + 1] = row
          BY <4>1
        <5>. QED  BY <3>5, <3>7, <5>1, OnlyOne DEF RsColumn
      <4>3. Value(row[3]) = Value(asked.filter) <=> row[3] = asked.filter
        BY DEF Value
      <4>. QED  BY <1>2, <1>4, <3>3, <3>5, <3>7, <4>2, <4>3 DEF Bool
    <3>. QED  BY <3>6, <3>7
  <2>. QED  BY <2>3, <2>4
<1>. QED  BY <1>3, <1>4

\* What the invariant is made of stays, or comes to hold of more objects,
\* while the same listing goes on.
LEMMA Preserved ==
  ASSUME UNCHANGED <<source, kind, asked, stage>>, seen \subseteq seen'
  PROVE  /\ PerDatabase' <=> PerDatabase
         /\ PerTable' <=> PerTable
         /\ Refused' <=> Refused
         /\ Single' <=> Single
         /\ OfObjects' <=> OfObjects
         /\ Preliminary' <=> Preliminary
         /\ Known \subseteq Known'
         /\ \A o : MayRepeat(o) => MayRepeat(o)'
         /\ \A name : NameRepeats(name) => NameRepeats(name)'
         /\ \A row, o : Tells(row, o)' <=> Tells(row, o)
         /\ \A row : RowMayRepeat(row) => RowMayRepeat(row)'
         /\ \A s, row : MayAnswer(s, row)' => MayAnswer(s, row)
         /\ \A s, o : Covers(s, o)' <=> Covers(s, o)
         /\ \A row : TableListed(row)' <=> TableListed(row)
         /\ \A o : AskedFor(o)' <=> AskedFor(o)
         /\ skipped \subseteq skipped' => \A o : Reachable(o)' => Reachable(o)
<1>1. /\ PerDatabase' <=> PerDatabase
      /\ PerTable' <=> PerTable
      /\ Refused' <=> Refused
      /\ OfObjects' <=> OfObjects
      /\ Preliminary' <=> Preliminary
  BY DEF PerDatabase, PerTable, Refused, OfObjects, Preliminary, Copied
<1>2. Single' <=> Single
  BY <1>1 DEF Single
<1>3. Known \subseteq Known'
  BY DEF Known
<1>4. \A o : Namesakes(o) \subseteq Namesakes(o)'
  BY DEF Namesakes
<1>5. \A o : MayRepeat(o) => MayRepeat(o)'
  BY <1>4 DEF MayRepeat
<1>6. \A name : NameRepeats(name) => NameRepeats(name)'
  BY <1>3, <1>5 DEF NameRepeats
<1>7. \A row, o : Tells(row, o)' <=> Tells(row, o)
  BY DEF Tells, Current
<1>8. \A row : RowMayRepeat(row) => RowMayRepeat(row)'
  BY <1>3, <1>5, <1>7 DEF RowMayRepeat
<1>9. \A row : CatalogOf(row)' = CatalogOf(row)
  BY DEF CatalogOf
<1>10. \A s, row : MayAnswer(s, row)' => MayAnswer(s, row)
  BY <1>1, <1>2, <1>6, <1>9 DEF MayAnswer
<1>11. \A s, o : Covers(s, o)' <=> Covers(s, o)
  BY <1>1 DEF Covers
<1>12. \A row : TableListed(row)' <=> TableListed(row)
  BY DEF TableListed, TableRow
<1>13. \A o : AskedFor(o)' <=> AskedFor(o)
  BY DEF AskedFor
<1>14. skipped \subseteq skipped' => \A o : Reachable(o)' => Reachable(o)
  BY <1>4 DEF Reachable
<1>. QED
  BY <1>1, <1>2, <1>3, <1>5, <1>6, <1>7, <1>8, <1>10, <1>11, <1>12, <1>13, <1>14

\* The parts of the invariant that need no account of where rows come from.
LEMMA Unmoved ==
  ASSUME ListingInv, UNCHANGED <<request, stage, todo, rows, tmp, listed, list, skipped>>,
         Asked', Histories', seen \subseteq seen', through' \subseteq through,
         answer' \in {None, Ok} => answer \in {None, Ok}
  PROVE  ListingInv'
<1> USE DEF ListingInv
<1>1. UNCHANGED <<source, kind, asked, stage>> /\ Listed' = Listed
  BY DEF request, Listed
<1>2. RecordSetsMade'
  BY <1>1 DEF RecordSetsMade, Shaped, IsSequence
<1>3. ToExecute'
  <2>1. PerDatabase' => DatabasesInTurn'
    BY <1>1, Preserved DEF ToExecute, DatabasesInTurn
  <2>2. PerTable' => TablesInTurn'
    BY <1>1, Preserved DEF ToExecute, TablesInTurn
  <2>. QED  BY <1>1, <2>1, <2>2, Preserved DEF ToExecute, IsSequence
<1>4. RowsOnce'
  BY <1>1, Preserved DEF RowsOnce
<1>5. RowsTell'
  BY <1>1, Preserved DEF RowsTell
<1>6. NothingLost'
  <2> SUFFICES ASSUME answer' \in {None, Ok}, NEW o \in through', AskedFor(o)', Reachable(o)'
               PROVE  Comes(o)'
    BY DEF NothingLost
  <2>1. Comes(o)
    BY <1>1, Preserved DEF NothingLost
  <2>. QED  BY <1>1, <2>1, Preserved DEF Comes
<1>. QED  BY <1>2, <1>3, <1>4, <1>5, <1>6

\* Other clients change the server.
LEMMA ServerStep == ListingInv /\ serverChanges => ListingInv'
<1> SUFFICES ASSUME ListingInv, serverChanges PROVE ListingInv'
  OBVIOUS
<1> USE DEF ListingInv
<1>1. UNCHANGED <<request, stage, todo, rows, tmp, listed, list, answer, skipped>>
  BY DEF serverChanges
<1>2. Asked'
  BY <1>1 DEF Asked, request, Preliminary, Arguments
<1>3. Histories' /\ seen \subseteq seen' /\ through' \subseteq through
  BY <1>1 DEF serverChanges, Histories, request
<1>. QED  BY <1>1, <1>2, <1>3, Unmoved

\* A listing ends, by a failure or after its last row.
LEMMA EndStep == ListingInv /\ (fails \/ returns) => ListingInv'
<1> SUFFICES ASSUME ListingInv, fails \/ returns PROVE ListingInv'
  OBVIOUS
<1> USE DEF ListingInv
<1>1. UNCHANGED <<request, objects, stage, todo, rows, tmp, listed, list, skipped, history>> /\ answer = None
  BY DEF fails, returns, Listing
<1>2. Throw # Ok
  BY DEF Throw, Ok
<1>3. Asked'
  BY <1>1, <1>2 DEF Asked, request, Preliminary, fails, returns, Arguments
<1>4. Histories' /\ seen \subseteq seen' /\ through' \subseteq through
  BY <1>1 DEF Histories, request, history
<1>. QED  BY <1>1, <1>3, <1>4, Unmoved

\* A stuttering step.
LEMMA StillStep == ListingInv /\ UNCHANGED metadataVars => ListingInv'
<1> SUFFICES ASSUME ListingInv, UNCHANGED metadataVars PROVE ListingInv'
  OBVIOUS
<1> USE DEF ListingInv
<1>1. UNCHANGED <<request, objects, stage, todo, rows, tmp, listed, list, skipped, answer, through, seen>>
  BY DEF metadataVars, request
<1>2. Asked'
  BY <1>1 DEF Asked, request, Preliminary, Arguments
<1>3. Histories' /\ seen \subseteq seen' /\ through' \subseteq through
  BY <1>1 DEF Histories, request
<1>. QED  BY <1>1, <1>2, <1>3, Unmoved

\* A statement of the engines that ask every database.
InTurn(s) ==
  PerDatabase => /\ s.text \in {"PRAGMA database_list", "sqlite_master", "sqlite_temp_master"}
                 /\ s.text = "sqlite_temp_master" => s.arg = "temp"

\* What a row of the statement s tells, and which statements could give it too.
Real(s, row) ==
  /\ \E o \in Known : Tells(row, o)
  /\ PerDatabase => \/ s.text = "sqlite_master" /\ CatalogOf(row) = s.arg
                    \/ s.text = "sqlite_temp_master" /\ RowMayRepeat(row)
  /\ PerTable => s.text # "" /\ row[3] = s.arg
  /\ Preliminary => TableListed(row)

\* The places of what a row for a table tells.
LEMMA TableRows ==
  \A space, schema, name :
    LET row == TableRow(space, schema, name)
    IN  row[1] = space /\ row[2] = schema /\ row[3] = name /\ row = TableRow(row[1], row[2], row[3])
BY DEF TableRow

\* The places of what a row for a column tells.
LEMMA ColumnRows ==
  \A o, schema : LET row == ColumnRow(o, schema) IN row[2] = schema /\ row[3] = o.name /\ row[4] = o
BY DEF ColumnRow

\* What is there may be told of, and SQLite's own tables have names of their own.
LEMMA KnownNames ==
  ASSUME Asked, Histories
  PROVE  /\ objects \subseteq Known
         /\ source = "sqlite" => /\ SystemObjects \subseteq Known
                                 /\ \A o \in seen : o.name \notin SystemTables
         /\ \A o \in SystemObjects : o.name \in SystemTables /\ o.sort = "system" /\ o.space = "main"
         /\ \A name \in SystemTables : \E o \in SystemObjects : o.name = name
<1>1. \A o \in SystemObjects : o.name \in SystemTables /\ o.sort = "system" /\ o.space = "main"
  BY DEF SystemObjects
<1>2. ASSUME NEW name \in SystemTables PROVE \E o \in SystemObjects : o.name = name
  <2> DEFINE o == [space |-> "main", sort |-> "system", name |-> name]
  <2>1. o \in SystemObjects /\ o.name = name
    BY DEF SystemObjects
  <2>. QED  BY <2>1
<1>. QED  BY <1>1, <1>2, UniverseAssumption DEF Asked, Histories, Known

\* The tables of one database of SQLite.
LEMMA DatabaseRows ==
  ASSUME NEW db, NEW sort, NEW row \in InDatabase(db, sort)
  PROVE  \E o \in objects : o.sort = sort /\ o.space = db /\ row = TableRow(db, Null, o.name)
BY DEF InDatabase, Tables

\* The object that a row of SQLite's tables tells of.
TableOf(o, row) ==
  /\ o.name = row[3] /\ (o.sort = "system" <=> row[3] \in SystemTables)
  /\ row[1] = o.space \/ o \in SystemObjects

\* The rows for the tables of SQLite tell of tables that are there.
LEMMA SqliteTablesReal ==
  ASSUME Asked, Histories, source = "sqlite", NEW s, InTurn(s), PerDatabase, NEW row \in SqliteTables(s)
  PROVE  /\ row = TableRow(row[1], Null, row[3])
         /\ s.text \in {"sqlite_master", "sqlite_temp_master"}
         /\ s.text = "sqlite_master" => row[1] = s.arg
         /\ \E o \in Known : TableOf(o, row) /\ (s.text = "sqlite_temp_master" => o.space = "temp")
<1>1. s.text \in {"PRAGMA database_list", "sqlite_master", "sqlite_temp_master"}
  BY DEF InTurn
<1>2. s.text # "PRAGMA database_list"
  BY DEF SqliteTables
<1>3. ASSUME NEW db, row \in InDatabase(db, "table")
      PROVE  /\ row = TableRow(row[1], Null, row[3]) /\ row[1] = db
             /\ \E o \in Known : TableOf(o, row) /\ o.space = db
  <2>1. PICK o \in objects : o.sort = "table" /\ o.space = db /\ row = TableRow(db, Null, o.name)
    BY <1>3, DatabaseRows
  <2>2. row[1] = db /\ row[3] = o.name /\ row = TableRow(row[1], Null, row[3])
    BY <2>1, TableRows
  <2>3. o \in Known /\ o.name \notin SystemTables
    BY KnownNames DEF Histories
  <2>. QED  BY <2>1, <2>2, <2>3 DEF TableOf
<1>4. CASE s.text = "sqlite_master"
  <2>1. \/ row \in InDatabase(s.arg, "table")
        \/ row \in {TableRow(s.arg, Null, name) : name \in SystemTables}
    BY <1>4 DEF SqliteTables
  <2>2. CASE row \in {TableRow(s.arg, Null, name) : name \in SystemTables}
    <3>1. PICK name \in SystemTables : row = TableRow(s.arg, Null, name)
      BY <2>2
    <3>2. row[1] = s.arg /\ row[3] = name /\ row = TableRow(row[1], Null, row[3])
      BY <3>1, TableRows
    <3>3. PICK o \in SystemObjects : o.name = name
      BY KnownNames
    <3>4. o \in Known /\ o.sort = "system"
      BY <3>3, KnownNames
    <3>. QED  BY <1>4, <3>2, <3>3, <3>4 DEF TableOf
  <2>. QED  BY <1>3, <1>4, <2>1, <2>2
<1>5. CASE s.text = "sqlite_temp_master"
  <2>1. row \in InDatabase("temp", "table")
    BY <1>5 DEF SqliteTables
  <2>. QED  BY <1>3, <1>5, <2>1
<1>. QED  BY <1>1, <1>2, <1>4, <1>5

\* The rows of a statement of SQLite tell of what is there, and of what the statement asks for.
LEMMA SqliteRowsReal ==
  ASSUME Asked, Histories, OfObjects, source = "sqlite", NEW s, InTurn(s), NEW row \in RowsOf(s)
  PROVE  Real(s, row)
<1>1. stage \in {"tables", "columns", "TableList", "IndexList", "ViewList"}
  BY DEF OfObjects
<1>2. CASE stage = "columns"
  <2>1. row \in IF s.text = "" THEN {} ELSE SqliteColumns(s)
    BY <1>2 DEF RowsOf
  <2>2. s.text # "" /\ row \in SqliteColumns(s)
    BY <2>1
  <2>3. PICK o \in Meaning(s.arg) : row = ColumnRow(o, "DEFAULT")
    BY <2>2 DEF SqliteColumns
  <2>4. o.name = s.arg /\ o \in objects \union SystemObjects
    BY DEF Meaning, Tables
  <2>5. o \in Known
    BY <2>4, KnownNames
  <2>6. Tells(row, o) /\ row[3] = s.arg
    BY <1>2, <2>3, <2>4, ColumnRows DEF Tells, DbcLists
  <2>. QED  BY <1>2, <2>2, <2>5, <2>6 DEF Real, PerDatabase, Preliminary
<1>3. CASE stage = "tables"
  <2>1. row \in SqliteTables(s) /\ PerDatabase
    BY <1>3 DEF RowsOf, PerDatabase
  <2>2. PICK o \in Known : TableOf(o, row) /\ (s.text = "sqlite_temp_master" => o.space = "temp")
    BY <2>1, SqliteTablesReal
  <2>3. Tells(row, o)
    BY <1>3, <2>2 DEF Tells, TableOf, DbcLists
  <2>4. CatalogOf(row) = row[1]
    BY <1>3 DEF CatalogOf, DbcLists
  <2>5. /\ row = TableRow(row[1], Null, row[3])
        /\ \/ s.text = "sqlite_master" /\ CatalogOf(row) = s.arg
           \/ s.text = "sqlite_temp_master"
    BY <2>1, <2>4, SqliteTablesReal
  <2>6. s.text = "sqlite_temp_master" => RowMayRepeat(row)
    BY <2>2, <2>3 DEF RowMayRepeat, MayRepeat
  <2>7. row[2] = Null /\ row = TableRow(row[1], row[2], row[3])
    BY <2>5, TableRows
  <2>. QED  BY <1>3, <2>3, <2>5, <2>6, <2>7 DEF Real, PerTable, TableListed
<1>4. CASE stage = "TableList"
  <2>1. PerDatabase /\ row \in SqliteTableList(s)
    BY <1>4 DEF RowsOf, PerDatabase
  <2>2. PICK table \in SqliteTables(s) : row = SqliteTable(table)
    BY <2>1 DEF SqliteTableList
  <2>3. PICK o \in Known : TableOf(o, table) /\ (s.text = "sqlite_temp_master" => o.space = "temp")
    BY <2>1, SqliteTablesReal
  <2>4. row.name = table[3] /\ row.catalog = table[1] /\ row.system = (table[3] \in SystemTables)
    BY <2>2 DEF SqliteTable
  <2>5. Tells(row, o)
    BY <1>4, <2>3, <2>4 DEF Tells, TableOf, DbcLists
  <2>6. \/ s.text = "sqlite_master" /\ CatalogOf(row) = s.arg
        \/ s.text = "sqlite_temp_master"
    BY <1>4, <2>1, <2>4, SqliteTablesReal DEF CatalogOf, DbcLists
  <2>7. s.text = "sqlite_temp_master" => RowMayRepeat(row)
    BY <2>3, <2>5 DEF RowMayRepeat, MayRepeat
  <2>. QED  BY <1>4, <2>5, <2>6, <2>7 DEF Real, PerTable, Preliminary
<1>5. CASE stage \in {"IndexList", "ViewList"}
  <2> DEFINE sort == IF stage = "IndexList" THEN "index" ELSE "view"
  <2>1. /\ PerDatabase /\ s.text # "PRAGMA database_list"
        /\ row \in {SqliteIndex(table) : table \in InDatabase(s.arg, sort)}
    BY <1>5 DEF RowsOf, PerDatabase, SqliteIndexList, SqliteViewList, SqliteView
  <2>2. PICK table \in InDatabase(s.arg, sort) : row = SqliteIndex(table)
    BY <2>1
  <2>3. PICK o \in objects : o.sort = sort /\ o.space = s.arg /\ table = TableRow(s.arg, Null, o.name)
    BY DatabaseRows
  <2>4. row.name = o.name /\ row.catalog = s.arg /\ row.system = FALSE
    BY <2>2, <2>3, TableRows DEF SqliteIndex
  <2>5. o.sort # "system"
    BY <2>3
  <2> HIDE DEF sort
  <2>6. Tells(row, o)
    BY <1>5, <2>3, <2>4, <2>5 DEF Tells, DbcLists
  <2>7. o \in Known
    BY KnownNames
  <2>8. s.text = "sqlite_temp_master" => RowMayRepeat(row)
    BY <2>1, <2>3, <2>6, <2>7 DEF RowMayRepeat, MayRepeat, InTurn
  <2>9. CatalogOf(row) = s.arg
    BY <1>5, <2>4 DEF CatalogOf, DbcLists
  <2>. QED  BY <1>5, <2>1, <2>6, <2>7, <2>8, <2>9 DEF Real, PerTable, Preliminary, InTurn
<1>. QED  BY <1>1, <1>2, <1>3, <1>4, <1>5

\* So do the rows of all engines' statements.
LEMMA RowsReal ==
  ASSUME Asked, Histories, OfObjects, ~Refused, NEW s, InTurn(s), NEW row \in RowsOf(s)
  PROVE  Real(s, row)
<1>1. CASE source = "sqlite"
  BY <1>1, SqliteRowsReal
<1>2. ASSUME source # "sqlite", NEW o \in objects, Tells(row, o), PerTable => s.text # "" /\ row[3] = s.arg,
             Preliminary => TableListed(row)
      PROVE  Real(s, row)
  <2>1. o \in Known
    BY KnownNames
  <2>. QED  BY <1>2, <2>1 DEF Real, PerDatabase
<1>3. CASE source = "odbc"
  <2>1. stage \in {"tables", "columns"}
    BY <1>3 DEF OfObjects, Refused, Copied, OdbcLists
  <2>2. ~PerTable /\ ~Preliminary
    BY <1>3 DEF PerTable, Preliminary
  <2>3. CASE stage = "tables"
    <3>1. row \in OdbcTables
      BY <1>3, <2>3 DEF RowsOf
    <3>2. PICK o \in objects : row = TableRow(Current, o.space, o.name)
      BY <3>1 DEF OdbcTables, Tables
    <3>3. Tells(row, o)
      BY <1>3, <2>3, <3>2, TableRows DEF Tells, DbcLists
    <3>. QED  BY <1>2, <1>3, <2>2, <3>3
  <2>4. CASE stage = "columns"
    <3>1. row \in OdbcColumns
      BY <1>3, <2>4 DEF RowsOf
    <3>2. PICK o \in objects : row = ColumnRow(o, o.space)
      BY <3>1 DEF OdbcColumns, Tables
    <3>3. Tells(row, o)
      BY <1>3, <2>4, <3>2, ColumnRows DEF Tells, DbcLists
    <3>. QED  BY <1>2, <1>3, <2>2, <3>3
  <2>. QED  BY <2>1, <2>3, <2>4
<1>4. CASE source = "firebird"
  <2>1. stage \in {"tables", "columns"}
    BY <1>4 DEF OfObjects, Refused, Copied, FirebirdLists
  <2>2. ~PerTable /\ ~Preliminary
    BY <1>4 DEF PerTable, Preliminary
  <2>3. CASE stage = "tables"
    <3>1. row \in FirebirdTables
      BY <1>4, <2>3 DEF RowsOf
    <3>2. PICK o \in objects : row = TableRow(Null, Null, o.name)
      BY <3>1 DEF FirebirdTables, Tables
    <3>3. Tells(row, o)
      BY <1>4, <2>3, <3>2, TableRows DEF Tells, DbcLists
    <3>. QED  BY <1>2, <1>4, <2>2, <3>3
  <2>4. CASE stage = "columns"
    <3>1. row \in FirebirdColumns
      BY <1>4, <2>4 DEF RowsOf
    <3>2. PICK o \in objects : row = ColumnRow(o, Null)
      BY <3>1 DEF FirebirdColumns, Tables
    <3>3. Tells(row, o)
      BY <1>4, <2>4, <3>2, ColumnRows DEF Tells, DbcLists
    <3>. QED  BY <1>2, <1>4, <2>2, <3>3
  <2>. QED  BY <2>1, <2>3, <2>4
<1>5. CASE source = "sdi"
  <2>1. stage \in {"tables", "columns", "TableList"}
    BY <1>5 DEF OfObjects, Refused, Copied, SdiLists
  <2>2. Current = Null
    BY <1>5 DEF Current
  <2>3. CASE stage = "tables"
    <3>1. row \in SdiTables(IF kind = "tables" THEN asked.schema ELSE Null)
      BY <1>5, <2>3 DEF RowsOf
    <3>2. PICK o \in objects : row = TableRow(Current, o.space, o.name)
      BY <3>1 DEF SdiTables, Tables
    <3>3. Tells(row, o) /\ TableListed(row)
      BY <1>5, <2>2, <2>3, <3>2, TableRows DEF Tells, TableListed, DbcLists
    <3>. QED  BY <1>2, <1>5, <2>3, <3>3 DEF PerTable
  <2>4. CASE stage = "columns"
    <3>1. s.text # "" /\ row \in SdiColumns(s)
      <4>1. row \in IF s.text = "" THEN {} ELSE SdiColumns(s)
        BY <1>5, <2>4 DEF RowsOf
      <4>. QED  BY <4>1
    <3>2. PICK o \in objects : o.name = s.arg /\ row = ColumnRow(o, "DEFAULT")
      BY <3>1 DEF SdiColumns, Tables
    <3>3. Tells(row, o) /\ row[3] = s.arg
      BY <1>5, <2>4, <3>2, ColumnRows DEF Tells, DbcLists
    <3>. QED  BY <1>2, <1>5, <2>4, <3>1, <3>3 DEF Preliminary
  <2>5. CASE stage = "TableList"
    <3>1. row \in SdiTableList
      BY <1>5, <2>5 DEF RowsOf
    <3>2. PICK o \in objects : o.sort = "table" /\ row = SDITable(TableRow("", o.space, o.name))
      BY <3>1 DEF SdiTableList, Tables
    <3> DEFINE table == TableRow("", o.space, o.name)
    <3>3. table[2] = o.space /\ table[3] = o.name
      BY DEF TableRow
    <3> HIDE DEF table
    <3>4. row.name = o.name /\ row.schema = o.space /\ row.system = FALSE
      BY <3>2, <3>3 DEF SDITable, table
    <3>5. Tells(row, o)
      BY <1>5, <2>5, <3>2, <3>4 DEF Tells, DbcLists
    <3>. QED  BY <1>2, <1>5, <2>5, <3>5 DEF PerTable, Preliminary
  <2>. QED  BY <2>1, <2>3, <2>4, <2>5
<1>. QED  BY <1>1, <1>3, <1>4, <1>5 DEF Asked, Engines

\* The databases of SQLite are different ones, and every object is in one.
LEMMA DatabaseNames ==
  ASSUME Histories
  PROVE  /\ IsSequence(Databases) /\ DOMAIN Databases = 1 .. Len(Databases) /\ Len(Databases) \in Nat
         /\ \A i, j \in DOMAIN Databases : Databases[i] = Databases[j] => i = j
         /\ source = "sqlite" => \A o \in objects : \E i \in DOMAIN Databases : Databases[i] = o.space
<1> DEFINE own == IF \E o \in objects : o.space = "temp" THEN <<"main", "temp">> ELSE <<"main">>
           D == Databases
<1>2. D = own \o Attached
  BY DEF Databases
<1>3. /\ own \in Seq({"main", "temp"}) /\ Len(own) \in {1, 2}
      /\ DOMAIN own = 1 .. Len(own) /\ own[1] = "main" /\ (Len(own) = 2 => own[2] = "temp")
      /\ (\E o \in objects : o.space = "temp") => Len(own) = 2
  <2> DEFINE none == <<"main">>
             both == <<"main", "temp">>
  <2>1. none \in Seq({"main", "temp"}) /\ Len(none) = 1 /\ none[1] = "main"
    OBVIOUS
  <2>2. both \in Seq({"main", "temp"}) /\ Len(both) = 2 /\ both[1] = "main" /\ both[2] = "temp"
    OBVIOUS
  <2>3. own = IF \E o \in objects : o.space = "temp" THEN both ELSE none
    OBVIOUS
  <2> HIDE DEF none, both, own
  <2>. QED  BY <2>1, <2>2, <2>3
<1> HIDE DEF own, D
<1>4. /\ Attached \in Seq(STRING \ {"main", "temp"})
      /\ \A i, j \in DOMAIN Attached : Attached[i] = Attached[j] => i = j
  BY AttachedAssumption
<1> DEFINE S == {"main", "temp"} \union (STRING \ {"main", "temp"})
<1>5. own \in Seq(S) /\ Attached \in Seq(S)
  BY <1>3, <1>4, SeqMonotonic
<1> HIDE DEF S
<1>6. /\ D \in Seq(S) /\ Len(D) = Len(own) + Len(Attached)
      /\ \A i \in 1 .. Len(D) : D[i] = IF i <= Len(own) THEN own[i] ELSE Attached[i - Len(own)]
  BY <1>2, <1>5, ConcatProperties
<1>7. IsSequence(D) /\ DOMAIN D = 1 .. Len(D) /\ Len(D) \in Nat
  BY <1>6, AnySequence
<1>8. Len(Attached) \in Nat /\ DOMAIN Attached = 1 .. Len(Attached)
  BY <1>5
<1>9. \A i \in 1 .. Len(Attached) : Attached[i] \notin {"main", "temp"}
  BY <1>4, <1>8, ElementOfSeq
<1>12. \A i \in 1 .. Len(own) : own[i] \in {"main", "temp"}
  BY <1>3, ElementOfSeq
<1>10. ASSUME NEW i \in DOMAIN D, NEW j \in DOMAIN D, D[i] = D[j] PROVE i = j
  <2>1. CASE i <= Len(own) /\ j <= Len(own)
    BY <1>3, <1>6, <1>7, <1>10, <2>1
  <2>2. CASE i <= Len(own) /\ ~(j <= Len(own))
    <3>1. j - Len(own) \in 1 .. Len(Attached) /\ D[j] = Attached[j - Len(own)] /\ D[i] = own[i] /\ i \in 1 .. Len(own)
      BY <1>3, <1>6, <1>7, <1>8, <2>2
    <3>. QED  BY <1>9, <1>10, <1>12, <3>1
  <2>3. CASE ~(i <= Len(own)) /\ j <= Len(own)
    <3>1. i - Len(own) \in 1 .. Len(Attached) /\ D[i] = Attached[i - Len(own)] /\ D[j] = own[j] /\ j \in 1 .. Len(own)
      BY <1>3, <1>6, <1>7, <1>8, <2>3
    <3>. QED  BY <1>9, <1>10, <1>12, <3>1
  <2>4. CASE ~(i <= Len(own)) /\ ~(j <= Len(own))
    <3>1. /\ i - Len(own) \in DOMAIN Attached /\ j - Len(own) \in DOMAIN Attached
          /\ D[i] = Attached[i - Len(own)] /\ D[j] = Attached[j - Len(own)]
      BY <1>3, <1>6, <1>7, <1>8, <2>4
    <3>2. i - Len(own) = j - Len(own)
      BY <1>4, <1>10, <3>1
    <3>. QED  BY <1>3, <1>7, <3>2
  <2>. QED  BY <2>1, <2>2, <2>3, <2>4
<1>11. ASSUME source = "sqlite", NEW o \in objects PROVE \E i \in DOMAIN D : D[i] = o.space
  <2>1. o.space \in {"main", "temp"} \union {Attached[i] : i \in DOMAIN Attached}
    BY <1>11, UniverseAssumption DEF Histories
  <2>2. CASE o.space = "main"
    <3>1. 1 \in DOMAIN D /\ D[1] = "main"
      BY <1>3, <1>6, <1>7, <1>8
    <3>. QED  BY <2>2, <3>1
  <2>3. CASE o.space = "temp"
    <3>1. 2 \in DOMAIN D /\ D[2] = "temp"
      BY <1>3, <1>6, <1>7, <1>8, <2>3
    <3>. QED  BY <2>3, <3>1
  <2>4. CASE \E i \in DOMAIN Attached : o.space = Attached[i]
    <3>1. PICK i \in DOMAIN Attached : o.space = Attached[i]
      BY <2>4
    <3> DEFINE k == i + Len(own)
    <3>2. k \in 1 .. Len(D) /\ ~(k <= Len(own)) /\ k - Len(own) = i
      BY <1>3, <1>6, <1>8
    <3> HIDE DEF k
    <3>3. D[k] = Attached[i]
      BY <1>6, <3>2
    <3>. QED  BY <1>7, <3>1, <3>2, <3>3
  <2>. QED  BY <2>1, <2>2, <2>3, <2>4
<1>. QED  BY <1>7, <1>10, <1>11 DEF D

\* What the client's arguments say of an object that was asked for.
LEMMA AskedTables ==
  ASSUME Asked, NEW o, AskedFor(o)
  PROVE  /\ source # "odbc" /\ kind \in {"tables", "columns", "TableList"} => o.sort = "table"
         /\ kind = "IndexList" => o.sort = "index"
         /\ kind = "ViewList" => o.sort = "view"
         /\ asked.class # "SYSTEM" /\ kind \in {"tables", "columns", "TableList"} => o.sort = "table"
         /\ asked.class = "SYSTEM" => kind = "tables" /\ o.sort = "system"
         /\ asked.schema \in {Null, o.space} /\ asked.table \in {Null, o.name}
         /\ asked.schema \in {Null, "s"} /\ asked.class \in {"USER", "SYSTEM", "ALL"}
<1>1. /\ asked.class # "USER" => source = "odbc" /\ kind = "tables"
      /\ asked.schema \in {Null, "s"} /\ asked.class \in {"USER", "SYSTEM", "ALL"}
  BY DEF Asked, Arguments
<1>. QED  BY <1>1 DEF AskedFor, DbcLists

\* A statement of SQLite that covers an object answers with a row for it.
LEMMA SqliteAnswered ==
  ASSUME Asked, Histories, source = "sqlite", NEW o \in objects, AskedFor(o), Reachable(o),
         NEW s, InTurn(s), Covers(s, o)
  PROVE  \E row \in RowsOf(s) : Tells(row, o)
<1>1. o.name \notin SystemTables /\ o \in seen
  BY KnownNames DEF Histories
<1>2. CASE stage \in {"catalogs", "CatalogList"}
  <2>1. PICK i \in DOMAIN Databases : Databases[i] = o.space
    BY DatabaseNames
  <2> DEFINE row == CatalogRow(Databases[i])
  <2>2. row \in SqliteCatalogs /\ row[1] = o.space
    BY <2>1 DEF SqliteCatalogs, CatalogRow
  <2> HIDE DEF row
  <2>3. CASE stage = "catalogs"
    BY <2>2, <2>3 DEF RowsOf, Tells, DbcLists
  <2>4. CASE stage = "CatalogList"
    <3> DEFINE entry == SqliteCatalog(row)
    <3>1. entry \in RowsOf(s)
      BY <2>2, <2>4 DEF RowsOf, SqliteCatalogList
    <3>2. entry.name = o.space
      BY <2>2 DEF SqliteCatalog
    <3> HIDE DEF entry
    <3>3. Tells(entry, o)
      BY <2>4, <3>2 DEF Tells
    <3>. QED  BY <3>1, <3>3
  <2>. QED  BY <1>2, <2>3, <2>4
<1>3. CASE stage = "schemas"
  <2>1. SchemaRow("DEFAULT") \in RowsOf(s)
    BY <1>3 DEF RowsOf, SqliteSchemas
  <2>. QED  BY <1>3, <2>1 DEF Tells, DbcLists
<1>4. CASE stage = "columns"
  <2>1. kind = "columns" /\ PerTable
    BY <1>4 DEF Asked, Preliminary, PerTable
  <2>2. s.text # "" /\ s.arg = o.name
    BY <2>1 DEF Covers
  <2>3. o.sort = "table"
    BY <2>1, AskedTables
  <2>4. Namesakes(o) = {}
    BY <2>1 DEF Reachable
  <2> DEFINE named == {p \in Tables({"table", "view"}) : p.name = o.name}
  <2>5. o \in named
    BY <2>3 DEF Tables
  <2>6. \A p \in named : p = o
    BY <2>4 DEF Namesakes, Tables, Histories
  <2>7. Rank(o.space) <= Rank(o.space)
    <3>1. Rank(o.space) \in Int
      <4>1. o.space \in {"main", "temp"} \union {Attached[i] : i \in DOMAIN Attached}
        BY UniverseAssumption DEF Histories
      <4>2. DOMAIN Attached \subseteq Int
        BY AttachedAssumption
      <4>. QED  BY <4>1, <4>2 DEF Rank
    <3>. QED  BY <3>1
  <2>8. o \in Meaning(s.arg)
    BY <2>2, <2>5, <2>6, <2>7 DEF Meaning
  <2>9. ColumnRow(o, "DEFAULT") \in RowsOf(s)
    BY <1>4, <2>2, <2>8 DEF RowsOf, SqliteColumns
  <2>. QED  BY <1>4, <2>9, ColumnRows DEF Tells, DbcLists
<1>5. CASE stage \in {"tables", "TableList", "IndexList", "ViewList"}
  <2> DEFINE sort == CASE stage = "IndexList" -> "index" [] stage = "ViewList" -> "view" [] OTHER -> "table"
             row == TableRow(o.space, Null, o.name)
  <2>1. PerDatabase
    BY <1>5 DEF PerDatabase
  <2>2. \/ s.text = "sqlite_master" /\ s.arg = o.space
        \/ s.text = "sqlite_temp_master" /\ s.arg = "temp" /\ o.space = "temp"
    BY <2>1 DEF Covers, InTurn
  <2>3. o.sort = sort
    BY <1>5, AskedTables DEF Asked, Preliminary
  <2>4. row \in InDatabase(o.space, sort)
    BY <2>3 DEF InDatabase, Tables
  <2>5. row[1] = o.space /\ row[3] = o.name
    BY TableRows
  <2>6. s.arg = o.space
    BY <2>2
  <2> HIDE DEF row
  <2>7. ASSUME stage \in {"tables", "TableList"} PROVE row \in SqliteTables(s)
    <3>1. row \in InDatabase(s.arg, "table")
      BY <2>4, <2>6, <2>7
    <3>. QED  BY <2>2, <3>1 DEF SqliteTables
  <2>8. CASE stage = "tables"
    <3>1. row \in RowsOf(s)
      BY <2>7, <2>8 DEF RowsOf
    <3>. QED  BY <2>5, <2>8, <3>1 DEF Tells, DbcLists
  <2>9. CASE stage = "TableList"
    <3>1. SqliteTable(row) \in RowsOf(s)
      BY <2>7, <2>9 DEF RowsOf, SqliteTableList
    <3>2. SqliteTable(row).name = o.name /\ SqliteTable(row).catalog = o.space
          /\ SqliteTable(row).system = (o.name \in SystemTables)
      BY <2>5 DEF SqliteTable
    <3>. QED  BY <1>1, <2>3, <2>9, <3>1, <3>2 DEF Tells, DbcLists
  <2>10. CASE stage \in {"IndexList", "ViewList"}
    <3>1. SqliteIndex(row) \in RowsOf(s)
      BY <2>2, <2>4, <2>6, <2>10 DEF RowsOf, SqliteIndexList, SqliteViewList, SqliteView
    <3>2. SqliteIndex(row).name = o.name /\ SqliteIndex(row).catalog = o.space /\ SqliteIndex(row).system = FALSE
      BY <2>5 DEF SqliteIndex
    <3>3. o.sort # "system"
      BY <2>3
    <3>. QED  BY <2>10, <3>1, <3>2, <3>3 DEF Tells, DbcLists
  <2>. QED  BY <1>5, <2>8, <2>9, <2>10
<1>. QED  BY <1>2, <1>3, <1>4, <1>5 DEF Asked, Preliminary, DbcLists

\* A statement that is executed tells of what is there and was asked for.
LEMMA Answered ==
  ASSUME Asked, Histories, ~Refused, NEW o \in objects, AskedFor(o), Reachable(o),
         NEW s, InTurn(s), Covers(s, o)
  PROVE  \E row \in RowsOf(s) : Tells(row, o)
<1>1. CASE source = "sqlite"
  BY <1>1, SqliteAnswered
<1>2. CASE source = "odbc"
  <2>1. stage = kind /\ stage \in {"catalogs", "schemas", "tables", "columns"}
    BY <1>2 DEF Asked, Preliminary, Refused, Copied, OdbcLists, DbcLists
  <2>2. Matches(asked.schema, o.space) /\ Matches(asked.table, o.name)
    BY AskedTables DEF Matches
  <2>3. CASE stage = "catalogs"
    <3>1. CatalogRow(Current) \in RowsOf(s) /\ CatalogRow(Current)[1] = Current
      BY <1>2, <2>3 DEF RowsOf, OdbcCatalogs, CatalogRow
    <3>. QED  BY <1>2, <2>3, <3>1 DEF Tells, DbcLists
  <2>4. CASE stage = "schemas"
    <3>1. SchemaRow(o.space) \in RowsOf(s) /\ SchemaRow(o.space)[2] = o.space
      BY <1>2, <2>4 DEF RowsOf, OdbcSchemas, SchemaRow
    <3>. QED  BY <1>2, <2>4, <3>1 DEF Tells, DbcLists
  <2>5. CASE stage = "tables"
    <3> DEFINE types == CASE asked.class = "SYSTEM" -> {"system"}
                          [] asked.class = "USER"   -> {"table"}
                          [] OTHER                  -> {"table", "system"}
    <3>1. o.sort \in types
      <4>1. CASE asked.class = "SYSTEM"
        BY <4>1, AskedTables
      <4>2. CASE asked.class # "SYSTEM"
        BY <2>1, <2>5, <4>2, AskedTables
      <4>. QED  BY <4>1, <4>2
    <3>2. TableRow(Current, o.space, o.name) \in OdbcTables
      BY <2>2, <3>1 DEF OdbcTables, Tables
    <3>3. TableRow(Current, o.space, o.name) \in RowsOf(s)
      BY <1>2, <2>5, <3>2 DEF RowsOf
    <3>4. TableRow(Current, o.space, o.name)[2] = o.space /\ TableRow(Current, o.space, o.name)[3] = o.name
      BY TableRows
    <3>. QED  BY <1>2, <2>5, <3>3, <3>4 DEF Tells, DbcLists
  <2>6. CASE stage = "columns"
    <3>1. o.sort = "table"
      BY <2>1, <2>6, AskedTables
    <3>2. ColumnRow(o, o.space) \in RowsOf(s)
      BY <1>2, <2>2, <2>6, <3>1 DEF RowsOf, OdbcColumns, Tables
    <3>. QED  BY <2>6, <3>2, ColumnRows DEF Tells, DbcLists
  <2>. QED  BY <2>1, <2>3, <2>4, <2>5, <2>6
<1>3. CASE source = "firebird"
  <2>1. stage = kind /\ stage \in {"catalogs", "schemas", "tables", "columns"}
    BY <1>3 DEF Asked, Preliminary, Refused, Copied, FirebirdLists, DbcLists
  <2>2. CASE stage = "catalogs"
    <3>1. CatalogRow(Current) \in RowsOf(s) /\ CatalogRow(Current)[1] = Current
      BY <1>3, <2>2 DEF RowsOf, FirebirdCatalogs, CatalogRow
    <3>. QED  BY <1>3, <2>2, <3>1 DEF Tells, DbcLists
  <2>3. CASE stage = "schemas"
    <3>1. SchemaRow(Null) \in RowsOf(s)
      BY <1>3, <2>3 DEF RowsOf, FirebirdSchemas
    <3>. QED  BY <1>3, <2>3, <3>1 DEF Tells, DbcLists
  <2>4. CASE stage \in {"tables", "columns"}
    <3>1. o.sort = "table"
      BY <1>3, <2>1, <2>4, AskedTables
    <3>2. CASE stage = "tables"
      <4>1. TableRow(Null, Null, o.name) \in RowsOf(s)
        BY <1>3, <3>1, <3>2 DEF RowsOf, FirebirdTables, Tables
      <4>2. TableRow(Null, Null, o.name)[3] = o.name
        BY TableRows
      <4>. QED  BY <1>3, <3>2, <4>1, <4>2 DEF Tells, DbcLists
    <3>3. CASE stage = "columns"
      <4>1. ColumnRow(o, Null) \in RowsOf(s)
        BY <1>3, <3>1, <3>3, AskedTables DEF RowsOf, FirebirdColumns, Tables
      <4>. QED  BY <3>3, <4>1, ColumnRows DEF Tells, DbcLists
    <3>. QED  BY <2>4, <3>2, <3>3
  <2>. QED  BY <2>1, <2>2, <2>3, <2>4
<1>4. CASE source = "sdi"
  <2>1. o.sort = "table" /\ Current = Null
    BY <1>4, UniverseAssumption DEF Histories, Current
  <2>2. stage \in {"catalogs", "schemas", "tables", "columns", "TableList"}
    BY <1>4 DEF Asked, Preliminary, Refused, Copied, SdiLists, DbcLists
  <2>3. CASE stage = "catalogs"
    <3>1. CatalogRow(Current) \in RowsOf(s) /\ CatalogRow(Current)[1] = Current
      BY <1>4, <2>3 DEF RowsOf, SdiCatalogs, CatalogRow
    <3>. QED  BY <1>4, <2>3, <3>1 DEF Tells, DbcLists
  <2>4. CASE stage = "schemas"
    <3>1. SchemaRow(o.space) \in RowsOf(s) /\ SchemaRow(o.space)[2] = o.space
      BY <1>4, <2>1, <2>4 DEF RowsOf, SdiSchemas, SchemaRow, Tables
    <3>. QED  BY <1>4, <2>4, <3>1 DEF Tells, DbcLists
  <2>5. CASE stage = "tables"
    <3> DEFINE schema == IF kind = "tables" THEN asked.schema ELSE Null
    <3>1. schema \in {Null, IF o.space = Null THEN "DEFAULT" ELSE o.space}
      BY NullAssumption, AskedTables
    <3>2. TableRow(Current, o.space, o.name) \in SdiTables(schema)
      BY <2>1, <3>1 DEF SdiTables, Tables
    <3>3. TableRow(Current, o.space, o.name) \in RowsOf(s)
      BY <1>4, <2>5, <3>2 DEF RowsOf
    <3>4. TableRow(Current, o.space, o.name)[2] = o.space /\ TableRow(Current, o.space, o.name)[3] = o.name
      BY TableRows
    <3>. QED  BY <1>4, <2>5, <3>3, <3>4 DEF Tells, DbcLists
  <2>6. CASE stage = "columns"
    <3>1. s.text # "" /\ s.arg = o.name
      BY <1>4, <2>6 DEF Covers, PerTable
    <3>2. ColumnRow(o, "DEFAULT") \in RowsOf(s)
      BY <1>4, <2>1, <2>6, <3>1, AskedTables DEF RowsOf, SdiColumns, Tables
    <3>. QED  BY <2>6, <3>2, ColumnRows DEF Tells, DbcLists
  <2>7. CASE stage = "TableList"
    <3> DEFINE table == TableRow("", o.space, o.name)
               entry == SDITable(table)
    <3>1. entry \in RowsOf(s)
      BY <1>4, <2>1, <2>7 DEF RowsOf, SdiTableList, Tables
    <3>2. table[2] = o.space /\ table[3] = o.name
      BY DEF TableRow
    <3> HIDE DEF table
    <3>3. entry.name = o.name /\ entry.schema = o.space /\ entry.system = FALSE
      BY <3>2 DEF SDITable
    <3> HIDE DEF entry
    <3>. QED  BY <1>4, <2>1, <2>7, <3>1, <3>3 DEF Tells, DbcLists
  <2>. QED  BY <2>2, <2>3, <2>4, <2>5, <2>6, <2>7
<1>. QED  BY <1>1, <1>2, <1>3, <1>4 DEF Asked, Engines

\* The first statement is done with, and it gave no row that could still come.
LEMMA OneLess ==
  ASSUME ListingInv, UNCHANGED <<source, kind, asked, stage>>, seen \subseteq seen', ~Refused,
         todo # <<>>, todo' = Tail(todo)
  PROVE  /\ ToExecute'
         /\ DOMAIN todo = 1 .. Len(todo) /\ Len(todo) \in Nat \ {0} /\ Head(todo) = todo[1] /\ InTurn(Head(todo))
         /\ DOMAIN todo' = 1 .. Len(todo) - 1
         /\ \A i \in DOMAIN todo' : i + 1 \in DOMAIN todo /\ todo'[i] = todo[i + 1]
<1> USE DEF ListingInv
<1>1. IsSequence(todo)
  BY DEF ToExecute
<1> DEFINE n == Len(todo)
           t == Tail(todo)
<1>2. /\ IsSequence(t) /\ n \in Nat \ {0} /\ DOMAIN todo = 1 .. n
      /\ 1 \in DOMAIN todo /\ Head(todo) = todo[1]
      /\ Len(t) = n - 1 /\ DOMAIN t = 1 .. n - 1
      /\ \A i \in DOMAIN t : i + 1 \in DOMAIN todo /\ t[i] = todo[i + 1]
  BY <1>1, FirstAndRest
<1>3. InTurn(Head(todo))
  BY <1>2 DEF ToExecute, DatabasesInTurn, InTurn
<1>8. todo' = t
  OBVIOUS
<1> HIDE DEF n, t
<1>4. PerDatabase' => DatabasesInTurn'
  <2> SUFFICES ASSUME PerDatabase' PROVE DatabasesInTurn'
    OBVIOUS
  <2>1. DatabasesInTurn
    BY Preserved DEF ToExecute
  <2>2. ASSUME NEW i \in DOMAIN t
        PROVE  /\ t[i].text \in {"PRAGMA database_list", "sqlite_master", "sqlite_temp_master"}
               /\ t[i].text = "sqlite_temp_master" => t[i].arg = "temp" /\ i = Len(t)
               /\ t[i].text = "sqlite_master" /\ stage # "ViewList" => t[Len(t)].text = "sqlite_temp_master"
    <3>1. i + 1 \in DOMAIN todo /\ t[i] = todo[i + 1] /\ i \in 1 .. n - 1
      BY <1>2
    <3>2. Len(t) \in DOMAIN t /\ Len(t) + 1 = n
      BY <1>2, <3>1
    <3>3. t[Len(t)] = todo[Len(todo)]
      BY <1>2, <3>2 DEF n
    <3>4. i + 1 = Len(todo) => i = Len(t)
      BY <1>2, <3>1 DEF n
    <3>. QED  BY <2>1, <3>1, <3>3, <3>4 DEF DatabasesInTurn
  <2>3. ASSUME NEW i \in DOMAIN t, NEW j \in DOMAIN t,
               t[i].text = "sqlite_master", t[j].text = "sqlite_master", t[i].arg = t[j].arg
        PROVE  i = j
    <3>1. /\ i + 1 \in DOMAIN todo /\ t[i] = todo[i + 1] /\ i \in 1 .. n - 1
          /\ j + 1 \in DOMAIN todo /\ t[j] = todo[j + 1] /\ j \in 1 .. n - 1
      BY <1>2
    <3>2. i + 1 = j + 1
      BY <2>1, <2>3, <3>1 DEF DatabasesInTurn
    <3>. QED  BY <3>1, <3>2
  <2>. QED  BY <1>8, <2>2, <2>3 DEF DatabasesInTurn
<1>5. PerTable' => TablesInTurn'
  <2> SUFFICES ASSUME PerTable' PROVE TablesInTurn'
    OBVIOUS
  <2>1. TablesInTurn
    BY Preserved DEF ToExecute
  <2>2. ASSUME NEW i \in DOMAIN t, NEW j \in DOMAIN t, t[i].text # "", t[j].text # "", t[i].arg = t[j].arg
        PROVE  i = j \/ NameRepeats(t[i].arg)
    <3>1. /\ i + 1 \in DOMAIN todo /\ t[i] = todo[i + 1] /\ i \in 1 .. n - 1
          /\ j + 1 \in DOMAIN todo /\ t[j] = todo[j + 1] /\ j \in 1 .. n - 1
      BY <1>2
    <3>2. i + 1 = j + 1 \/ NameRepeats(todo[i + 1].arg)
      BY <2>1, <2>2, <3>1 DEF TablesInTurn
    <3>. QED  BY <3>1, <3>2
  <2>3. \A name : NameRepeats(name) => NameRepeats(name)'
    BY Preserved
  <2>. QED  BY <1>8, <2>2, <2>3 DEF TablesInTurn
<1>6. ~Refused' /\ (Single' => Len(t) <= 1)
  BY <1>2, Preserved DEF ToExecute, n
<1>7. source' = "sqlite" /\ ~PerDatabase' => \A i \in DOMAIN t : t[i].text # "sqlite_master"
  BY <1>2, Preserved DEF ToExecute
<1>10. IsSequence(todo)'
  BY <1>2, <1>8 DEF IsSequence
<1>11. source' = "sqlite" /\ ~PerDatabase' => \A i \in DOMAIN todo' : todo'[i].text # "sqlite_master"
  BY <1>7, <1>8
<1>9. ToExecute'
  BY <1>4, <1>5, <1>6, <1>8, <1>10, <1>11 DEF ToExecute
<1>. QED  BY <1>2, <1>3, <1>8, <1>9 DEF n

\* What may repeat for one table of a name may repeat for all of them.
LEMMA NameRepeatsAll ==
  ASSUME Asked, Histories, kind = "columns", NEW name, NameRepeats(name), NEW o \in Known, o.name = name
  PROVE  MayRepeat(o)
<1>1. PICK p \in Known : p.name = name /\ MayRepeat(p)
  BY DEF NameRepeats
<1>2. CASE o \in SystemObjects
  BY <1>2 DEF MayRepeat
<1>3. CASE o \notin SystemObjects
  <2>1. o \in seen
    BY <1>3 DEF Known
  <2>2. p \in seen
    <3>1. CASE source = "sqlite"
      <4>1. o.name \notin SystemTables
        BY <2>1, <3>1, KnownNames
      <4>2. p \notin SystemObjects
        BY <1>1, <4>1, KnownNames
      <4>. QED  BY <4>2 DEF Known
    <3>. QED  BY <3>1 DEF Known
  <2>3. CASE p = o
    BY <1>1, <2>3
  <2>4. CASE p # o
    BY <1>1, <2>2, <2>4 DEF MayRepeat, Namesakes
  <2>. QED  BY <2>3, <2>4
<1>. QED  BY <1>2, <1>3

\* A statement is executed.
LEMMA ExecuteStep == ListingInv /\ executes => ListingInv'
<1> SUFFICES ASSUME ListingInv, executes PROVE ListingInv'
  OBVIOUS
<1> USE DEF ListingInv
<1> DEFINE h == Head(todo)
<1> PICK t : t = Tail(todo)
  OBVIOUS
<1> PICK L : L = Listed
  OBVIOUS
<1>1. /\ answer = None /\ rows = {} /\ todo # <<>> /\ ~MustFail(h)
      /\ rows' = RowsOf(h) /\ todo' = t
      /\ UNCHANGED <<source, kind, asked, objects, stage, tmp, listed, list, answer, skipped, through, seen>>
  BY DEF executes, Listing, request, history
<1>2. ~Refused /\ seen \subseteq seen'
  BY <1>1 DEF MustFail, Refused
<1>3. /\ ToExecute'
      /\ DOMAIN todo = 1 .. Len(todo) /\ Len(todo) \in Nat \ {0} /\ h = todo[1] /\ InTurn(h)
      /\ DOMAIN t = 1 .. Len(todo) - 1
      /\ \A i \in DOMAIN t : i + 1 \in DOMAIN todo /\ t[i] = todo[i + 1]
  BY <1>1, <1>2, OneLess
<1> HIDE DEF h
<1>4. Asked'
  <2>1. answer' # Ok
    BY <1>1 DEF None, Ok
  <2>. QED  BY <1>1, <2>1 DEF Asked, Preliminary, Arguments
<1>5. Histories'
  BY <1>1 DEF Histories
<1>6. RecordSetsMade'
  BY <1>1 DEF RecordSetsMade, Shaped, IsSequence
<1>7. Listed' = L /\ Listed = L
  BY <1>1 DEF Listed
<1>8. OfObjects => \A row \in rows' : Real(h, row)
  BY <1>1, <1>2, <1>3, RowsReal
<1>9. 1 \in DOMAIN todo /\ \A i \in DOMAIN t : i + 1 # 1 /\ Len(todo) # 1
  BY <1>3
<1>10. ASSUME NEW i \in DOMAIN t, NEW row \in rows', MayAnswer(t[i], row) PROVE FALSE
  <2>1. t[i] = todo[i + 1] /\ i + 1 \in DOMAIN todo /\ i + 1 # 1 /\ Len(todo) # 1
    BY <1>3, <1>9
  <2>2. CASE PerDatabase
    <3>1. t[i].text = "sqlite_master" /\ t[i].arg = CatalogOf(row)
      BY <1>10, <2>2 DEF MayAnswer, PerTable, PerDatabase, Single
    <3>2. Real(h, row)
      BY <1>8, <2>2 DEF PerDatabase, OfObjects
    <3>3. DatabasesInTurn
      BY <2>2 DEF ToExecute
    <3>4. h.text # "sqlite_temp_master"
      BY <1>3, <1>9, <2>1, <3>3 DEF DatabasesInTurn
    <3>5. h.text = "sqlite_master" /\ CatalogOf(row) = h.arg
      BY <2>2, <3>2, <3>4 DEF Real
    <3>. QED  BY <1>3, <1>9, <2>1, <3>1, <3>3, <3>5 DEF DatabasesInTurn
  <2>3. CASE PerTable
    <3>1. t[i].text # "" /\ t[i].arg = row[3] /\ ~NameRepeats(row[3])
      BY <1>10, <2>3 DEF MayAnswer, PerTable, PerDatabase, Single
    <3>2. Real(h, row)
      BY <1>8, <2>3 DEF PerTable, OfObjects
    <3>3. h.text # "" /\ row[3] = h.arg
      BY <2>3, <3>2 DEF Real
    <3>4. TablesInTurn
      BY <2>3 DEF ToExecute
    <3>. QED  BY <1>3, <1>9, <2>1, <3>1, <3>3, <3>4 DEF TablesInTurn
  <2>4. CASE Single
    BY <1>3, <2>1, <2>4 DEF ToExecute
  <2>. QED  BY <1>2, <2>2, <2>3, <2>4 DEF Single
<1>11. ASSUME OfObjects, NEW row \in rows', ~MayAnswer(h, row) PROVE RowMayRepeat(row)
  <2>1. Real(h, row)
    BY <1>8, <1>11
  <2>2. CASE PerDatabase
    BY <1>11, <2>1, <2>2 DEF Real, MayAnswer
  <2>3. CASE PerTable
    <3>1. PICK o \in Known : Tells(row, o)
      BY <2>1 DEF Real
    <3>2. o.name = row[3] /\ kind = "columns"
      BY <2>3, <3>1 DEF PerTable, Tells, DbcLists, Asked, Preliminary
    <3>3. NameRepeats(row[3])
      BY <1>11, <2>1, <2>3 DEF Real, MayAnswer
    <3>. QED  BY <3>1, <3>2, <3>3, NameRepeatsAll DEF RowMayRepeat
  <2>4. CASE Single
    BY <1>11, <2>4 DEF MayAnswer
  <2>. QED  BY <1>2, <2>2, <2>3, <2>4 DEF Single
<1>12. RowsOnce'
  <2>1. \A s, row : MayAnswer(s, row)' => MayAnswer(s, row)
    BY <1>1, <1>2, Preserved
  <2>2. \A row : RowMayRepeat(row) => RowMayRepeat(row)'
    BY <1>1, <1>2, Preserved
  <2>3. OfObjects' <=> OfObjects
    BY <1>1, <1>2, Preserved
  <2>4. \A i \in DOMAIN t : \A row \in rows' : ~(MayAnswer(t[i], row)')
    BY <1>10, <2>1
  <2>5. \A i \in DOMAIN todo : \A j \in DOMAIN L : ~MayAnswer(todo[i], L[j])
    BY <1>7 DEF RowsOnce
  <2>6. \A i \in DOMAIN t : \A j \in DOMAIN L : ~(MayAnswer(t[i], L[j])')
    BY <1>3, <2>1, <2>5
  <2>7. ASSUME OfObjects, NEW i \in DOMAIN L
        PROVE  /\ L[i] \in rows' => RowMayRepeat(L[i])
               /\ \A j \in DOMAIN L : L[i] = L[j] => i = j \/ RowMayRepeat(L[i])
    <3>1. \A j \in DOMAIN L : L[i] = L[j] => i = j \/ RowMayRepeat(L[i])
      BY <1>7, <2>7 DEF RowsOnce
    <3>2. ~MayAnswer(h, L[i])
      BY <1>3, <1>9, <2>5
    <3>. QED  BY <1>11, <2>7, <3>1, <3>2
  <2>. QED  BY <1>1, <1>7, <2>2, <2>3, <2>4, <2>6, <2>7 DEF RowsOnce
<1>13. RowsTell'
  <2>1. ASSUME OfObjects, NEW row \in rows'
        PROVE  (\E o \in Known : Tells(row, o)) /\ (Preliminary => TableListed(row))
    BY <1>8, <2>1 DEF Real
  <2>. QED  BY <1>1, <1>2, <1>7, <2>1, Preserved DEF RowsTell
<1>14. NothingLost'
  <2> SUFFICES ASSUME NEW o \in through', AskedFor(o)', Reachable(o)'
               PROVE  Comes(o)'
    BY DEF NothingLost
  <2>1. AskedFor(o) /\ Reachable(o) /\ o \in objects /\ o \in through
    BY <1>1, <1>2, Preserved DEF Histories
  <2>2. Comes(o)
    BY <1>1, <2>1 DEF NothingLost
  <2>3. \A row, p : Tells(row, p)' <=> Tells(row, p)
    BY <1>1, <1>2, Preserved
  <2>4. \A s, p : Covers(s, p)' <=> Covers(s, p)
    BY <1>1, <1>2, Preserved
  <2>5. CASE \E i \in DOMAIN Listed : Tells(Listed[i], o)
    BY <1>7, <2>3, <2>5 DEF Comes
  <2>6. ASSUME NEW i \in DOMAIN todo, Covers(todo[i], o) PROVE Comes(o)'
    <3>1. CASE i = 1
      <4>1. \E row \in RowsOf(h) : Tells(row, o)
        BY <1>2, <1>3, <2>1, <2>6, <3>1, Answered
      <4>. QED  BY <1>1, <2>3, <4>1 DEF Comes
    <3>2. CASE i # 1
      <4>1. i - 1 \in DOMAIN t /\ t[i - 1] = todo[(i - 1) + 1] /\ (i - 1) + 1 = i
        BY <1>3, <3>2
      <4>2. Covers(t[i - 1], o)
        BY <2>6, <4>1
      <4>. QED  BY <1>1, <2>4, <4>1, <4>2 DEF Comes
    <3>. QED  BY <3>1, <3>2
  <2>. QED  BY <1>1, <2>2, <2>5, <2>6 DEF Comes
<1>. QED  BY <1>3, <1>4, <1>5, <1>6, <1>12, <1>13, <1>14

\* A database is left out.
LEMMA SkipStep == ListingInv /\ skipsDatabase => ListingInv'
<1> SUFFICES ASSUME ListingInv, skipsDatabase PROVE ListingInv'
  OBVIOUS
<1> USE DEF ListingInv
<1> DEFINE h == Head(todo)
<1> PICK t : t = Tail(todo)
  OBVIOUS
<1> PICK L : L = Listed
  OBVIOUS
<1>1. /\ answer = None /\ rows = {} /\ todo # <<>> /\ source = "sqlite" /\ h.text = "sqlite_master"
      /\ skipped' = skipped \union {h.arg} /\ todo' = t
      /\ UNCHANGED <<source, kind, asked, objects, stage, rows, tmp, listed, list, answer, through, seen>>
  BY DEF skipsDatabase, Listing, request, history
<1>2. IsSequence(todo)
  BY DEF ToExecute
<1>3. PerDatabase /\ ~Refused /\ seen \subseteq seen' /\ skipped \subseteq skipped'
  <2>1. 1 \in DOMAIN todo /\ h = todo[1]
    BY <1>1, <1>2, FirstAndRest
  <2>. QED  BY <1>1, <2>1 DEF ToExecute, Refused, Copied
<1>4. /\ ToExecute'
      /\ DOMAIN todo = 1 .. Len(todo) /\ Len(todo) \in Nat \ {0} /\ h = todo[1]
      /\ DOMAIN t = 1 .. Len(todo) - 1
      /\ \A i \in DOMAIN t : i + 1 \in DOMAIN todo /\ t[i] = todo[i + 1]
  BY <1>1, <1>3, OneLess
<1> HIDE DEF h
<1>5. Asked'
  <2>1. answer' # Ok
    BY <1>1 DEF None, Ok
  <2>. QED  BY <1>1, <2>1 DEF Asked, Preliminary, Arguments
<1>6. Histories' /\ RecordSetsMade' /\ Listed' = L /\ Listed = L
  BY <1>1 DEF Histories, RecordSetsMade, Shaped, IsSequence, Listed
<1>7. RowsOnce'
  <2>1. \A s, row : MayAnswer(s, row)' => MayAnswer(s, row)
    BY <1>1, <1>3, Preserved
  <2>2. \A i \in DOMAIN todo : \A j \in DOMAIN L : ~MayAnswer(todo[i], L[j])
    BY <1>6 DEF RowsOnce
  <2>3. \A i \in DOMAIN t : \A j \in DOMAIN L : ~(MayAnswer(t[i], L[j])')
    BY <1>4, <2>1, <2>2
  <2>4. \A row : RowMayRepeat(row) => RowMayRepeat(row)'
    BY <1>1, <1>3, Preserved
  <2>5. OfObjects' <=> OfObjects
    BY <1>1, <1>3, Preserved
  <2>6. OfObjects => \A i, j \in DOMAIN L : L[i] = L[j] => i = j \/ RowMayRepeat(L[i])
    BY <1>6 DEF RowsOnce
  <2>. QED  BY <1>1, <1>6, <2>3, <2>4, <2>5, <2>6 DEF RowsOnce
<1>8. RowsTell'
  BY <1>1, <1>3, <1>6, Preserved DEF RowsTell
<1>9. NothingLost'
  <2> SUFFICES ASSUME NEW o \in through', AskedFor(o)', Reachable(o)'
               PROVE  Comes(o)'
    BY DEF NothingLost
  <2>1. AskedFor(o) /\ Reachable(o) /\ o \in objects /\ o \in through
    BY <1>1, <1>3, Preserved DEF Histories
  <2>2. Comes(o)
    BY <1>1, <2>1 DEF NothingLost
  <2>3. \A row, p : Tells(row, p)' <=> Tells(row, p)
    BY <1>1, <1>3, Preserved
  <2>4. \A s, p : Covers(s, p)' <=> Covers(s, p)
    BY <1>1, <1>3, Preserved
  <2>5. CASE \E i \in DOMAIN L : Tells(L[i], o)
    BY <1>6, <2>3, <2>5 DEF Comes
  <2>6. ASSUME NEW i \in DOMAIN todo, i # 1, Covers(todo[i], o) PROVE Comes(o)'
    <3>1. i - 1 \in DOMAIN t /\ t[i - 1] = todo[(i - 1) + 1] /\ (i - 1) + 1 = i
      BY <1>4, <2>6
    <3>2. Covers(t[i - 1], o)
      BY <2>6, <3>1
    <3>. QED  BY <1>1, <2>4, <3>1, <3>2 DEF Comes
  <2>7. CASE Covers(todo[1], o)
    <3>1. h.arg = o.space
      BY <1>1, <1>3, <1>4, <2>7 DEF Covers
    <3>2. o.space = "temp" /\ kind # "ViewList"
      BY <1>1, <3>1 DEF Reachable
    <3>3. stage # "ViewList"
      BY <3>2 DEF Asked, Preliminary
    <3>4. DatabasesInTurn /\ 1 \in DOMAIN todo /\ Len(todo) \in DOMAIN todo
      BY <1>3, <1>4 DEF ToExecute
    <3>5. todo[Len(todo)].text = "sqlite_temp_master"
      BY <1>1, <1>4, <3>3, <3>4 DEF DatabasesInTurn
    <3>6. Len(todo) # 1
      BY <1>1, <1>4, <3>5
    <3>7. Covers(todo[Len(todo)], o)
      BY <1>3, <3>2, <3>5 DEF Covers, PerTable, PerDatabase
    <3>. QED  BY <2>6, <3>4, <3>6, <3>7
  <2>. QED  BY <1>1, <1>6, <2>2, <2>5, <2>6, <2>7 DEF Comes
<1>. QED  BY <1>4, <1>5, <1>6, <1>7, <1>8, <1>9

\* A driver without schemas answers.
LEMMA NoSchemasStep == ListingInv /\ hasNoSchemas => ListingInv'
<1> SUFFICES ASSUME ListingInv, hasNoSchemas PROVE ListingInv'
  OBVIOUS
<1> USE DEF ListingInv
<1>1. /\ answer = None /\ source = "odbc" /\ stage = "schemas"
      /\ skipped' = {o.space : o \in Universe[source]} /\ todo' = <<>>
      /\ UNCHANGED <<source, kind, asked, objects, stage, tmp, listed, list, answer, through, seen>>
  BY DEF hasNoSchemas, Listing, request, history
<1>2. Asked'
  <2>1. answer' # Ok
    BY <1>1 DEF None, Ok
  <2>. QED  BY <1>1, <2>1 DEF Asked, Preliminary, Arguments
<1>3. Histories' /\ RecordSetsMade'
  BY <1>1 DEF Histories, RecordSetsMade, Shaped, IsSequence
<1>4. ToExecute'
  <2>1. IsSequence(<<>>) /\ DOMAIN <<>> = {} /\ Len(<<>>) = 0
    BY NothingIsSequence
  <2>2. IsSequence(todo)'
    BY <1>1, <2>1 DEF IsSequence
  <2>3. ~PerDatabase' /\ ~PerTable' /\ ~Refused'
    BY <1>1 DEF PerDatabase, PerTable, Refused, Copied, OdbcLists
  <2>. QED  BY <1>1, <2>1, <2>2, <2>3 DEF ToExecute
<1>5. ~OfObjects'
  BY <1>1 DEF OfObjects
<1>6. RowsOnce' /\ RowsTell'
  BY <1>1, <1>5, NothingIsSequence DEF RowsOnce, RowsTell
<1>7. NothingLost'
  <2>1. ASSUME NEW o \in through', Reachable(o)' PROVE FALSE
    <3>1. o \in Universe[source]
      BY <1>1 DEF Histories
    <3>. QED  BY <1>1, <2>1, <3>1 DEF Reachable
  <2>. QED  BY <2>1 DEF NothingLost
<1>. QED  BY <1>2, <1>3, <1>4, <1>6, <1>7

\* SDI loses rows.
LEMMA LosesStep == ListingInv /\ losesRows => ListingInv'
<1> SUFFICES ASSUME ListingInv, losesRows PROVE ListingInv'
  OBVIOUS
<1> USE DEF ListingInv
<1>1. /\ answer = None /\ source = "sdi" /\ rows' = {}
      /\ skipped' = {o.space : o \in Universe[source]}
      /\ UNCHANGED <<source, kind, asked, objects, stage, todo, tmp, listed, list, answer, through, seen>>
  BY DEF losesRows, Listing, request, history
<1>2. Asked'
  <2>1. answer' # Ok
    BY <1>1 DEF None, Ok
  <2>. QED  BY <1>1, <2>1 DEF Asked, Preliminary, Arguments
<1>3. Histories' /\ RecordSetsMade' /\ Listed' = Listed /\ seen \subseteq seen'
  BY <1>1 DEF Histories, RecordSetsMade, Shaped, IsSequence, Listed
<1>4. ToExecute'
  <2>1. PerDatabase' => DatabasesInTurn'
    BY <1>1 DEF PerDatabase
  <2>2. PerTable' => TablesInTurn'
    BY <1>1, <1>3, Preserved DEF ToExecute, TablesInTurn
  <2>. QED  BY <1>1, <1>3, <2>1, <2>2, Preserved DEF ToExecute, IsSequence
<1>5. RowsOnce'
  BY <1>1, <1>3, Preserved DEF RowsOnce
<1>6. RowsTell'
  BY <1>1, <1>3, Preserved DEF RowsTell
<1>7. NothingLost'
  <2>1. ASSUME NEW o \in through', Reachable(o)' PROVE FALSE
    <3>1. o \in Universe[source]
      BY <1>1 DEF Histories
    <3>. QED  BY <1>1, <2>1, <3>1 DEF Reachable
  <2>. QED  BY <2>1 DEF NothingLost
<1>. QED  BY <1>2, <1>3, <1>4, <1>5, <1>6, <1>7

\* A row is taken from the server's and listed, or kept back.
LEMMA RowTaken ==
  ASSUME ListingInv, NEW row \in rows, rows' = rows \ {row},
         UNCHANGED <<source, kind, asked, objects, stage, todo, skipped, through, seen>>, answer = None,
         Asked', RecordSetsMade', IsSequence(Listed),
         \/ /\ Listed' = Append(Listed, row)
            /\ OfObjects /\ stage = kind => \A o : Tells(row, o) => asked.filter \in {Null, o.name}
         \/ /\ Listed' = Listed
            /\ answer' \in {None, Ok} => \A o : Tells(row, o) => ~AskedFor(o)
  PROVE  ListingInv'
<1> USE DEF ListingInv
<1> PICK L : L = Listed
  OBVIOUS
<1> PICK M : M = Listed'
  OBVIOUS
<1>1. Histories' /\ seen \subseteq seen' /\ rows' \subseteq rows
  BY DEF Histories
<1>2. ToExecute'
  <2>1. ~Refused
    BY DEF ToExecute
  <2>2. PerDatabase' => DatabasesInTurn'
    BY <1>1, Preserved DEF ToExecute, DatabasesInTurn
  <2>3. PerTable' => TablesInTurn'
    BY <1>1, Preserved DEF ToExecute, TablesInTurn
  <2>. QED  BY <1>1, <2>1, <2>2, <2>3, Preserved DEF ToExecute, IsSequence
<1>3. CASE M = L /\ (answer' \in {None, Ok} => \A o : Tells(row, o) => ~AskedFor(o))
  <2>1. Listed' = Listed
    BY <1>3
  <2>2. RowsOnce'
    BY <1>1, <2>1, Preserved DEF RowsOnce
  <2>3. RowsTell'
    BY <1>1, <2>1, Preserved DEF RowsTell
  <2>4. NothingLost'
    <3> SUFFICES ASSUME answer' \in {None, Ok}, NEW o \in through', AskedFor(o)', Reachable(o)'
                 PROVE  Comes(o)'
      BY DEF NothingLost
    <3>1. AskedFor(o) /\ Comes(o)
      BY <1>1, Preserved DEF NothingLost
    <3>2. ~Tells(row, o)
      BY <1>3, <3>1
    <3>3. \A r \in rows : Tells(r, o) => r \in rows'
      BY <3>2
    <3>. QED  BY <1>1, <2>1, <3>1, <3>3, Preserved DEF Comes
  <2>. QED  BY <1>1, <1>2, <2>2, <2>3, <2>4
<1>4. CASE /\ M = Append(L, row)
           /\ OfObjects /\ stage = kind => \A o : Tells(row, o) => asked.filter \in {Null, o.name}
  <2> DEFINE n == Len(L)
  <2>1. /\ n \in Nat /\ DOMAIN L = 1 .. n /\ DOMAIN M = 1 .. n + 1 /\ M[n + 1] = row
        /\ \A i \in DOMAIN L : M[i] = L[i]
    BY <1>4, Lengthened
  <2>2. DOMAIN M = DOMAIN L \union {n + 1} /\ n + 1 \in DOMAIN M /\ n + 1 \notin DOMAIN L
    BY <2>1
  <2> HIDE DEF n
  <2>3. \A s, r : MayAnswer(s, r)' => MayAnswer(s, r)
    BY <1>1, Preserved
  <2>4. \A i \in DOMAIN todo : /\ ~MayAnswer(todo[i], row)
                               /\ \A r \in rows : ~MayAnswer(todo[i], r)
                               /\ \A j \in DOMAIN L : ~MayAnswer(todo[i], L[j])
    BY DEF RowsOnce
  <2>5. \A i \in DOMAIN todo : \A j \in DOMAIN M : ~MayAnswer(todo[i], M[j])
    BY <2>1, <2>2, <2>4
  <2>6. OfObjects => \A i \in DOMAIN L : /\ L[i] \in rows => RowMayRepeat(L[i])
                                         /\ \A j \in DOMAIN L : L[i] = L[j] => i = j \/ RowMayRepeat(L[i])
    BY DEF RowsOnce
  <2>7. OfObjects => \A i \in DOMAIN M : /\ M[i] \in rows' => RowMayRepeat(M[i])
                                         /\ \A j \in DOMAIN M : M[i] = M[j] => i = j \/ RowMayRepeat(M[i])
    <3> SUFFICES ASSUME OfObjects, NEW i \in DOMAIN M
                 PROVE  /\ M[i] \in rows' => RowMayRepeat(M[i])
                        /\ \A j \in DOMAIN M : M[i] = M[j] => i = j \/ RowMayRepeat(M[i])
      OBVIOUS
    <3>1. CASE i \in DOMAIN L
      BY <2>1, <2>2, <2>6, <3>1
    <3>2. CASE i = n + 1
      <4>1. M[i] \notin rows'
        BY <2>1, <3>2
      <4>2. ASSUME NEW j \in DOMAIN L, M[i] = M[j] PROVE RowMayRepeat(M[i])
        BY <2>1, <2>6, <3>2, <4>2
      <4>. QED  BY <2>2, <3>2, <4>1, <4>2
    <3>. QED  BY <2>2, <3>1, <3>2
  <2>8. RowsOnce'
    <3>1. \A i \in DOMAIN todo' : \A r \in rows' : ~(MayAnswer(todo[i], r)')
      BY <1>1, <2>3, <2>4
    <3>2. \A i \in DOMAIN todo' : \A j \in DOMAIN M : ~(MayAnswer(todo[i], M[j])')
      BY <2>3, <2>5
    <3>. QED  BY <1>1, <2>7, <3>1, <3>2, Preserved DEF RowsOnce
  <2>9. RowsTell'
    <3>1. OfObjects =>
            \A i \in DOMAIN M : /\ \E o \in Known : Tells(M[i], o) /\ (stage = kind => asked.filter \in {Null, o.name})
                                /\ Preliminary => TableListed(M[i])
      <4>1. ASSUME OfObjects, NEW i \in DOMAIN L
            PROVE  /\ \E o \in Known : Tells(L[i], o) /\ (stage = kind => asked.filter \in {Null, o.name})
                   /\ Preliminary => TableListed(L[i])
        BY <4>1 DEF RowsTell
      <4>2. ASSUME OfObjects
            PROVE  /\ \E o \in Known : Tells(row, o) /\ (stage = kind => asked.filter \in {Null, o.name})
                   /\ Preliminary => TableListed(row)
        BY <1>4, <4>2 DEF RowsTell
      <4>. QED  BY <2>1, <2>2, <4>1, <4>2
    <3>2. OfObjects => \A r \in rows' : (\E o \in Known : Tells(r, o)) /\ (Preliminary => TableListed(r))
      BY <1>1 DEF RowsTell
    <3>. QED  BY <1>1, <3>1, <3>2, Preserved DEF RowsTell
  <2>10. NothingLost'
    <3> SUFFICES ASSUME NEW o \in through', AskedFor(o)', Reachable(o)'
                 PROVE  Comes(o)'
      BY DEF NothingLost
    <3>1. Comes(o)
      BY <1>1, Preserved DEF NothingLost
    <3>2. \A r, p : Tells(r, p)' <=> Tells(r, p)
      BY <1>1, Preserved
    <3>3. CASE \E i \in DOMAIN L : Tells(L[i], o)
      <4>1. PICK i \in DOMAIN L : Tells(L[i], o)
        BY <3>3
      <4>2. i \in DOMAIN M /\ Tells(M[i], o)
        BY <2>1, <2>2, <4>1
      <4>. QED  BY <3>2, <4>2 DEF Comes
    <3>4. CASE Tells(row, o)
      <4>1. n + 1 \in DOMAIN M /\ Tells(M[n + 1], o)
        BY <2>1, <2>2, <3>4
      <4>. QED  BY <3>2, <4>1 DEF Comes
    <3>5. CASE \E r \in rows' : Tells(r, o)
      BY <3>2, <3>5 DEF Comes
    <3>6. CASE \E i \in DOMAIN todo : Covers(todo[i], o)
      BY <1>1, <3>6, Preserved DEF Comes
    <3>. QED  BY <3>1, <3>3, <3>4, <3>5, <3>6 DEF Comes
  <2>. QED  BY <1>1, <1>2, <2>8, <2>9, <2>10
<1>. QED  BY <1>3, <1>4

\* A row is listed.
LEMMA ListStep == ListingInv /\ listsRow => ListingInv'
<1> SUFFICES ASSUME ListingInv, listsRow PROVE ListingInv'
  OBVIOUS
<1> USE DEF ListingInv
<1>1. /\ answer = None
      /\ UNCHANGED <<source, kind, asked, objects, stage, todo, skipped, through, seen>>
  BY DEF listsRow, Listing, request, history
<1>2. PICK row \in rows :
        /\ rows' = rows \ {row}
        /\ IF stage \in DbcLists
           THEN list' = Append(list, row) /\ UNCHANGED <<tmp, listed, answer>>
           ELSE /\ \E shown \in Show(tmp, row) :
                     /\ tmp' = shown.rs
                     /\ \E f \in IF shown.ret = Ok THEN Filter(shown.rs) ELSE {shown.ret} :
                          CASE f = Yes -> \E o \in RsInsert(listed, shown.rs.m_records[1]) :
                                            listed' = o.rs /\ answer' = IF o.ret = Ok THEN None ELSE o.ret
                            [] f = No  -> UNCHANGED <<listed, answer>>
                            [] OTHER   -> listed' = listed /\ answer' = f
                /\ UNCHANGED list
  BY DEF listsRow
<1>3. /\ Shaped(tmp) /\ DOMAIN listed = SetFields
      /\ IsSequence(listed.m_records) /\ IsSequence(list)
  BY DEF RecordSetsMade
<1>4. ASSUME answer' \in {None, Throw} PROVE Asked'
  <2>1. answer' # Ok
    BY <1>4 DEF None, Ok, Throw
  <2>. QED  BY <1>1, <1>4, <2>1 DEF Asked, Preliminary, Arguments
<1>5. ASSUME NEW set, Shaped(set), tmp' = set PROVE Shaped(tmp)'
  BY <1>1, <1>5 DEF Shaped
<1>6. CASE stage \in DbcLists
  <2>1. list' = Append(list, row) /\ UNCHANGED <<tmp, listed, answer>>
    BY <1>2, <1>6
  <2>2. IsSequence(list)'
    <3>1. IsSequence(Append(list, row))
      BY <1>3, Lengthened
    <3>. QED  BY <2>1, <3>1 DEF IsSequence
  <2>3. IsSequence(listed.m_records)'
    BY <1>3, <2>1 DEF IsSequence
  <2>4. RecordSetsMade'
    BY <1>3, <1>5, <2>1, <2>2, <2>3 DEF RecordSetsMade
  <2>5. Listed = list /\ Listed' = Append(list, row)
    BY <1>1, <1>6, <2>1 DEF Listed
  <2>6. stage = kind => asked.filter = Null
    BY <1>6 DEF Asked, Arguments
  <2>7. Asked'
    BY <1>1, <1>4, <2>1
  <2>. QED  BY <1>1, <1>2, <1>3, <2>4, <2>5, <2>6, <2>7, RowTaken
<1>7. CASE stage \notin DbcLists
  <2>1. stage \in {"catalogs", "schemas", "tables", "columns"}
    BY <1>7 DEF Asked, Preliminary
  <2>2. PICK shown \in Show(tmp, row) :
          /\ tmp' = shown.rs
          /\ \E f \in IF shown.ret = Ok THEN Filter(shown.rs) ELSE {shown.ret} :
               CASE f = Yes -> \E o \in RsInsert(listed, shown.rs.m_records[1]) :
                                 listed' = o.rs /\ answer' = IF o.ret = Ok THEN None ELSE o.ret
                 [] f = No  -> UNCHANGED <<listed, answer>>
                 [] OTHER   -> listed' = listed /\ answer' = f
    BY <1>2, <1>7
  <2>3. /\ shown.ret \in {Ok, Throw} /\ Shaped(shown.rs)
        /\ shown.ret = Ok => shown.rs.m_records = <<row>> /\ shown.rs.m_cursor = 0
    BY <1>3, <2>1, ShownRow
  <2>4. PICK f \in IF shown.ret = Ok THEN Filter(shown.rs) ELSE {shown.ret} :
          CASE f = Yes -> \E o \in RsInsert(listed, shown.rs.m_records[1]) :
                            listed' = o.rs /\ answer' = IF o.ret = Ok THEN None ELSE o.ret
            [] f = No  -> UNCHANGED <<listed, answer>>
            [] OTHER   -> listed' = listed /\ answer' = f
    BY <2>2
  <2>5. list' = list /\ Listed = listed.m_records /\ Listed' = listed'.m_records
    BY <1>1, <1>2, <1>7 DEF Listed
  <2>6. Shaped(tmp)' /\ IsSequence(list)'
    BY <1>3, <1>5, <2>2, <2>3, <2>5 DEF IsSequence
  <2>7. ASSUME shown.ret = Ok
        PROVE  /\ f \in {Yes, No, Throw}
               /\ f = Yes /\ stage \in {"tables", "columns"} /\ stage = kind =>
                    asked.filter = Null \/ asked.filter = row[3]
               /\ f = No => stage \in {"tables", "columns"} /\ stage = kind /\ asked.filter # Null
                            /\ row[3] # asked.filter
    BY <2>1, <2>3, <2>4, <2>7, FilteredRow
  <2>8. f \in {Yes, No, Throw} /\ (f \in {Yes, No} => shown.ret = Ok)
    BY <2>3, <2>4, <2>7 DEF Yes, No, Ok, Throw
  <2>9. \A o : stage \in {"tables", "columns"} /\ Tells(row, o) => row[3] = o.name
    BY DEF Tells, DbcLists
  <2>10. ASSUME listed' = listed, answer' \in {None, Throw},
                answer' \in {None, Ok} => \A o : Tells(row, o) => ~AskedFor(o)
         PROVE  ListingInv'
    <3>1. RecordSetsMade'
      BY <1>3, <2>6, <2>10 DEF RecordSetsMade, IsSequence
    <3>2. Asked' /\ Listed' = Listed
      BY <1>4, <2>5, <2>10
    <3>. QED  BY <1>1, <1>2, <1>3, <2>5, <2>10, <3>1, <3>2, RowTaken
  <2>11. CASE f = Throw
    <3>1. f # Yes /\ f # No /\ Throw # None /\ Throw # Ok
      BY <2>11 DEF Yes, No, Throw, None, Ok
    <3>2. listed' = listed /\ answer' = Throw
      BY <2>4, <2>11, <3>1
    <3>. QED  BY <2>10, <3>1, <3>2
  <2>12. CASE f = No
    <3>1. f # Yes
      BY <2>12 DEF Yes, No
    <3>2. listed' = listed /\ answer' = answer
      BY <2>4, <2>12, <3>1
    <3>3. \A o : Tells(row, o) => ~AskedFor(o)
      BY <2>7, <2>8, <2>9, <2>12 DEF AskedFor
    <3>. QED  BY <1>1, <2>10, <3>2, <3>3
  <2>13. CASE f = Yes
    <3> DEFINE inserts == \E o \in RsInsert(listed, shown.rs.m_records[1]) :
                            listed' = o.rs /\ answer' = IF o.ret = Ok THEN None ELSE o.ret
    <3>11. (CASE f = Yes -> inserts [] f = No -> UNCHANGED <<listed, answer>>
            [] OTHER -> listed' = listed /\ answer' = f)
      BY <2>4
    <3>12. f # No
      BY <2>13 DEF Yes, No
    <3>13. inserts
      <4> HIDE DEF inserts
      <4>. QED  BY <2>13, <3>11, <3>12
    <3>1. PICK o \in RsInsert(listed, shown.rs.m_records[1]) :
             listed' = o.rs /\ answer' = IF o.ret = Ok THEN None ELSE o.ret
      BY <3>13
    <3>2. shown.rs.m_records[1] = row
      BY <2>3, <2>8, <2>13
    <3>3. \/ o.ret = Throw /\ o.rs = listed
          \/ o.ret = Ok /\ DOMAIN o.rs = SetFields /\ o.rs.m_records = listed.m_records \o <<row>>
      BY <1>3, <3>1, <3>2, InsertedRow
    <3>4. CASE o.ret = Throw /\ o.rs = listed
      <4>1. Throw # Ok /\ Throw # None
        BY DEF Throw, Ok, None
      <4>. QED  BY <2>10, <3>1, <3>4, <4>1
    <3>5. CASE o.ret = Ok /\ DOMAIN o.rs = SetFields /\ o.rs.m_records = listed.m_records \o <<row>>
      <4>1. listed.m_records \o <<row>> = Append(listed.m_records, row)
        BY <1>3, AppendIsConcat DEF IsSequence
      <4>2. IsSequence(Append(listed.m_records, row))
        BY <1>3, Lengthened
      <4>3. answer' = None /\ DOMAIN listed' = SetFields /\ listed'.m_records = Append(listed.m_records, row)
        BY <3>1, <3>5, <4>1
      <4>4. RecordSetsMade'
        BY <2>6, <4>2, <4>3 DEF RecordSetsMade, IsSequence
      <4>5. Asked' /\ Listed' = Append(Listed, row)
        BY <1>4, <2>5, <4>3
      <4>6. OfObjects /\ stage = kind => \A p : Tells(row, p) => asked.filter \in {Null, p.name}
        BY <2>1, <2>7, <2>8, <2>9, <2>13 DEF OfObjects
      <4>. QED  BY <1>1, <1>2, <1>3, <2>5, <4>4, <4>5, <4>6, RowTaken
    <3>. QED  BY <3>3, <3>4, <3>5
  <2>. QED  BY <2>8, <2>11, <2>12, <2>13
<1>. QED  BY <1>6, <1>7

\* A function on the first numbers is a sequence.
LEMMA CountedIsSequence == ASSUME NEW n \in Nat, NEW S, NEW f \in [1 .. n -> S] PROVE f \in Seq(S)
  OBVIOUS

\* The tables are listed: their columns are next.
LEMMA TurnStep == ListingInv /\ turnsToColumns => ListingInv'
<1> SUFFICES ASSUME ListingInv, turnsToColumns PROVE ListingInv'
  OBVIOUS
<1> USE DEF ListingInv
<1> PICK L : L = listed.m_records
  OBVIOUS
<1> DEFINE asksFor(row) == /\ asked.table \in {Null, row[3]}
                           /\ asked.schema = Null \/ source = "sqlite" \/ row[2] \in {Null, asked.schema}
           text == IF source = "sqlite" THEN "PRAGMA table_info" ELSE "SDIOpenColumns"
<1>16. PICK t : t = [i \in DOMAIN L |-> Statement(IF asksFor(L[i]) THEN text ELSE "", L[i][3])]
  OBVIOUS
<1>1. /\ answer = None /\ rows = {} /\ todo = <<>> /\ stage # kind /\ stage' = kind
      /\ todo' = t /\ tmp' = Described(kind) /\ listed' = Opened(Described(kind))
      /\ UNCHANGED <<source, kind, asked, objects, rows, list, answer, through, seen, skipped>>
  BY <1>16 DEF turnsToColumns, Listing, request, history, ColumnStatements
<1>2. /\ Preliminary /\ kind = "columns" /\ source \in {"sqlite", "sdi"} /\ stage = "tables"
      /\ stage' = "columns"
  BY <1>1 DEF Asked, Preliminary
<1>3. /\ PerTable' /\ ~PerDatabase' /\ ~Refused' /\ ~Single' /\ ~Preliminary'
      /\ OfObjects /\ Listed = L /\ kind' = "columns"
  BY <1>1, <1>2
     DEF PerTable, PerDatabase, Refused, Single, Preliminary, Copied, SdiLists, OfObjects, Listed, DbcLists
<1>4. IsSequence(t) /\ DOMAIN t = DOMAIN L
  <2>1. IsSequence(L)
    BY DEF RecordSetsMade
  <2>2. Len(L) \in Nat /\ DOMAIN L = 1 .. Len(L)
    BY <2>1, AnySequence DEF IsSequence
  <2> DEFINE S == {t[i] : i \in DOMAIN L}
             f == [i \in DOMAIN L |-> Statement(IF asksFor(L[i]) THEN text ELSE "", L[i][3])]
  <2>3. t = f /\ f \in [DOMAIN L -> S]
    BY <1>16
  <2> HIDE DEF f, S
  <2>4. t \in Seq(S)
    <3>1. t \in [1 .. Len(L) -> S]
      BY <2>2, <2>3
    <3>. QED  BY <2>2, <3>1, CountedIsSequence
  <2>. QED  BY <2>2, <2>3, <2>4, AnySequence
<1>5. \A i \in DOMAIN t : t[i].arg = L[i][3] /\ (asksFor(L[i]) => t[i].text # "")
                          /\ t[i].text \in {"PRAGMA table_info", "SDIOpenColumns", ""}
  BY <1>4, <1>16 DEF Statement
<1> HIDE DEF text, asksFor
<1>6. Asked'
  <2>1. answer' # Ok
    BY <1>1 DEF None, Ok
  <2>2. asked' \in Arguments(source, kind)'
    BY <1>1 DEF Asked, Arguments
  <2>. QED  BY <1>1, <2>1, <2>2 DEF Asked
<1>7. Histories'
  BY <1>1 DEF Histories
<1>8. RecordSetsMade' /\ Listed' = <<>>
  <2> DEFINE made == Described(kind)
             opened == Opened(made)
  <2>1. /\ DOMAIN made = SetFields /\ made.m_records = <<>>
        /\ made.m_count = Len(Header(kind)) /\ made.m_column_descriptors = Header(kind)
    BY DescribedSet
  <2>2. DOMAIN opened = SetFields /\ opened.m_records = <<>>
    BY <2>1, OpenedSet
  <2>3. tmp' = made /\ listed' = opened /\ stage' = kind
    BY <1>1
  <2> HIDE DEF made, opened
  <2>4. Shaped(tmp)'
    BY <2>1, <2>3 DEF Shaped
  <2>5. IsSequence(listed.m_records)' /\ IsSequence(list)'
    BY <1>1, <2>2, <2>3, NothingIsSequence DEF IsSequence, RecordSetsMade
  <2>6. Listed' = <<>>
    BY <1>1, <1>2, <2>2, <2>3 DEF Listed, DbcLists
  <2>. QED  BY <2>2, <2>3, <2>4, <2>5, <2>6 DEF RecordSetsMade
<1>9. /\ Known' = Known /\ \A o : MayRepeat(o)' <=> MayRepeat(o)
      /\ \A name : NameRepeats(name)' <=> NameRepeats(name)
  BY <1>1 DEF Known, MayRepeat, Namesakes, NameRepeats
<1>10. \A o : /\ AskedFor(o)' <=> AskedFor(o)
              /\ Reachable(o)' <=> Reachable(o)
  BY <1>1 DEF AskedFor, Reachable, Namesakes
<1>11. \A row, o : Tells(row, o) => /\ row[3] = o.name
                                    /\ source = "sdi" => row[2] = o.space
                                    /\ source = "sqlite" => row[1] = o.space \/ o \in SystemObjects
  BY <1>2 DEF Tells, DbcLists
<1>12. ASSUME NEW i \in DOMAIN L, NEW j \in DOMAIN L, L[i][3] = L[j][3], i # j PROVE NameRepeats(L[i][3])
  <2>1. PICK o \in Known : Tells(L[i], o)
    BY <1>3 DEF RowsTell
  <2>2. PICK p \in Known : Tells(L[j], p)
    BY <1>3 DEF RowsTell
  <2>3. o.name = L[i][3] /\ p.name = L[i][3]
    BY <1>11, <1>12, <2>1, <2>2
  <2>4. CASE o \in SystemObjects \/ p \in SystemObjects
    BY <1>2, <2>1, <2>2, <2>3, <2>4 DEF NameRepeats, MayRepeat
  <2>5. CASE o \notin SystemObjects /\ p \notin SystemObjects /\ o # p
    <3>1. o \in seen /\ p \in Namesakes(o)
      BY <2>1, <2>2, <2>3, <2>5 DEF Known, Namesakes
    <3>. QED  BY <1>2, <2>1, <2>3, <3>1 DEF NameRepeats, MayRepeat
  <2>6. CASE o \notin SystemObjects /\ o = p
    <3>1. TableListed(L[i]) /\ TableListed(L[j])
      BY <1>2, <1>3 DEF RowsTell
    <3>2. L[i][1] = L[j][1] /\ L[i][2] = L[j][2]
      <4>1. CASE source = "sqlite"
        <5>1. L[i][2] = Null /\ L[j][2] = Null
          BY <3>1, <4>1 DEF TableListed
        <5>2. L[i][1] = o.space /\ L[j][1] = p.space
          BY <1>11, <2>1, <2>2, <2>6, <4>1
        <5>. QED  BY <2>6, <5>1, <5>2
      <4>2. CASE source = "sdi"
        <5>1. L[i][1] = Null /\ L[j][1] = Null
          BY <3>1, <4>2 DEF TableListed
        <5>2. L[i][2] = o.space /\ L[j][2] = p.space
          BY <1>11, <2>1, <2>2, <2>6, <4>2
        <5>. QED  BY <2>6, <5>1, <5>2
      <4>. QED  BY <1>2, <4>1, <4>2
    <3>3. L[i] = L[j]
      BY <1>12, <3>1, <3>2 DEF TableListed
    <3>4. RowMayRepeat(L[i])
      BY <1>3, <1>12, <3>3 DEF RowsOnce
    <3>. QED  BY <1>11, <3>4 DEF RowMayRepeat, NameRepeats
  <2>. QED  BY <2>4, <2>5, <2>6
<1>13. ToExecute'
  <2>1. IsSequence(todo)'
    BY <1>1, <1>4 DEF IsSequence
  <2>2. ASSUME NEW i \in DOMAIN t, NEW j \in DOMAIN t, t[i].arg = t[j].arg, i # j
        PROVE  \E o \in Known' : o.name = t[i].arg /\ MayRepeat(o)'
    <3>1. i \in DOMAIN L /\ j \in DOMAIN L /\ t[i].arg = L[i][3] /\ L[i][3] = L[j][3]
      BY <1>4, <1>5, <2>2
    <3>2. NameRepeats(L[i][3])
      BY <1>12, <2>2, <3>1
    <3>3. PICK o \in Known : o.name = L[i][3] /\ MayRepeat(o)
      BY <3>2 DEF NameRepeats
    <3>. QED  BY <1>9, <3>1, <3>3
  <2>4. TablesInTurn'
    <3>1. todo' = t
      BY <1>1
    <3> DEFINE repeats == {o.name : o \in {p \in Known' : MayRepeat(p)'}}
    <3>2. \A i, j \in DOMAIN t : t[i].arg = t[j].arg => i = j \/ t[i].arg \in repeats
      BY <2>2
    <3>3. \A i, j \in DOMAIN todo' : todo'[i].arg = todo'[j].arg => i = j \/ todo'[i].arg \in repeats
      <4> HIDE DEF repeats
      <4>. QED  BY <3>1, <3>2
    <3>. QED  BY <3>3 DEF TablesInTurn, NameRepeats
  <2>3. \A i \in DOMAIN todo' : todo'[i].text # "sqlite_master"
    BY <1>1, <1>5
  <2>. QED  BY <1>3, <2>1, <2>4, <2>3 DEF ToExecute
<1>14. RowsOnce' /\ RowsTell'
  BY <1>1, <1>8, NothingIsSequence DEF RowsOnce, RowsTell
<1>15. NothingLost'
  <2> SUFFICES ASSUME NEW o \in through', AskedFor(o)', Reachable(o)'
               PROVE  Comes(o)'
    BY DEF NothingLost
  <2>1. AskedFor(o) /\ Reachable(o) /\ o \in through
    BY <1>1, <1>10
  <2>2. Comes(o)
    BY <1>1, <2>1 DEF NothingLost
  <2>3. PICK i \in DOMAIN L : Tells(L[i], o)
    BY <1>1, <1>3, <2>2, NothingIsSequence DEF Comes
  <2>4. L[i][3] = o.name /\ (source = "sdi" => L[i][2] = o.space)
    BY <1>11, <2>3
  <2>5. asksFor(L[i])
    BY <1>2, <2>1, <2>4 DEF asksFor, AskedFor
  <2>6. i \in DOMAIN t /\ t[i].arg = o.name /\ t[i].text # ""
    BY <1>4, <1>5, <2>4, <2>5
  <2>7. Covers(t[i], o)'
    BY <1>3, <2>6 DEF Covers
  <2>. QED  BY <1>1, <2>6, <2>7 DEF Comes
<1>. QED  BY <1>6, <1>7, <1>8, <1>13, <1>14, <1>15

\* Two sequences after one another.
Joined(s, t) ==
  /\ IsSequence(s \o t) /\ Len(s) \in Nat /\ Len(t) \in Nat
  /\ DOMAIN s = 1 .. Len(s) /\ DOMAIN t = 1 .. Len(t)
  /\ Len(s \o t) = Len(s) + Len(t) /\ DOMAIN (s \o t) = 1 .. Len(s) + Len(t)
  /\ \A i \in DOMAIN s : (s \o t)[i] = s[i]
  /\ \A i \in DOMAIN t : Len(s) + i \in DOMAIN (s \o t) /\ (s \o t)[Len(s) + i] = t[i]

\* Two sequences joined are one.
LEMMA OneAfterAnother == ASSUME NEW s, IsSequence(s), NEW t, IsSequence(t) PROVE Joined(s, t)
<1> DEFINE A == {s[i] : i \in DOMAIN s}
           B == {t[i] : i \in DOMAIN t}
           S == A \union B
           u == s \o t
<1>1. s \in Seq(A) /\ t \in Seq(B)
  BY DEF IsSequence
<1> HIDE DEF A, B
<1>2. s \in Seq(S) /\ t \in Seq(S)
  BY <1>1, SeqMonotonic
<1>3. Len(s) \in Nat /\ Len(t) \in Nat /\ DOMAIN s = 1 .. Len(s) /\ DOMAIN t = 1 .. Len(t)
  BY <1>1
<1> HIDE DEF S
<1>4. /\ u \in Seq(S) /\ Len(u) = Len(s) + Len(t)
      /\ \A i \in 1 .. Len(u) : u[i] = IF i <= Len(s) THEN s[i] ELSE t[i - Len(s)]
  BY <1>2, ConcatProperties
<1> HIDE DEF u
<1>5. IsSequence(u) /\ DOMAIN u = 1 .. Len(u)
  BY <1>4, AnySequence
<1>6. \A i \in DOMAIN s : u[i] = s[i]
  BY <1>3, <1>4
<1>7. ASSUME NEW i \in DOMAIN t PROVE Len(s) + i \in DOMAIN u /\ u[Len(s) + i] = t[i]
  <2> DEFINE k == Len(s) + i
  <2>1. k \in 1 .. Len(u) /\ ~(k <= Len(s)) /\ k - Len(s) = i
    BY <1>3, <1>4
  <2> HIDE DEF k
  <2>2. u[k] = t[i]
    BY <1>4, <2>1
  <2>. QED  BY <1>5, <2>1, <2>2 DEF k
<1>. QED  BY <1>3, <1>4, <1>5, <1>6, <1>7 DEF u, Joined

\* A sequence of one element.
LEMMA SingleSequence == \A e : IsSequence(<<e>>) /\ Len(<<e>>) = 1 /\ <<e>>[1] = e /\ DOMAIN <<e>> = {1}
<1> SUFFICES ASSUME NEW e PROVE IsSequence(<<e>>) /\ Len(<<e>>) = 1 /\ <<e>>[1] = e /\ DOMAIN <<e>> = {1}
  OBVIOUS
<1> DEFINE s == <<e>>
<1>1. s \in Seq({e}) /\ Len(s) = 1 /\ s[1] = e
  OBVIOUS
<1> HIDE DEF s
<1>2. IsSequence(s) /\ DOMAIN s = 1 .. Len(s)
  BY <1>1, AnySequence
<1>. QED  BY <1>1, <1>2 DEF s

\* The statement for each database.
LEMMA EachDatabase ==
  ASSUME Histories
  PROVE  /\ IsSequence(EveryDatabase) /\ DOMAIN EveryDatabase = DOMAIN Databases
         /\ \A i \in DOMAIN Databases : /\ EveryDatabase[i].text = "sqlite_master"
                                        /\ EveryDatabase[i].arg = Databases[i]
<1> DEFINE n == Len(Databases)
           E == EveryDatabase
           S == {E[i] : i \in DOMAIN Databases}
<1>1. n \in Nat /\ DOMAIN Databases = 1 .. n
  BY DatabaseNames
<1>2. E \in [DOMAIN Databases -> S]
  BY DEF EveryDatabase
<1>3. \A i \in DOMAIN Databases : E[i].text = "sqlite_master" /\ E[i].arg = Databases[i]
  BY DEF EveryDatabase, Statement
<1> HIDE DEF n, E, S
<1>4. E \in [1 .. n -> S]
  BY <1>1, <1>2
<1>5. E \in Seq(S)
  BY <1>1, <1>4, CountedIsSequence
<1>6. IsSequence(E)
  BY <1>5, AnySequence
<1>. QED  BY <1>2, <1>3, <1>6 DEF E

\* A list of m statements has the statements for n databases at the places M,
\* from the second one.
EachFromSecond(n, m, D, arg, M) ==
  /\ n \in Nat /\ m \in Nat /\ (m = n + 1 \/ m = n + 2) /\ M \subseteq 1 .. m
  /\ \A i, j \in 1 .. n : D[i] = D[j] => i = j
  /\ 1 \notin M /\ (m = n + 2 => m \notin M)
  /\ \A i \in 1 .. n : 1 + i \in M /\ arg[1 + i] = D[i]

\* Such a list asks each database once.
LEMMA DatabasePlaces ==
  ASSUME NEW n, NEW m, NEW D, NEW arg, NEW M, EachFromSecond(n, m, D, arg, M)
  PROVE  /\ 1 \in 1 .. m
         /\ \A i \in 1 .. m : i = 1 \/ (m = n + 2 /\ i = m) \/ i \in M
         /\ \A i, j \in M : arg[i] = arg[j] => i = j
         /\ \A i \in 1 .. n : \E j \in M : arg[j] = D[i]
<1> USE DEF EachFromSecond
<1>1. ASSUME NEW i \in 1 .. m, i # 1, ~(m = n + 2 /\ i = m)
      PROVE  i - 1 \in 1 .. n /\ i \in M /\ arg[i] = D[i - 1]
  <2>1. i - 1 \in 1 .. n /\ 1 + (i - 1) = i
    BY <1>1
  <2>. QED  BY <2>1
<1>2. ASSUME NEW i \in M, NEW j \in M, arg[i] = arg[j] PROVE i = j
  <2>1. i \in 1 .. m /\ j \in 1 .. m
    OBVIOUS
  <2>2. i - 1 \in 1 .. n /\ arg[i] = D[i - 1] /\ j - 1 \in 1 .. n /\ arg[j] = D[j - 1]
    BY <1>1, <2>1
  <2>3. i - 1 = j - 1
    BY <1>2, <2>2
  <2>. QED  BY <2>1, <2>3
<1>. QED  BY <1>1, <1>2

\* The statements that every listing begins with.
LEMMA FirstStatements ==
  ASSUME Asked, Histories, ~PerTable, todo = Statements
  PROVE  /\ IsSequence(todo) /\ 1 \in DOMAIN todo
         /\ PerDatabase => /\ DatabasesInTurn
                           /\ \A i \in DOMAIN Databases : \E j \in DOMAIN todo :
                                todo[j].text = "sqlite_master" /\ todo[j].arg = Databases[i]
         /\ Single => Len(todo) = 1 /\ todo[1].text # "sqlite_master"
<1> DEFINE begin == Once("PRAGMA database_list")
           end  == <<Statement("sqlite_temp_master", "temp")>>
           E == EveryDatabase
           n == Len(Databases)
<1>1. /\ IsSequence(begin) /\ Len(begin) = 1 /\ DOMAIN begin = {1} /\ begin[1].text = "PRAGMA database_list"
      /\ IsSequence(end) /\ Len(end) = 1 /\ DOMAIN end = {1}
      /\ end[1].text = "sqlite_temp_master" /\ end[1].arg = "temp"
  BY SingleSequence DEF Once, Statement
<1>2. /\ n \in Nat /\ DOMAIN Databases = 1 .. n
      /\ \A i, j \in 1 .. n : Databases[i] = Databases[j] => i = j
  BY DatabaseNames
<1>3. /\ IsSequence(E) /\ DOMAIN E = 1 .. n
      /\ \A i \in 1 .. n : E[i].text = "sqlite_master" /\ E[i].arg = Databases[i]
  BY <1>2, EachDatabase
<1>4. IsSequence(<<>>) /\ begin \o <<>> = begin
  <2>1. begin \in Seq({begin[i] : i \in DOMAIN begin})
    BY <1>1 DEF IsSequence
  <2> HIDE DEF begin
  <2>. QED  BY <2>1, NothingIsSequence
<1>5. Len(E) = n
  <2>1. Len(E) \in Nat /\ DOMAIN E = 1 .. Len(E)
    BY <1>3, AnySequence DEF IsSequence
  <2> HIDE DEF E, n
  <2>. QED  BY <1>2, <1>3, <2>1
<1>14. /\ IsSequence(begin) /\ Len(begin) = 1 /\ DOMAIN begin = {1}
       /\ IsSequence(end) /\ Len(end) = 1 /\ DOMAIN end = {1}
       /\ IsSequence(E) /\ DOMAIN E = 1 .. n /\ Len(E) = n
  BY <1>1, <1>3, <1>5
<1>15. IsSequence(begin) /\ IsSequence(end) /\ IsSequence(E) /\ n \in Nat
  BY <1>2, <1>14
<1>6. SqliteStatements = begin \o CASE stage \in {"catalogs", "CatalogList"} -> <<>>
                                    [] stage = "ViewList" -> E
                                    [] OTHER -> E \o end
  BY DEF SqliteStatements
<1> HIDE DEF begin, end, E, n
<1>7. /\ IsSequence(begin \o E) /\ Len(begin \o E) = 1 + n /\ DOMAIN (begin \o E) = 1 .. 1 + n
      /\ (begin \o E)[1] = begin[1] /\ \A i \in 1 .. n : (begin \o E)[1 + i] = E[i]
  <2> PICK u : u = begin \o E
    OBVIOUS
  <2>1. /\ IsSequence(u) /\ Len(u) = 1 + n /\ DOMAIN u = 1 .. 1 + n
        /\ \A i \in {1} : u[i] = begin[i]
        /\ \A i \in 1 .. n : u[1 + i] = E[i]
    <3>1. Joined(begin, E)
      BY <1>15, OneAfterAnother
    <3>. QED  BY <1>14, <3>1 DEF Joined
  <2>. QED  BY <2>1
<1>8. /\ IsSequence(E \o end) /\ Len(E \o end) = n + 1 /\ DOMAIN (E \o end) = 1 .. n + 1
      /\ (E \o end)[n + 1] = end[1] /\ \A i \in 1 .. n : (E \o end)[i] = E[i]
  <2> PICK u : u = E \o end
    OBVIOUS
  <2>1. /\ IsSequence(u) /\ Len(u) = n + 1 /\ DOMAIN u = 1 .. n + 1
        /\ \A i \in 1 .. n : u[i] = E[i]
        /\ \A i \in {1} : u[n + i] = end[i]
    <3>1. Joined(E, end)
      BY <1>15, OneAfterAnother
    <3>. QED  BY <1>14, <3>1 DEF Joined
  <2>. QED  BY <2>1
<1>9. LET all == begin \o (E \o end)
      IN  /\ IsSequence(all) /\ Len(all) = n + 2 /\ DOMAIN all = 1 .. n + 2
          /\ all[1] = begin[1] /\ all[n + 2] = end[1] /\ \A i \in 1 .. n : all[1 + i] = E[i]
  <2> DEFINE rest == E \o end
             all  == begin \o rest
  <2>1. IsSequence(rest) /\ Len(rest) = n + 1 /\ DOMAIN rest = 1 .. n + 1
        /\ rest[n + 1] = end[1] /\ \A i \in 1 .. n : rest[i] = E[i]
    BY <1>8
  <2> HIDE DEF rest
  <2>2. /\ IsSequence(all) /\ Len(all) = 1 + (n + 1) /\ DOMAIN all = 1 .. 1 + (n + 1)
        /\ all[1] = begin[1] /\ \A i \in 1 .. n + 1 : all[1 + i] = rest[i]
    <3> PICK u : u = all
      OBVIOUS
    <3>1. Joined(begin, rest)
      <4>1. IsSequence(rest)
        BY <2>1
      <4>. QED  BY <1>15, <4>1, OneAfterAnother
    <3>2. /\ IsSequence(u) /\ Len(u) = 1 + (n + 1) /\ DOMAIN u = 1 .. 1 + (n + 1)
          /\ \A i \in {1} : u[i] = begin[i]
          /\ \A i \in 1 .. n + 1 : u[1 + i] = rest[i]
      <4> HIDE DEF all
      <4>1. u = begin \o rest
        BY DEF all
      <4>. QED  BY <1>14, <2>1, <3>1, <4>1 DEF Joined
    <3>. QED  BY <3>2
  <2> HIDE DEF all
  <2>3. all[1 + (n + 1)] = end[1] /\ \A i \in 1 .. n : all[1 + i] = E[i]
    BY <1>2, <2>1, <2>2
  <2>4. 1 + (n + 1) = n + 2
    BY <1>2
  <2>5. /\ IsSequence(all) /\ Len(all) = n + 2 /\ DOMAIN all = 1 .. n + 2
        /\ all[1] = begin[1] /\ all[n + 2] = end[1] /\ \A i \in 1 .. n : all[1 + i] = E[i]
    BY <2>2, <2>3, <2>4
  <2>. QED  BY <2>5 DEF all, rest
<1>10. CASE ~(stage \in Copied \/ (source = "sqlite" /\ stage # "schemas"))
  <2>1. PICK text : todo = Once(text) /\ text # "sqlite_master"
    <3> DEFINE text == CASE source = "odbc"     -> IF stage = "columns" THEN "SQLColumns" ELSE "SQLTables"
                         [] source = "firebird" -> (CASE stage = "tables" -> "RDB$RELATIONS"
                                                      [] stage = "columns" -> "RDB$RELATION_FIELDS" [] OTHER -> "")
                         [] source = "sdi"      -> IF stage = "catalogs" THEN "" ELSE "SDIOpenObjects"
                         [] OTHER               -> ""
    <3>1. todo = Once(text)
      BY <1>10 DEF Statements
    <3>2. text # "sqlite_master"
      OBVIOUS
    <3> HIDE DEF text
    <3>. QED  BY <3>1, <3>2
  <2>2. IsSequence(todo) /\ Len(todo) = 1 /\ DOMAIN todo = {1} /\ todo[1].text # "sqlite_master"
    BY <2>1, SingleSequence DEF Once, Statement
  <2>3. ~PerDatabase
    BY <1>10 DEF PerDatabase
  <2>. QED  BY <2>2, <2>3
<1>11. CASE (stage \in Copied \/ (source = "sqlite" /\ stage # "schemas")) /\ stage \in {"catalogs", "CatalogList"}
  <2>1. todo = begin
    BY <1>4, <1>6, <1>11 DEF Statements
  <2>2. ~PerDatabase
    BY <1>11 DEF PerDatabase
  <2>. QED  BY <1>1, <2>1, <2>2
<1>12. CASE (stage \in Copied \/ (source = "sqlite" /\ stage # "schemas")) /\ stage = "ViewList"
  <2>1. todo = begin \o E
    BY <1>6, <1>12 DEF Statements
  <2>2. ~Single
    BY <1>12 DEF Single, PerDatabase, Refused
  <2>3. IsSequence(todo) /\ DOMAIN todo = 1 .. 1 + n /\ todo[1].text = "PRAGMA database_list"
    BY <1>1, <1>7, <2>1
  <2>6. \A i \in 1 .. n : todo[1 + i].text = "sqlite_master" /\ todo[1 + i].arg = Databases[i]
    BY <1>3, <1>7, <2>1
  <2>4. /\ 1 \in DOMAIN todo
        /\ \A i \in DOMAIN todo : i = 1 \/ todo[i].text = "sqlite_master"
        /\ \A i, j \in DOMAIN todo :
             todo[i].text = "sqlite_master" /\ todo[j].text = "sqlite_master" /\ todo[i].arg = todo[j].arg => i = j
        /\ \A i \in 1 .. n : \E j \in DOMAIN todo : todo[j].text = "sqlite_master" /\ todo[j].arg = Databases[i]
    <3>3. PICK M : M = {i \in DOMAIN todo : todo[i].text = "sqlite_master"}
      OBVIOUS
    <3>4. PICK arg : arg = [i \in DOMAIN todo |-> todo[i].arg]
      OBVIOUS
    <3>5. PICK D : D = Databases
      OBVIOUS
    <3>6. PICK m : m = 1 + n
      OBVIOUS
    <3>15. n \in Nat /\ m \in Nat /\ DOMAIN todo = 1 .. m
      <4>1. DOMAIN todo = 1 .. 1 + n
        BY <2>3
      <4>. QED  BY <1>15, <3>6, <4>1
    <3>16. M \subseteq DOMAIN todo /\ 1 \notin M
      BY <2>3, <3>3
    <3>7. n \in Nat /\ m \in Nat /\ DOMAIN todo = 1 .. m /\ M \subseteq 1 .. m /\ 1 \notin M
      BY <3>15, <3>16
    <3>8. \A i \in 1 .. n : 1 + i \in DOMAIN todo
      BY <1>2, <3>6, <3>7
    <3>9. \A i \in 1 .. n : 1 + i \in M
      BY <2>6, <3>3, <3>8
    <3>10. \A i \in 1 .. n : arg[1 + i] = D[i]
      BY <2>6, <3>4, <3>5, <3>8
    <3>11. \A i, j \in 1 .. n : D[i] = D[j] => i = j
      BY <1>2, <3>5
    <3>12. m # n + 2
      BY <1>2, <3>6
    <3>13. m = n + 1 \/ m = n + 2
      BY <1>2, <3>6
    <3>14. /\ 1 \in 1 .. m
           /\ \A i \in 1 .. m : i = 1 \/ (m = n + 2 /\ i = m) \/ i \in M
           /\ \A i, j \in M : arg[i] = arg[j] => i = j
           /\ \A i \in 1 .. n : \E j \in M : arg[j] = D[i]
      <4>1. EachFromSecond(n, m, D, arg, M)
        BY <3>7, <3>9, <3>10, <3>11, <3>12, <3>13 DEF EachFromSecond
      <4>. QED  BY <4>1, DatabasePlaces
    <3>. QED  BY <3>3, <3>4, <3>5, <3>6, <3>7, <3>12, <3>14
  <2>5. DatabasesInTurn
    BY <1>12, <2>3, <2>4 DEF DatabasesInTurn
  <2>. QED  BY <1>2, <2>2, <2>3, <2>4, <2>5
<1>13. CASE /\ stage \in Copied \/ (source = "sqlite" /\ stage # "schemas")
            /\ stage \notin {"catalogs", "CatalogList", "ViewList"}
  <2>1. todo = begin \o (E \o end)
    BY <1>6, <1>13 DEF Statements
  <2>2. ~Single
    BY <1>13 DEF Single, PerDatabase, PerTable, Refused, Asked, Preliminary, DbcLists
  <2>3. /\ IsSequence(todo) /\ Len(todo) = n + 2 /\ DOMAIN todo = 1 .. n + 2 /\ todo[1].text = "PRAGMA database_list"
        /\ todo[n + 2].text = "sqlite_temp_master" /\ todo[n + 2].arg = "temp"
    BY <1>1, <1>9, <2>1
  <2>6. \A i \in 1 .. n : todo[1 + i].text = "sqlite_master" /\ todo[1 + i].arg = Databases[i]
    BY <1>3, <1>9, <2>1
  <2>4. /\ 1 \in DOMAIN todo
        /\ \A i \in DOMAIN todo : i = 1 \/ i = n + 2 \/ todo[i].text = "sqlite_master"
        /\ \A i, j \in DOMAIN todo :
             todo[i].text = "sqlite_master" /\ todo[j].text = "sqlite_master" /\ todo[i].arg = todo[j].arg => i = j
        /\ \A i \in 1 .. n : \E j \in DOMAIN todo : todo[j].text = "sqlite_master" /\ todo[j].arg = Databases[i]
    <3>3. PICK M : M = {i \in DOMAIN todo : todo[i].text = "sqlite_master"}
      OBVIOUS
    <3>4. PICK arg : arg = [i \in DOMAIN todo |-> todo[i].arg]
      OBVIOUS
    <3>5. PICK D : D = Databases
      OBVIOUS
    <3>6. PICK m : m = n + 2
      OBVIOUS
    <3>15. n \in Nat /\ m \in Nat /\ DOMAIN todo = 1 .. m
      <4>1. DOMAIN todo = 1 .. n + 2
        BY <2>3
      <4>. QED  BY <1>15, <3>6, <4>1
    <3>16. M \subseteq DOMAIN todo /\ 1 \notin M
      BY <2>3, <3>3
    <3>7. n \in Nat /\ m \in Nat /\ DOMAIN todo = 1 .. m /\ M \subseteq 1 .. m /\ 1 \notin M
      BY <3>15, <3>16
    <3>8. \A i \in 1 .. n : 1 + i \in DOMAIN todo
      BY <1>2, <3>6, <3>7
    <3>9. \A i \in 1 .. n : 1 + i \in M
      BY <2>6, <3>3, <3>8
    <3>10. \A i \in 1 .. n : arg[1 + i] = D[i]
      BY <2>6, <3>4, <3>5, <3>8
    <3>11. \A i, j \in 1 .. n : D[i] = D[j] => i = j
      BY <1>2, <3>5
    <3>12. m \notin M
      BY <2>3, <3>3, <3>6
    <3>13. m = n + 1 \/ m = n + 2
      BY <1>2, <3>6
    <3>14. /\ 1 \in 1 .. m
           /\ \A i \in 1 .. m : i = 1 \/ (m = n + 2 /\ i = m) \/ i \in M
           /\ \A i, j \in M : arg[i] = arg[j] => i = j
           /\ \A i \in 1 .. n : \E j \in M : arg[j] = D[i]
      <4>1. EachFromSecond(n, m, D, arg, M)
        BY <3>7, <3>9, <3>10, <3>11, <3>12, <3>13 DEF EachFromSecond
      <4>. QED  BY <4>1, DatabasePlaces
    <3>. QED  BY <3>3, <3>4, <3>5, <3>6, <3>7, <3>12, <3>14
  <2>5. DatabasesInTurn
    BY <2>3, <2>4 DEF DatabasesInTurn
  <2>. QED  BY <1>2, <2>2, <2>3, <2>4, <2>5
<1>. QED  BY <1>10, <1>11, <1>12, <1>13

\* A listing begins with its invariant.
LEMMA ListingInit == MetadataInit => ListingInv
<1> SUFFICES ASSUME MetadataInit PROVE ListingInv
  OBVIOUS
<1> DEFINE made == Described(stage)
           opened == Opened(made)
<1>1. /\ source \in Engines /\ kind \in {"catalogs", "schemas", "tables", "columns"} \union DbcLists
      /\ asked \in Arguments(source, kind) /\ objects \subseteq Universe[source]
      /\ stage = IF kind = "columns" /\ source \in {"sqlite", "sdi"} THEN "tables" ELSE kind
      /\ todo = Statements /\ rows = {} /\ tmp = made /\ listed = opened /\ list = <<>>
      /\ answer = None /\ through = objects /\ seen = objects
  BY UniverseAssumption DEF MetadataInit, Engines
<1>2. Asked
  <2>1. answer # Ok
    BY <1>1 DEF None, Ok
  <2>2. stage = kind \/ Preliminary
    BY <1>1 DEF Preliminary
  <2>. QED  BY <1>1, <2>1, <2>2 DEF Asked
<1>3. Histories
  BY <1>1 DEF Histories
<1>4. ~PerTable
  BY <1>1 DEF PerTable
<1>5. RecordSetsMade /\ Listed = <<>>
  <2>1. /\ DOMAIN made = SetFields /\ made.m_records = <<>>
        /\ made.m_count = Len(Header(stage)) /\ made.m_column_descriptors = Header(stage)
    BY DescribedSet
  <2>2. DOMAIN opened = SetFields /\ opened.m_records = <<>>
    BY <2>1, OpenedSet
  <2> HIDE DEF made, opened
  <2>3. Shaped(tmp)
    BY <1>1, <2>1 DEF Shaped
  <2>4. IsSequence(listed.m_records) /\ IsSequence(list)
    BY <1>1, <2>2, NothingIsSequence
  <2>5. Listed = <<>>
    BY <1>1, <2>2 DEF Listed
  <2>. QED  BY <1>1, <2>2, <2>3, <2>4, <2>5 DEF RecordSetsMade
<1> HIDE DEF made, opened
<1>6. /\ IsSequence(todo) /\ 1 \in DOMAIN todo
      /\ PerDatabase => /\ DatabasesInTurn
                        /\ \A i \in DOMAIN Databases : \E j \in DOMAIN todo :
                             todo[j].text = "sqlite_master" /\ todo[j].arg = Databases[i]
      /\ Single => Len(todo) = 1 /\ todo[1].text # "sqlite_master"
  BY <1>1, <1>2, <1>3, <1>4, FirstStatements
<1>7. ToExecute
  <2>1. todo # <<>>
    BY <1>6, NothingIsSequence
  <2>2. source = "sqlite" => ~Refused
    BY DEF Refused, Copied
  <2>3. ASSUME source = "sqlite", ~PerDatabase PROVE \A i \in DOMAIN todo : todo[i].text # "sqlite_master"
    <3>1. Single
      BY <1>4, <2>2, <2>3 DEF Single
    <3>2. DOMAIN todo = 1 .. Len(todo)
      BY <1>6, AnySequence DEF IsSequence
    <3>3. DOMAIN todo = {1}
      BY <1>6, <3>1, <3>2
    <3>. QED  BY <1>6, <3>1, <3>3
  <2>4. Single => Len(todo) <= 1
    <3>1. ASSUME Single PROVE Len(todo) = 1
      BY <1>6, <3>1
    <3>2. ASSUME Len(todo) = 1 PROVE Len(todo) <= 1
      <4> PICK k : k = Len(todo)
        OBVIOUS
      <4>. QED  BY <3>2
    <3>. QED  BY <3>1, <3>2
  <2>. QED  BY <1>1, <1>4, <1>6, <2>1, <2>3, <2>4 DEF ToExecute
<1>8. RowsOnce /\ RowsTell
  BY <1>1, <1>5, NothingIsSequence DEF RowsOnce, RowsTell
<1>9. NothingLost
  <2> SUFFICES ASSUME NEW o \in through, AskedFor(o), Reachable(o) PROVE Comes(o)
    BY DEF NothingLost
  <2>1. CASE PerDatabase
    <3>1. source = "sqlite" /\ o \in objects
      BY <1>1, <2>1 DEF PerDatabase
    <3>2. PICK i \in DOMAIN Databases : Databases[i] = o.space
      BY <1>3, <3>1, DatabaseNames
    <3>3. PICK j \in DOMAIN todo : todo[j].text = "sqlite_master" /\ todo[j].arg = Databases[i]
      BY <1>6, <2>1
    <3>4. Covers(todo[j], o)
      BY <1>4, <3>2, <3>3 DEF Covers
    <3>. QED  BY <3>4 DEF Comes
  <2>2. CASE ~PerDatabase
    <3>1. Covers(todo[1], o)
      BY <1>4, <2>2 DEF Covers
    <3>. QED  BY <1>6, <3>1 DEF Comes
  <2>. QED  BY <2>1, <2>2
<1>. QED  BY <1>2, <1>3, <1>5, <1>7, <1>8, <1>9 DEF ListingInv

\* Every step keeps the invariant.
LEMMA ListingStep == ListingInv /\ [MetadataNext]_metadataVars => ListingInv'
BY ExecuteStep, SkipStep, NoSchemasStep, LosesStep, EndStep, ListStep, TurnStep, ServerStep, StillStep
   DEF MetadataNext

\* The invariant gives what a listing promises.
LEMMA ListedIsWhole == ListingInv => ListingWhole
<1> SUFFICES ASSUME ListingInv, answer = Ok
             PROVE  /\ \A o \in through : AskedFor(o) /\ Reachable(o) => \E i \in DOMAIN Listed : Tells(Listed[i], o)
                    /\ kind \in {"tables", "columns", "TableList", "IndexList", "ViewList"} =>
                         \A i \in DOMAIN Listed :
                           \E o \in Known :
                             /\ Tells(Listed[i], o)
                             /\ asked.filter \in {Null, o.name}
                             /\ MayRepeat(o) \/ \A j \in DOMAIN Listed : Listed[j] = Listed[i] => j = i
  BY DEF ListingWhole
<1> USE DEF ListingInv
<1>1. stage = kind /\ rows = {} /\ todo = <<>>
  BY DEF Asked
<1>2. ASSUME NEW o \in through, AskedFor(o), Reachable(o) PROVE \E i \in DOMAIN Listed : Tells(Listed[i], o)
  <2>1. Comes(o)
    BY <1>2 DEF NothingLost
  <2>. QED  BY <1>1, <2>1, NothingIsSequence DEF Comes
<1>3. ASSUME kind \in {"tables", "columns", "TableList", "IndexList", "ViewList"}, NEW i \in DOMAIN Listed
      PROVE  \E o \in Known :
               /\ Tells(Listed[i], o)
               /\ asked.filter \in {Null, o.name}
               /\ MayRepeat(o) \/ \A j \in DOMAIN Listed : Listed[j] = Listed[i] => j = i
  <2>1. OfObjects
    BY <1>1, <1>3 DEF OfObjects
  <2>2. PICK o \in Known : Tells(Listed[i], o) /\ asked.filter \in {Null, o.name}
    BY <1>1, <2>1 DEF RowsTell
  <2>3. CASE RowMayRepeat(Listed[i])
    <3>1. PICK p \in Known : Tells(Listed[i], p) /\ MayRepeat(p)
      BY <2>3 DEF RowMayRepeat
    <3>2. \A row, q, r : Tells(row, q) /\ Tells(row, r) => q.name = r.name
      BY <2>1 DEF OfObjects, Tells, DbcLists
    <3>3. p.name = o.name
      BY <2>2, <3>1, <3>2
    <3>. QED  BY <2>2, <3>1, <3>3
  <2>4. CASE ~RowMayRepeat(Listed[i])
    <3>1. \A j \in DOMAIN Listed : Listed[j] = Listed[i] => j = i
      BY <2>1, <2>4 DEF RowsOnce
    <3>. QED  BY <2>2, <3>1
  <2>. QED  BY <2>3, <2>4
<1>. QED  BY <1>2, <1>3

\* The invariant holds throughout.
LEMMA ListingInductive == MetadataSpec => []ListingInv
BY ListingInit, ListingStep, PTL DEF MetadataSpec

\* For any servers, databases and arguments, and whatever other clients change
\* between the statements: a listing that ends has every object that was there
\* all the time, was asked for and could be reached, no row that tells of
\* nothing, and no row twice (getTables(), getColumns() and the lists of ...Dbc).
THEOREM ListingsAreWhole == MetadataSpec => []ListingWhole
BY ListingInductive, ListedIsWhole, PTL
=============================================================================
