------------------------- MODULE SqliteResultProofs -------------------------
(***************************************************************************)
(* What a SqliteResult_libsqlite promises to a client that keeps the       *)
(* protocol, for any number of rows, columns and parameters: no call uses  *)
(* what is gone, eof() and the row number are those of the machine, and    *)
(* the object is a ForwardDataset.                                         *)
(***************************************************************************)
EXTENDS SqliteResult, SequenceTheorems, TLAPS

\* The members of the object and the machines of the library.
Codes     == {"OK", "ROW", "DONE", "ERROR"}
BoundMaps == UNION {[S -> Values \union {Dead}] : S \in SUBSET Nat}
Machines ==
  [conn : {Conn}, sql : Queries, status : MachineStates, at : Nat, bound : BoundMaps]
Results ==
  [m_cursorstate : CursorStates, m_handle : Nat, m_current_tuple : Int,
   m_last_row_status : Codes, m_column_desc : SUBSET Nat,
   blobbuf : [Columns -> Buffers]]

Typed(r, l) ==
  /\ r \in Results
  /\ l \in Seq(Machines)
  /\ r.m_handle \in 0 .. Len(l)

\* Prepared, and never executed or rewound since.
Waiting(r) == IsPrepared(r) /\ Unusable(r) /\ ~IsBad(r)

Live(r) == ~Unusable(r) /\ ~IsEof(r)

\* How an object and its machine belong together.
Tied(r, l) ==
  LET m == l[r.m_handle]
  IN  /\ ~Finalized(l, r.m_handle)
      /\ Waiting(r) /\ r.m_handle # NoHandle => m.status = "ready" /\ m.at = 0
      /\ ~Unusable(r) =>
           /\ r.m_handle # NoHandle
           /\ r.m_current_tuple >= 1
           /\ IsEof(r) <=> m.status # "row"
      /\ Live(r) =>
           /\ r.m_current_tuple = m.at
           /\ \A c \in Columns : r.blobbuf[c] # "stale"

Sound(r, l) == Typed(r, l) /\ Tied(r, l)

\* The inductive invariant: a deleted object is never looked at again.
ProtocolInv ==
  /\ Typed(rs, lib)
  /\ ~gone => Tied(rs, lib)
  /\ gone \in BOOLEAN
  /\ Running

-----------------------------------------------------------------------------
(* The cursor states                                                       *)

\* The macro sets the bit of the state and the lower ones.
LEMMA Masks ==
  /\ Mask("PREPARED") = {"PREPARED"}
  /\ Mask("POSITIONED") = {"PREPARED", "OPEN", "POSITIONED"}
<1>1. ASSUME NEW i \in 1 .. 4
      PROVE  Mask(Ranked[i]) = {Ranked[j] : j \in 1 .. i}
  <2>1. \A r \in 1 .. 4 : Ranked[r] = Ranked[i] => r = i
    BY DEF Ranked
  <2>. QED  BY <2>1 DEF Mask
<1>2. /\ Ranked[1] = "PREPARED" /\ Ranked[2] = "OPEN" /\ Ranked[3] = "POSITIONED"
  BY DEF Ranked
<1>3. Mask("PREPARED") = {"PREPARED"}
  BY <1>1, <1>2, 1 .. 1 = {1}
<1>4. Mask("POSITIONED") = {"PREPARED", "OPEN", "POSITIONED"}
  BY <1>1, <1>2, 1 .. 3 = {1, 2, 3}
<1>. QED  BY <1>3, <1>4

\* The states the methods set are states of the macro.
LEMMA StatesReached ==
  /\ CLOSED \in CursorStates
  /\ Mask("PREPARED") \in CursorStates
  /\ Mask("POSITIONED") \in CursorStates
  /\ \A cs \in CursorStates : cs \union {"BAD"} \in CursorStates
<1> DEFINE Prefixes == {CLOSED} \union {Mask(Ranked[r]) : r \in 1 .. 4}
<1>1. CursorStates = Prefixes \union {p \union {"BAD"} : p \in Prefixes}
  BY DEF CursorStates
<1>2. Mask("PREPARED") \in Prefixes /\ Mask("POSITIONED") \in Prefixes
  BY DEF Ranked
<1>3. \A p \in Prefixes : p \union {"BAD"} \union {"BAD"} = p \union {"BAD"}
  OBVIOUS
<1>. QED  BY <1>1, <1>2, <1>3

\* An open dataset is prepared, a prepared one that is not BAD has a mask that
\* says so, and preparing a closed one sets the lowest bit.
LEMMA Prefix ==
  ASSUME NEW cs \in CursorStates
  PROVE  /\ "OPEN" \in cs => "PREPARED" \in cs
         /\ "PREPARED" \notin cs => cs \ {"BAD"} = {}
<1> DEFINE Prefixes == {CLOSED} \union {Mask(Ranked[r]) : r \in 1 .. 4}
<1>1. \A p \in Prefixes : p = {} \/ "PREPARED" \in p
  <2>1. ASSUME NEW r \in 1 .. 4
        PROVE  "PREPARED" \in Mask(Ranked[r])
    <3>1. \A q \in 1 .. 4 : Ranked[q] = Ranked[r] => q = r
      BY DEF Ranked
    <3>2. Mask(Ranked[r]) = {Ranked[i] : i \in 1 .. r}
      BY <3>1 DEF Mask
    <3>3. 1 \in 1 .. r /\ Ranked[1] = "PREPARED"
      BY DEF Ranked
    <3>. QED  BY <3>2, <3>3
  <2>. QED  BY <2>1 DEF CLOSED
<1>2. CursorStates = Prefixes \union {p \union {"BAD"} : p \in Prefixes}
  BY DEF CursorStates
<1>3. PICK p \in Prefixes : cs = p \/ cs = p \union {"BAD"}
  BY <1>2
<1>. QED  BY <1>1, <1>3

-----------------------------------------------------------------------------
(* The library                                                             *)

\* A machine is replaced in its place.
LEMMA Replaced ==
  ASSUME NEW l \in Seq(Machines), NEW h \in 1 .. Len(l), NEW m \in Machines
  PROVE  /\ [l EXCEPT ![h] = m] \in Seq(Machines)
         /\ Len([l EXCEPT ![h] = m]) = Len(l)
         /\ [l EXCEPT ![h] = m][h] = m
OBVIOUS


\* The members of a machine, and machines that differ in some of them.
LEMMA Members ==
  ASSUME NEW m \in Machines
  PROVE  /\ m.conn = Conn /\ m.sql \in Queries /\ m.status \in MachineStates
         /\ m.at \in Nat /\ m.bound \in BoundMaps
         /\ DOMAIN m = {"conn", "sql", "status", "at", "bound"}
BY DEF Machines

Placed(m, st, a) == [m EXCEPT !.status = st, !.at = a]

LEMMA Moving ==
  ASSUME NEW m \in Machines, NEW st, st \in MachineStates, NEW a, a \in Nat
  PROVE  LET q == Placed(m, st, a)
         IN  q \in Machines /\ q.status = st /\ q.at = a /\ q.bound = m.bound
BY DEF Machines, Placed

LEMMA Rebinding ==
  ASSUME NEW m \in Machines, NEW b \in BoundMaps
  PROVE  /\ [m EXCEPT !.bound = b] \in Machines
         /\ [m EXCEPT !.bound = b].status = m.status
         /\ [m EXCEPT !.bound = b].at = m.at
         /\ [m EXCEPT !.bound = b].sql = m.sql
         /\ [m EXCEPT !.bound = b].bound = b
BY DEF Machines

\* What the calls make of the machine h, and that they leave it a machine.
LEMMA Rewinding ==
  ASSUME NEW l \in Seq(Machines), NEW h \in 1 .. Len(l)
  PROVE  /\ Reset(l, h) \in Seq(Machines) /\ Len(Reset(l, h)) = Len(l)
         /\ Reset(l, h)[h].status = "ready" /\ Reset(l, h)[h].at = 0
         /\ Reset(l, h)[h].bound = l[h].bound
         /\ Finalize(l, h) \in Seq(Machines) /\ Len(Finalize(l, h)) = Len(l)
<1> DEFINE ready == Placed(l[h], "ready", 0)
           ended == Placed(l[h], "finalized", 0)
           dead  == [ended EXCEPT !.bound = <<>>]
<1>1. l[h] \in Machines /\ h \in DOMAIN l
  OBVIOUS
<1>2. <<>> \in BoundMaps
  <2>1. <<>> \in [{} -> Values \union {Dead}]
    OBVIOUS
  <2>. QED  BY <2>1 DEF BoundMaps
<1>3. /\ ready \in Machines
      /\ ready.status = "ready" /\ ready.at = 0 /\ ready.bound = l[h].bound
  BY <1>1, Moving DEF MachineStates
<1>6. dead \in Machines
  <2>1. ended \in Machines
    BY <1>1, Moving DEF MachineStates
  <2> HIDE DEF ended
  <2>. QED  BY <1>2, <2>1, Rebinding
<1>4. Reset(l, h) = [l EXCEPT ![h] = ready]
  BY <1>1 DEF Reset, Placed
<1>5. Finalize(l, h) = [l EXCEPT ![h] = dead]
  BY <1>1 DEF Finalize, Placed
<1> HIDE DEF ready, dead
<1>. QED  BY <1>3, <1>4, <1>5, <1>6, Replaced

LEMMA Binding ==
  ASSUME NEW l \in Seq(Machines), NEW h \in 1 .. Len(l), NEW b \in BoundMaps
  PROVE  LET d == [l EXCEPT ![h].bound = b]
         IN  /\ d \in Seq(Machines) /\ Len(d) = Len(l)
             /\ d[h].status = l[h].status /\ d[h].at = l[h].at /\ d[h].sql = l[h].sql
             /\ d[h].bound = b
<1> DEFINE m == [l[h] EXCEPT !.bound = b]
<1>1. l[h] \in Machines /\ h \in DOMAIN l
  OBVIOUS
<1>2. /\ m \in Machines /\ m.bound = b
      /\ m.status = l[h].status /\ m.at = l[h].at /\ m.sql = l[h].sql
  BY <1>1, Rebinding
<1>3. [l EXCEPT ![h].bound = b] = [l EXCEPT ![h] = m]
  BY <1>1
<1> HIDE DEF m
<1>. QED  BY <1>2, <1>3, Replaced

\* Values to bind: a map of parameters, or the part of it below a number.
Bindable(p) == \E S \in SUBSET Nat : p \in [S -> Values]

LEMMA Binds ==
  ASSUME NEW l, l \in Seq(Machines), NEW h, h \in 1 .. Len(l), NEW p, Bindable(p)
  PROVE  LET d == Bind(l, h, p)
         IN  /\ d \in Seq(Machines) /\ Len(d) = Len(l)
             /\ d[h].status = l[h].status /\ d[h].at = l[h].at /\ d[h].sql = l[h].sql
             /\ DOMAIN d[h].bound = DOMAIN l[h].bound \union DOMAIN p
             /\ \A n \in DOMAIN p : d[h].bound[n] = p[n]
<1> DEFINE o == l[h].bound
           b == [n \in DOMAIN o \union DOMAIN p |-> IF n \in DOMAIN p THEN p[n] ELSE o[n]]
<1>1. o \in BoundMaps
  <2>1. l[h] \in Machines
    OBVIOUS
  <2>. QED  BY <2>1, Members
<1>2. PICK S \in SUBSET Nat : o \in [S -> Values \union {Dead}]
  BY <1>1 DEF BoundMaps
<1>3. PICK P \in SUBSET Nat : p \in [P -> Values]
  BY DEF Bindable
<1>4. b \in [S \union P -> Values \union {Dead}]
  BY <1>2, <1>3
<1>5. b \in BoundMaps
  BY <1>4 DEF BoundMaps
<1>6. Bind(l, h, p) = [l EXCEPT ![h].bound = b]
  BY DEF Bind
<1>7. DOMAIN b = DOMAIN o \union DOMAIN p /\ \A n \in DOMAIN p : b[n] = p[n]
  OBVIOUS
<1> HIDE DEF b
<1>. QED  BY <1>5, <1>6, <1>7, Binding

LEMMA Freeing ==
  ASSUME NEW l \in Seq(Machines), NEW h \in 1 .. Len(l)
  PROVE  LET d == FreeBlobs(l, h)
         IN  /\ d \in Seq(Machines) /\ Len(d) = Len(l)
             /\ d[h].status = l[h].status /\ d[h].at = l[h].at
<1> DEFINE o == l[h].bound
           b == [n \in DOMAIN o |-> IF o[n] \in Blobs THEN Dead ELSE o[n]]
<1>1. l[h] \in Machines /\ h \in DOMAIN l
  OBVIOUS
<1>2. PICK S \in SUBSET Nat : o \in [S -> Values \union {Dead}]
  BY <1>1, Members DEF BoundMaps
<1>3. b \in [S -> Values \union {Dead}]
  BY <1>2
<1>4. b \in BoundMaps
  BY <1>3 DEF BoundMaps
<1>5. FreeBlobs(l, h) = [l EXCEPT ![h].bound = b]
  BY <1>1, Members DEF FreeBlobs
<1> HIDE DEF b
<1>. QED  BY <1>4, <1>5, Binding

\* A step gives a row behind the one the machine was on, the end or an error.
LEMMA Stepping ==
  ASSUME NEW l \in Seq(Machines), NEW h \in 1 .. Len(l), l[h].status \in {"ready", "row"},
         NEW s \in Steps(l, h)
  PROVE  /\ s.lib \in Seq(Machines) /\ Len(s.lib) = Len(l)
         /\ \/ s.code = "ROW" /\ s.lib[h].status = "row" /\ s.lib[h].at = l[h].at + 1
            \/ s.code = "DONE" /\ s.lib[h].status = "done"
            \/ s.code = "ERROR" /\ s.lib[h].status = "failed"
<1> DEFINE k == l[h].at
           row    == Placed(l[h], "row", k + 1)
           done   == Placed(l[h], "done", k)
           failed == Placed(l[h], "failed", k)
<1>1. l[h] \in Machines /\ h \in DOMAIN l /\ h # NoHandle
  BY DEF NoHandle
<1>2. k \in Nat /\ k + 1 \in Nat /\ l[h].bound \in BoundMaps
  BY <1>1, Members
<1>3. /\ row \in Machines /\ done \in Machines /\ failed \in Machines
      /\ row.status = "row" /\ row.at = k + 1
      /\ done.status = "done" /\ failed.status = "failed"
  <2>1. row \in Machines /\ row.status = "row" /\ row.at = k + 1
    BY <1>1, <1>2, Moving DEF MachineStates
  <2>2. done \in Machines /\ done.status = "done"
    BY <1>1, <1>2, Moving DEF MachineStates
  <2>3. failed \in Machines /\ failed.status = "failed"
    BY <1>1, <1>2, Moving DEF MachineStates
  <2>. QED  BY <2>1, <2>2, <2>3
<1>4. s \in Delivered(l, h, k)
  BY <1>1 DEF Steps
<1>5. \/ s = [lib |-> [l EXCEPT ![h] = row], code |-> "ROW"]
      \/ s = [lib |-> [l EXCEPT ![h] = done], code |-> "DONE"]
      \/ s = [lib |-> [l EXCEPT ![h] = failed], code |-> "ERROR"]
  BY <1>1, <1>4 DEF Delivered, Placed
<1> HIDE DEF row, done, failed
<1>. QED  BY <1>3, <1>5, Replaced

-----------------------------------------------------------------------------
(* The object                                                              *)

\* Everything but the buffers, and everything but the state, is that of r.
SameButBuffers(r, q) ==
  /\ q.m_cursorstate = r.m_cursorstate /\ q.m_handle = r.m_handle
  /\ q.m_current_tuple = r.m_current_tuple
  /\ q.m_last_row_status = r.m_last_row_status

LEMMA BufferChanges ==
  ASSUME NEW r \in Results
  PROVE  /\ Invalidated(r) \in Results /\ SameButBuffers(r, Invalidated(r))
         /\ Refreshed(r) \in Results /\ SameButBuffers(r, Refreshed(r))
         /\ \A c \in Columns : Refreshed(r).blobbuf[c] # "stale"
         /\ (\A c \in Columns : r.blobbuf[c] = "unset") =>
              \A c \in Columns : Invalidated(r).blobbuf[c] = "unset"
<1> DEFINE moved == [c \in Columns |-> IF r.blobbuf[c] = "current" THEN "stale"
                                      ELSE r.blobbuf[c]]
           fresh == [c \in Columns |-> IF r.blobbuf[c] = "unset" THEN r.blobbuf[c]
                                      ELSE "null"]
<1>1. r.blobbuf \in [Columns -> Buffers]
  BY DEF Results
<1>2. /\ moved \in [Columns -> Buffers] /\ fresh \in [Columns -> Buffers]
      /\ \A c \in Columns : fresh[c] # "stale"
      /\ (\A c \in Columns : r.blobbuf[c] = "unset") =>
           \A c \in Columns : moved[c] = "unset"
  BY <1>1 DEF Buffers
<1>3. Invalidated(r) = [r EXCEPT !.blobbuf = moved]
  BY DEF Invalidated
<1>4. Refreshed(r) = [r EXCEPT !.blobbuf = fresh]
  BY DEF Refreshed
<1> HIDE DEF moved, fresh
<1>5. /\ Invalidated(r) \in Results /\ SameButBuffers(r, Invalidated(r))
      /\ Invalidated(r).blobbuf = moved
  BY <1>2, <1>3 DEF Results, SameButBuffers
<1>6. /\ Refreshed(r) \in Results /\ SameButBuffers(r, Refreshed(r))
      /\ Refreshed(r).blobbuf = fresh
  BY <1>2, <1>4 DEF Results, SameButBuffers
<1>. QED  BY <1>2, <1>5, <1>6

LEMMA States ==
  ASSUME NEW r \in Results
  PROVE  /\ SetState(r, "PREPARED") = [r EXCEPT !.m_cursorstate = {"PREPARED"}]
         /\ SetState(r, "POSITIONED") =
              [r EXCEPT !.m_cursorstate = {"PREPARED", "OPEN", "POSITIONED"}]
         /\ SetState(r, "BAD") = [r EXCEPT !.m_cursorstate = r.m_cursorstate \union {"BAD"}]
         /\ {"PREPARED"} \in CursorStates
         /\ {"PREPARED", "OPEN", "POSITIONED"} \in CursorStates
         /\ r.m_cursorstate \union {"BAD"} \in CursorStates
<1>1. r.m_cursorstate \in CursorStates
  BY DEF Results
<1>2. /\ SetCursorState(r.m_cursorstate, "PREPARED") = {"PREPARED"}
      /\ SetCursorState(r.m_cursorstate, "POSITIONED") = {"PREPARED", "OPEN", "POSITIONED"}
      /\ SetCursorState(r.m_cursorstate, "BAD") = r.m_cursorstate \union {"BAD"}
  BY Masks DEF SetCursorState
<1>3. /\ SetState(r, "PREPARED") = [r EXCEPT !.m_cursorstate = {"PREPARED"}]
      /\ SetState(r, "POSITIONED") =
           [r EXCEPT !.m_cursorstate = {"PREPARED", "OPEN", "POSITIONED"}]
      /\ SetState(r, "BAD") = [r EXCEPT !.m_cursorstate = r.m_cursorstate \union {"BAD"}]
  BY <1>2 DEF SetState
<1>. QED  BY <1>1, <1>3, Masks, StatesReached

\* What the flags of a mask say of it.
LEMMA Flags ==
  ASSUME NEW r \in Results
  PROVE  /\ ~IsPrepared(r) => Unusable(r)
         /\ ~IsPrepared(r) /\ ~IsBad(r) => r.m_cursorstate = {}
         /\ ~IsBad(r) /\ IsPrepared(r) => Waiting(r) \/ ~Unusable(r)
         /\ ~Unusable(r) => IsPrepared(r)
<1>1. r.m_cursorstate \in CursorStates
  BY DEF Results
<1>2. ~IsPrepared(r) /\ ~IsBad(r) => r.m_cursorstate = {}
  BY <1>1, Prefix DEF IsPrepared, IsBad
<1>. QED
  BY <1>1, <1>2, Prefix DEF IsPrepared, IsBad, IsOpen, Unusable, Waiting

LEMMA SoundOutcome ==
  ASSUME NEW q, NEW k, NEW x, NEW o \in Only(q, k, x)
  PROVE  o.rs = q /\ o.lib = k /\ o.ret = x
BY DEF Only, Outcome

\* An object that is not usable needs of its machine only that it is ready.
LEMMA TiedIdle ==
  ASSUME NEW r, NEW l, Unusable(r), ~Finalized(l, r.m_handle),
         Waiting(r) /\ r.m_handle # NoHandle =>
           l[r.m_handle].status = "ready" /\ l[r.m_handle].at = 0
  PROVE  Tied(r, l)
BY DEF Tied, Live

-----------------------------------------------------------------------------
(* The methods: what each leaves of a sound object and what it answers     *)

LEMMA DestroyMethod ==
  ASSUME NEW r, NEW l, Sound(r, l), NEW o \in RsDestroy(r, l)
  PROVE  Typed(o.rs, o.lib) /\ o.ret = Ok
<1> DEFINE q == [r EXCEPT !.blobbuf = [c \in Columns |-> "unset"]]
<1>1. r \in Results /\ l \in Seq(Machines) /\ r.m_handle \in 0 .. Len(l)
  BY DEF Sound, Typed
<1>2. q \in Results /\ q.m_handle = r.m_handle
  BY <1>1 DEF Results, Buffers
<1>3. ~Finalized(l, q.m_handle)
  BY <1>2 DEF Sound, Tied
<1>4. o \in RsClose(q, l)
  BY DEF RsDestroy
<1> HIDE DEF q
<1>5. CASE q.m_handle = NoHandle
  <2>1. o.rs = q /\ o.lib = l /\ o.ret = Ok
    BY <1>4, <1>5, SoundOutcome DEF RsClose
  <2>. QED  BY <1>1, <1>2, <2>1 DEF Typed
<1>6. CASE q.m_handle # NoHandle
  <2>1. o.rs = Invalidated(q) /\ o.lib = Finalize(l, q.m_handle) /\ o.ret = Ok
    BY <1>3, <1>4, <1>6, SoundOutcome DEF RsClose
  <2>2. q.m_handle \in 1 .. Len(l)
    BY <1>1, <1>2, <1>6 DEF NoHandle
  <2>3. o.lib \in Seq(Machines) /\ Len(o.lib) = Len(l)
    BY <1>1, <2>1, <2>2, Rewinding
  <2>. QED
    BY <1>1, <1>2, <2>1, <2>3, BufferChanges DEF Typed, SameButBuffers
<1>. QED  BY <1>5, <1>6

LEMMA PrepareMethod ==
  ASSUME NEW r, NEW l, Sound(r, l), ~IsPrepared(r), NEW sql \in Queries, NEW c \in BOOLEAN,
         NEW o \in RsPrepare(r, l, Conn, c, sql)
  PROVE  Sound(o.rs, o.lib) /\ Unusable(o.rs) /\ o.ret \in {Ok, Throw}
<1>1. r \in Results /\ l \in Seq(Machines) /\ r.m_handle \in 0 .. Len(l) /\ Unusable(r)
  BY Flags DEF Sound, Typed
<1>2. CASE IsBad(r) \/ ~c
  <2>1. o.rs = r /\ o.lib = l /\ o.ret = Throw
    BY <1>2, SoundOutcome DEF RsPrepare
  <2>. QED  BY <1>1, <2>1
<1>3. CASE ~IsBad(r) /\ c
  <2> DEFINE free     == [r EXCEPT !.m_handle = NoHandle]
             prepared == [r EXCEPT !.m_cursorstate = {"PREPARED"}]
             empty    == [prepared EXCEPT !.m_handle = NoHandle]
             made     == [prepared EXCEPT !.m_handle = Len(l) + 1]
             m        == NewMachine(Conn, sql)
  <2>1. r.m_cursorstate \union {"PREPARED"} = {"PREPARED"}
    BY <1>1, <1>3, Flags
  <2>2. o \in Compiled(r, l, Conn, sql)
    BY <1>3, SoundOutcome DEF RsPrepare
  <2>3. \/ o = Outcome(free, l, Throw)
        \/ o = Outcome(empty, l, Ok)
        \/ o = Outcome(made, Append(l, m), Ok)
    BY <2>1, <2>2 DEF Compiled
  <2>4. {"PREPARED"} \in CursorStates /\ r.m_cursorstate = {}
    BY <1>1, <1>3, Flags, States
  <2>5. /\ free \in Results /\ free.m_handle = 0 /\ free.m_cursorstate = {}
        /\ prepared \in Results /\ prepared.m_cursorstate = {"PREPARED"}
    BY <1>1, <2>4 DEF Results, NoHandle
  <2>7. /\ empty \in Results /\ empty.m_handle = 0 /\ empty.m_cursorstate = {"PREPARED"}
        /\ made \in Results /\ made.m_handle = Len(l) + 1
        /\ made.m_cursorstate = {"PREPARED"}
    <3>1. Len(l) + 1 \in Nat
      BY <1>1
    <3> HIDE DEF prepared, free
    <3>2. /\ empty \in Results /\ empty.m_handle = 0
          /\ empty.m_cursorstate = {"PREPARED"}
      BY <2>5 DEF Results, NoHandle
    <3>3. /\ made \in Results /\ made.m_handle = Len(l) + 1
          /\ made.m_cursorstate = {"PREPARED"}
      BY <2>5, <3>1 DEF Results
    <3>. QED  BY <3>2, <3>3
  <2>6. m \in Machines /\ m.status = "ready" /\ m.at = 0
    <3>1. <<>> \in [{} -> Values \union {Dead}]
      OBVIOUS
    <3>. QED  BY <3>1 DEF NewMachine, Machines, MachineStates, BoundMaps
  <2> HIDE DEF free, empty, made, m
  <2>8. CASE o = Outcome(free, l, Throw) \/ o = Outcome(empty, l, Ok)
    <3>1. /\ o.rs \in Results /\ o.rs.m_handle = 0 /\ o.lib = l /\ o.ret \in {Ok, Throw}
          /\ "OPEN" \notin o.rs.m_cursorstate
      BY <2>5, <2>7, <2>8 DEF Outcome
    <3>2. Unusable(o.rs) /\ Typed(o.rs, o.lib)
      BY <1>1, <3>1 DEF Unusable, IsOpen, Typed
    <3>. QED  BY <3>1, <3>2, TiedIdle DEF Sound, NoHandle, Finalized
  <2>9. CASE o = Outcome(made, Append(l, m), Ok)
    <3>1. /\ o.rs \in Results /\ o.rs.m_handle = Len(l) + 1 /\ o.lib = Append(l, m)
          /\ o.ret = Ok /\ "OPEN" \notin o.rs.m_cursorstate
      BY <2>7, <2>9 DEF Outcome
    <3>2. /\ Append(l, m) \in Seq(Machines) /\ Len(Append(l, m)) = Len(l) + 1
          /\ Append(l, m)[Len(l) + 1] = m
      BY <1>1, <2>6
    <3>3. Unusable(o.rs) /\ Typed(o.rs, o.lib)
      BY <1>1, <3>1, <3>2 DEF Unusable, IsOpen, Typed
    <3>4. ~Finalized(o.lib, o.rs.m_handle)
      BY <2>6, <3>1, <3>2 DEF Finalized
    <3>. QED  BY <2>6, <3>1, <3>2, <3>3, <3>4, TiedIdle DEF Sound
  <2>. QED  BY <2>3, <2>8, <2>9
<1>. QED  BY <1>2, <1>3

Unset(r) == \A c \in Columns : r.blobbuf[c] = "unset"

LEMMA Rewinds ==
  ASSUME NEW r, NEW l, Sound(r, l), IsPrepared(r), ~IsBad(r), Unset(r),
         NEW o \in Rewound(r, l)
  PROVE  /\ Sound(o.rs, o.lib) /\ Waiting(o.rs) /\ Unset(o.rs)
         /\ o.rs.m_handle = r.m_handle
         /\ r.m_handle # NoHandle => o.lib[r.m_handle].bound = l[r.m_handle].bound
<1> DEFINE h == r.m_handle
<1>1. r \in Results /\ l \in Seq(Machines) /\ h \in 0 .. Len(l) /\ Tied(r, l)
  BY DEF Sound, Typed
<1>2. CASE ~IsOpen(r)
  <2>1. o.rs = r /\ o.lib = l
    BY <1>2, SoundOutcome DEF Rewound
  <2>. QED  BY <1>2, <2>1 DEF Waiting, Unusable
<1>3. CASE IsOpen(r)
  <2>1. h # NoHandle /\ h \in 1 .. Len(l)
    BY <1>1, <1>3 DEF Tied, Unusable, NoHandle
  <2>2. o.rs = SetState(Invalidated(r), "PREPARED") /\ o.lib = Reset(l, h)
    BY <1>3, <2>1, SoundOutcome DEF Rewound
  <2> DEFINE q == Invalidated(r)
  <2>3. q \in Results /\ SameButBuffers(r, q) /\ Unset(q)
    BY <1>1, BufferChanges DEF Unset
  <2> HIDE DEF q
  <2>4. o.rs = [q EXCEPT !.m_cursorstate = {"PREPARED"}] /\ {"PREPARED"} \in CursorStates
    BY <2>2, <2>3, States DEF q
  <2>5. /\ o.rs \in Results /\ o.rs.m_cursorstate = {"PREPARED"}
        /\ o.rs.m_handle = h /\ o.rs.blobbuf = q.blobbuf
    BY <2>3, <2>4 DEF Results, SameButBuffers
  <2>6. Waiting(o.rs) /\ Unset(o.rs)
    BY <2>3, <2>5 DEF Waiting, IsPrepared, IsBad, IsOpen, Unusable, Unset
  <2>7. /\ o.lib \in Seq(Machines) /\ Len(o.lib) = Len(l)
        /\ o.lib[h].status = "ready" /\ o.lib[h].at = 0 /\ o.lib[h].bound = l[h].bound
    BY <1>1, <2>1, <2>2, Rewinding
  <2>8. Typed(o.rs, o.lib)
    BY <1>1, <2>5, <2>7 DEF Typed
  <2>9. Tied(o.rs, o.lib)
    BY <2>5, <2>6, <2>7, TiedIdle DEF Waiting, Finalized
  <2>. QED  BY <2>5, <2>6, <2>7, <2>8, <2>9 DEF Sound
<1>. QED  BY <1>2, <1>3

\* A prepared object and its machine stay tied when values are bound.
LEMMA StillTied ==
  ASSUME NEW r, NEW l, Sound(r, l), NEW k, k \in Seq(Machines), Len(k) = Len(l),
         r.m_handle # NoHandle =>
           /\ k[r.m_handle].status = l[r.m_handle].status
           /\ k[r.m_handle].at = l[r.m_handle].at
  PROVE  Sound(r, k)
BY DEF Sound, Typed, Tied, Finalized, Live

LEMMA BindingsLoop ==
  ASSUME NEW r, NEW l, Sound(r, l), NEW p, Bindable(p),
         r.m_handle # NoHandle => DOMAIN l[r.m_handle].bound \subseteq DOMAIN p,
         NEW o \in Bindings(r, l, p)
  PROVE  /\ o.rs = r /\ Sound(r, o.lib) /\ o = Outcome(o.rs, o.lib, o.ret)
         /\ \/ o.ret = Throw
            \/ o.ret = Ok /\ ~HasDead(o.lib, r.m_handle)
<1> DEFINE h == r.m_handle
<1>1. r \in Results /\ l \in Seq(Machines) /\ h \in 0 .. Len(l)
  BY DEF Sound, Typed
<1>2. PICK S \in SUBSET Nat : p \in [S -> Values]
  BY DEF Bindable
<1>3. ASSUME NEW n \in DOMAIN p
      PROVE  Bindable(Below(p, n))
  <2>1. Below(p, n) \in [{j \in S : j < n} -> Values]
    BY <1>2 DEF Below
  <2>. QED  BY <2>1 DEF Bindable
<1>4. CASE h = NoHandle
  <2>1. /\ o.rs = r /\ o.lib = l /\ o.ret \in {Ok, Throw}
        /\ o = Outcome(o.rs, o.lib, o.ret)
    BY <1>4 DEF Bindings, Only, Outcome
  <2>. QED  BY <1>4, <2>1 DEF HasDead
<1>5. CASE h # NoHandle
  <2>1. h \in 1 .. Len(l)
    BY <1>1, <1>5 DEF NoHandle
  <2>2. \/ \E n \in DOMAIN p : o = Outcome(r, Bind(l, h, Below(p, n)), Throw)
        \/ o = Outcome(r, Bind(l, h, p), Ok)
    BY <1>5 DEF Bindings, Only
  <2>3. ASSUME NEW n \in DOMAIN p, o = Outcome(r, Bind(l, h, Below(p, n)), Throw)
        PROVE  o.rs = r /\ Sound(r, o.lib) /\ o.ret = Throw
    <3>1. o.rs = r /\ o.lib = Bind(l, h, Below(p, n)) /\ o.ret = Throw
      BY <2>3 DEF Outcome
    <3>. QED  BY <1>1, <1>3, <2>1, <3>1, Binds, StillTied
  <2>4. ASSUME o = Outcome(r, Bind(l, h, p), Ok)
        PROVE  o.rs = r /\ Sound(r, o.lib) /\ o.ret = Ok /\ ~HasDead(o.lib, h)
    <3>1. o.rs = r /\ o.lib = Bind(l, h, p) /\ o.ret = Ok
      BY <2>4 DEF Outcome
    <3>2. /\ o.lib \in Seq(Machines) /\ Len(o.lib) = Len(l)
          /\ o.lib[h].status = l[h].status /\ o.lib[h].at = l[h].at
          /\ DOMAIN o.lib[h].bound = DOMAIN p
          /\ \A n \in DOMAIN p : o.lib[h].bound[n] = p[n]
      <4> DEFINE d == Bind(l, h, p)
      <4>1. /\ d \in Seq(Machines) /\ Len(d) = Len(l)
            /\ d[h].status = l[h].status /\ d[h].at = l[h].at
            /\ DOMAIN d[h].bound = DOMAIN l[h].bound \union DOMAIN p
            /\ \A n \in DOMAIN p : d[h].bound[n] = p[n]
        BY <1>1, <2>1, Binds
      <4> HIDE DEF d
      <4>2. DOMAIN l[h].bound \union DOMAIN p = DOMAIN p
        BY <1>5
      <4>. QED  BY <3>1, <4>1, <4>2 DEF d
    <3>3. ~HasDead(o.lib, h)
      BY <1>2, <3>2, LibraryAssumption DEF HasDead
    <3>. QED  BY <3>1, <3>2, <3>3, StillTied
  <2>5. o = Outcome(o.rs, o.lib, o.ret)
    BY <2>2 DEF Outcome
  <2>. QED  BY <2>2, <2>3, <2>4, <2>5
<1>. QED  BY <1>4, <1>5

LEMMA FirstStep ==
  ASSUME NEW r, NEW l, Sound(r, l), Waiting(r), Unset(r), NEW o \in Started(r, l)
  PROVE  /\ Sound(o.rs, o.lib) /\ o = Outcome(o.rs, o.lib, o.ret)
         /\ \/ o.ret = Ok /\ ~Unusable(o.rs) /\ o.rs.m_current_tuple = 1
            \/ o.ret = Throw /\ Unusable(o.rs)
<1> DEFINE h == r.m_handle
<1>1. r \in Results /\ l \in Seq(Machines) /\ h \in 0 .. Len(l) /\ Tied(r, l)
  BY DEF Sound, Typed
<1>2. PICK s \in Steps(l, h) :
        o = IF s.code = "ERROR"
              THEN Outcome([SetState(r, "BAD") EXCEPT !.m_last_row_status = s.code],
                           s.lib, Throw)
              ELSE Outcome([SetState(r, "POSITIONED") EXCEPT !.m_last_row_status = s.code,
                              !.m_current_tuple = 1, !.m_column_desc = 0 .. Width],
                           s.lib, Ok)
  BY DEF Started
<1>3. h = NoHandle => s.code = "ERROR" /\ s.lib = l
  BY DEF Steps
<1>4. h # NoHandle =>
        /\ l[h].at = 0 /\ h \in 1 .. Len(l)
        /\ s.lib \in Seq(Machines) /\ Len(s.lib) = Len(l)
        /\ \/ s.code = "ROW" /\ s.lib[h].status = "row" /\ s.lib[h].at = l[h].at + 1
           \/ s.code = "DONE" /\ s.lib[h].status = "done"
           \/ s.code = "ERROR" /\ s.lib[h].status = "failed"
  <2>1. SUFFICES ASSUME h # NoHandle
                 PROVE  <1>4!2
    OBVIOUS
  <2>2. l[h].status = "ready" /\ l[h].at = 0 /\ h \in 1 .. Len(l)
    BY <1>1, <2>1 DEF Tied, NoHandle
  <2>. QED  BY <1>1, <2>2, Stepping
<1>5. CASE s.code = "ERROR"
  <2> DEFINE q == SetState(r, "BAD")
  <2>1. q = [r EXCEPT !.m_cursorstate = r.m_cursorstate \union {"BAD"}]
    BY <1>1, States
  <2>2. q \in Results /\ q.m_handle = h /\ IsBad(q)
    BY <1>1, <2>1, States DEF Results, IsBad
  <2>3. o = Outcome([q EXCEPT !.m_last_row_status = "ERROR"], s.lib, Throw)
    BY <1>2, <1>5
  <2> HIDE DEF q
  <2>4. /\ o.rs \in Results /\ o.rs.m_handle = h /\ IsBad(o.rs)
        /\ o.lib = s.lib /\ o.ret = Throw
    BY <2>2, <2>3 DEF Outcome, Results, Codes, IsBad
  <2>5. Typed(o.rs, o.lib)
    BY <1>1, <1>3, <1>4, <2>4 DEF Typed
  <2>6. ~Finalized(o.lib, h)
    BY <1>4, <1>5, <2>4 DEF Finalized
  <2>7. Tied(o.rs, o.lib)
    BY <2>4, <2>6, TiedIdle DEF Unusable, Waiting
  <2>. QED  BY <2>3, <2>4, <2>5, <2>7 DEF Sound, Unusable, Outcome
<1>6. CASE s.code # "ERROR"
  <2> DEFINE q == SetState(r, "POSITIONED")
             y == [q EXCEPT !.m_last_row_status = s.code]
             z == [y EXCEPT !.m_current_tuple = 1]
             x == [z EXCEPT !.m_column_desc = 0 .. Width]
  <2>1. q = [r EXCEPT !.m_cursorstate = {"PREPARED", "OPEN", "POSITIONED"}]
    BY <1>1, States
  <2>2. /\ q \in Results /\ q.m_handle = h /\ q.blobbuf = r.blobbuf
        /\ q.m_cursorstate = {"PREPARED", "OPEN", "POSITIONED"}
    BY <1>1, <2>1, States DEF Results
  <2>3. o = Outcome(x, s.lib, Ok)
    BY <1>2, <1>6
  <2>4. s.code \in Codes /\ 0 .. Width \in SUBSET Nat
    BY <1>3, <1>4, <1>6, WidthAssumption DEF Codes
  <2> HIDE DEF q
  <2>5. /\ x \in Results /\ x.m_handle = h /\ x.blobbuf = r.blobbuf
        /\ x.m_cursorstate = {"PREPARED", "OPEN", "POSITIONED"}
        /\ x.m_last_row_status = s.code /\ x.m_current_tuple = 1
    <3>1. /\ y \in Results /\ y.m_handle = h /\ y.blobbuf = r.blobbuf
          /\ y.m_cursorstate = {"PREPARED", "OPEN", "POSITIONED"}
          /\ y.m_last_row_status = s.code
      BY <2>2, <2>4 DEF Results
    <3> HIDE DEF y
    <3>2. /\ z \in Results /\ z.m_handle = h /\ z.blobbuf = r.blobbuf
          /\ z.m_cursorstate = {"PREPARED", "OPEN", "POSITIONED"}
          /\ z.m_last_row_status = s.code /\ z.m_current_tuple = 1
      BY <3>1 DEF Results
    <3> HIDE DEF z
    <3>. QED  BY <2>4, <3>2 DEF Results
  <2>6. ~Unusable(x) /\ (IsEof(x) <=> s.code # "ROW") /\ ~Waiting(x)
    BY <2>5 DEF Unusable, IsBad, IsOpen, IsEof, Waiting
  <2>7. o.rs = x /\ o.lib = s.lib /\ o.ret = Ok
    BY <2>3 DEF Outcome
  <2>8. h # NoHandle
    BY <1>3, <1>6
  <2>9. Typed(x, s.lib)
    BY <1>1, <1>4, <2>5, <2>8 DEF Typed
  <2>10. Tied(x, s.lib)
    BY <1>4, <1>6, <2>5, <2>6, <2>8 DEF Tied, Live, Finalized, Unset
  <2>. QED  BY <2>3, <2>5, <2>6, <2>7, <2>9, <2>10 DEF Sound
<1>. QED  BY <1>5, <1>6

LEMMA Returning ==
  ASSUME NEW r, NEW l, NEW x, Sound(r, l)
  PROVE  LET o == Returned(Outcome(r, l, x))
         IN  Sound(o.rs, o.lib) /\ o.rs = r /\ o.ret = x
<1> DEFINE h == r.m_handle
<1>1. r \in Results /\ l \in Seq(Machines) /\ h \in 0 .. Len(l)
  BY DEF Sound, Typed
<1>2. CASE h = NoHandle
  BY <1>2 DEF Returned, Outcome
<1>3. CASE h # NoHandle
  <2>1. Returned(Outcome(r, l, x)) = Outcome(r, FreeBlobs(l, h), x)
    BY <1>3 DEF Returned, Outcome
  <2>2. h \in 1 .. Len(l)
    BY <1>1, <1>3 DEF NoHandle
  <2>3. Sound(r, FreeBlobs(l, h))
    BY <1>1, <2>2, Freeing, StillTied
  <2>. QED  BY <2>1, <2>3 DEF Outcome
<1>. QED  BY <1>2, <1>3

LEMMA ExecuteMethod ==
  ASSUME NEW r, NEW l, Sound(r, l), Unset(r), NEW p, Bindable(p),
         r.m_handle # NoHandle => DOMAIN l[r.m_handle].bound \subseteq DOMAIN p,
         NEW o \in RsExecute(r, l, p)
  PROVE  /\ Sound(o.rs, o.lib)
         /\ \/ o.ret = Ok /\ ~Unusable(o.rs) /\ o.rs.m_current_tuple = 1
            \/ o.ret = Throw /\ Unusable(o.rs)
<1>1. CASE IsBad(r) \/ ~IsPrepared(r)
  <2>1. o.rs = r /\ o.lib = l /\ o.ret = Throw
    BY <1>1, SoundOutcome DEF RsExecute
  <2>. QED  BY <1>1, <2>1, Flags DEF Unusable, Sound, Typed
<1>2. CASE ~IsBad(r) /\ IsPrepared(r)
  <2>1. ~Finalized(l, r.m_handle)
    BY DEF Sound, Tied
  <2>2. PICK d : /\ o = Returned(d)
                 /\ d \in UNION {IF b.ret = Ok
                                   THEN Started(b.rs, b.lib) \union FreedRead(b.rs, b.lib)
                                   ELSE {b} :
                      b \in UNION {Bindings(q.rs, q.lib, p) : q \in Rewound(r, l)}}
    BY <1>2, <2>1 DEF RsExecute
  <2>6. PICK b : /\ d \in IF b.ret = Ok
                            THEN Started(b.rs, b.lib) \union FreedRead(b.rs, b.lib)
                            ELSE {b}
                 /\ b \in UNION {Bindings(q.rs, q.lib, p) : q \in Rewound(r, l)}
    BY <2>2
  <2>7. PICK q \in Rewound(r, l) : b \in Bindings(q.rs, q.lib, p)
    BY <2>6
  <2>3. /\ Sound(q.rs, q.lib) /\ Waiting(q.rs) /\ Unset(q.rs)
        /\ q.rs.m_handle # NoHandle =>
             DOMAIN q.lib[q.rs.m_handle].bound \subseteq DOMAIN p
    BY <1>2, Rewinds
  <2>4. /\ b.rs = q.rs /\ Sound(b.rs, b.lib) /\ b = Outcome(b.rs, b.lib, b.ret)
        /\ \/ b.ret = Throw
           \/ b.ret = Ok /\ ~HasDead(b.lib, b.rs.m_handle)
    BY <2>3, <2>7, BindingsLoop
  <2>5. /\ Sound(d.rs, d.lib) /\ d = Outcome(d.rs, d.lib, d.ret)
        /\ \/ d.ret = Ok /\ ~Unusable(d.rs) /\ d.rs.m_current_tuple = 1
           \/ d.ret = Throw /\ Unusable(d.rs)
    <3>1. CASE b.ret = Ok
      <4>1. d \in Started(b.rs, b.lib)
        BY <2>4, <2>6, <3>1 DEF FreedRead, Ok, Throw
      <4>. QED  BY <2>3, <2>4, <4>1, FirstStep
    <3>2. CASE b.ret # Ok
      BY <2>3, <2>4, <2>6, <3>2 DEF Waiting
    <3>. QED  BY <3>1, <3>2
  <2>. QED  BY <2>2, <2>5, Returning
<1>. QED  BY <1>1, <1>2

LEMMA NextMethod ==
  ASSUME NEW r, NEW l, Sound(r, l), Live(r), ~HasDead(l, r.m_handle),
         NEW o \in RsNext(r, l)
  PROVE  /\ Sound(o.rs, o.lib) /\ ~Unusable(o.rs)
         /\ \/ /\ o.ret = Yes /\ ~IsEof(o.rs)
               /\ o.rs.m_current_tuple = r.m_current_tuple + 1
            \/ /\ o.ret \in {No, Throw} /\ IsEof(o.rs)
               /\ o.rs.m_current_tuple = r.m_current_tuple
<1> DEFINE h == r.m_handle
<1>1. /\ r \in Results /\ l \in Seq(Machines) /\ h \in 0 .. Len(l)
      /\ ~Unusable(r) /\ ~IsEof(r) /\ ~Finalized(l, h) /\ h # NoHandle
      /\ l[h].status = "row" /\ r.m_current_tuple = l[h].at /\ r.m_current_tuple >= 1
  BY DEF Sound, Typed, Tied, Live
<1>2. h \in 1 .. Len(l)
  BY <1>1 DEF NoHandle
<1>3. PICK s \in Steps(l, h) :
        o = Outcome([Moved(r, s.code) EXCEPT !.m_last_row_status = s.code], s.lib,
                    IF s.code = "ERROR" THEN Throw ELSE Bool(s.code = "ROW"))
  BY <1>1 DEF RsNext, FreedRead
<1>4. /\ s.lib \in Seq(Machines) /\ Len(s.lib) = Len(l)
      /\ \/ s.code = "ROW" /\ s.lib[h].status = "row" /\ s.lib[h].at = l[h].at + 1
         \/ s.code = "DONE" /\ s.lib[h].status = "done"
         \/ s.code = "ERROR" /\ s.lib[h].status = "failed"
  BY <1>1, <1>2, Stepping
<1>5. CASE s.code = "ROW"
  <2> DEFINE q == Refreshed(r)
             k == q.m_current_tuple + 1
             y == [q EXCEPT !.m_current_tuple = k]
             x == [y EXCEPT !.m_last_row_status = "ROW"]
  <2>1. /\ q \in Results /\ SameButBuffers(r, q)
        /\ \A c \in Columns : q.blobbuf[c] # "stale"
    BY <1>1, BufferChanges
  <2>2. Moved(r, s.code) = y
    BY <1>5 DEF Moved
  <2>3. o = Outcome(x, s.lib, Yes)
    BY <1>3, <1>5, <2>2 DEF Bool
  <2> HIDE DEF q
  <2>4. k \in Int /\ k = r.m_current_tuple + 1
    BY <2>1 DEF Results, SameButBuffers
  <2> HIDE DEF k
  <2>5. /\ y \in Results /\ y.m_handle = h /\ y.m_cursorstate = r.m_cursorstate
        /\ y.m_current_tuple = r.m_current_tuple + 1 /\ y.blobbuf = q.blobbuf
    BY <2>1, <2>4 DEF Results, SameButBuffers
  <2> HIDE DEF y
  <2>6. /\ x \in Results /\ x.m_handle = h /\ x.m_cursorstate = r.m_cursorstate
        /\ x.m_current_tuple = r.m_current_tuple + 1 /\ x.blobbuf = q.blobbuf
        /\ x.m_last_row_status = "ROW"
    BY <2>5 DEF Results, Codes
  <2> HIDE DEF x
  <2>7. ~Unusable(x) /\ ~IsEof(x) /\ ~Waiting(x)
    BY <1>1, <2>6 DEF Unusable, IsBad, IsOpen, IsEof, Waiting
  <2>8. Typed(x, s.lib)
    BY <1>1, <1>4, <2>6 DEF Typed
  <2>9. Tied(x, s.lib)
    <3>1. r.m_current_tuple \in Int
      BY <1>1 DEF Results
    <3>2. x.m_current_tuple >= 1 /\ x.m_current_tuple = s.lib[h].at
      BY <1>1, <1>4, <1>5, <2>6, <3>1
    <3>3. s.lib[h].status = "row" /\ h # NoHandle
      BY <1>1, <1>4, <1>5
    <3>. QED  BY <2>1, <2>6, <2>7, <3>2, <3>3 DEF Tied, Live, Finalized
  <2>10. o.rs = x /\ o.lib = s.lib /\ o.ret = Yes
    BY <2>3 DEF Outcome
  <2>. QED  BY <2>6, <2>7, <2>8, <2>9, <2>10 DEF Sound
<1>6. CASE s.code # "ROW"
  <2> DEFINE q == Invalidated(r)
             x == [q EXCEPT !.m_last_row_status = s.code]
  <2>1. q \in Results /\ SameButBuffers(r, q)
    BY <1>1, BufferChanges
  <2>2. Moved(r, s.code) = q
    BY <1>6 DEF Moved
  <2>3. o = Outcome(x, s.lib, IF s.code = "ERROR" THEN Throw ELSE No)
    BY <1>3, <1>6, <2>2 DEF Bool
  <2> HIDE DEF q
  <2>4. /\ x \in Results /\ x.m_handle = h /\ x.m_cursorstate = r.m_cursorstate
        /\ x.m_current_tuple = r.m_current_tuple /\ x.m_last_row_status = s.code
    BY <1>4, <2>1 DEF Results, Codes, SameButBuffers
  <2> HIDE DEF x
  <2>5. ~Unusable(x) /\ IsEof(x) /\ ~Waiting(x)
    BY <1>1, <1>6, <2>4 DEF Unusable, IsBad, IsOpen, IsEof, Waiting
  <2>6. Typed(x, s.lib)
    BY <1>1, <1>4, <2>4 DEF Typed
  <2>7. Tied(x, s.lib)
    BY <1>1, <1>4, <1>6, <2>4, <2>5 DEF Tied, Live, Finalized
  <2>8. o.rs = x /\ o.lib = s.lib /\ o.ret \in {No, Throw}
    BY <2>3 DEF Outcome
  <2>. QED  BY <2>4, <2>5, <2>6, <2>7, <2>8 DEF Sound
<1>. QED  BY <1>5, <1>6

\* A machine on a row: what is asked of it is answered with that row.
LEMMA OnItsRow ==
  ASSUME NEW r, NEW l, Sound(r, l), Live(r)
  PROVE  /\ ~Unusable(r) /\ ~Finalized(l, r.m_handle) /\ OnRow(l, r.m_handle)
         /\ ThisRow(r, l) = Value(r.m_current_tuple)
BY DEF Sound, Tied, Live, OnRow, ThisRow

LEMMA ReadingMethod ==
  ASSUME NEW r, NEW l, Sound(r, l), Live(r), NEW num, num \in 1 .. Width + 1, NEW G,
         NEW o \in Reading(r, l, num, G)
  PROVE  (o.rs = r /\ o.lib = l /\ o.ret = Throw) \/ o \in G
<1>1. num # 0
  BY WidthAssumption
<1>2. o \in Only(r, l, Throw) \/ o \in G
  BY <1>1, OnItsRow DEF Reading
<1>. QED  BY <1>2, SoundOutcome

LEMMA ColumnMethod ==
  ASSUME NEW r, NEW l, Sound(r, l), Live(r), NEW num, num \in 1 .. Width + 1,
         NEW o \in RsColumn(r, l, num)
  PROVE  o.rs = r /\ o.lib = l /\ o.ret \in {Throw, Value(r.m_current_tuple)}
<1>1. \/ o.rs = r /\ o.lib = l /\ o.ret = Throw
      \/ o \in Only(r, l, ThisRow(r, l))
  BY ReadingMethod, OnItsRow DEF RsColumn
<1>. QED  BY <1>1, SoundOutcome, OnItsRow

LEMMA GetBlobMethod ==
  ASSUME NEW r, NEW l, Sound(r, l), Live(r), NEW num, num \in 1 .. Width + 1,
         NEW o \in RsGetBlob(r, l, num)
  PROVE  /\ Sound(o.rs, o.lib) /\ SameButBuffers(r, o.rs) /\ o.lib = l
         /\ o.ret \in {Throw, Value(r.m_current_tuple), NoBytes}
<1>1. \/ o.rs = r /\ o.lib = l /\ o.ret = Throw
      \/ num \in Columns /\ o \in Filled(r, l, num)
  BY ReadingMethod, OnItsRow DEF RsGetBlob
<1>2. CASE o.rs = r /\ o.lib = l /\ o.ret = Throw
  BY <1>2 DEF SameButBuffers
<1>3. CASE num \in Columns /\ o \in Filled(r, l, num)
  <2>1. r \in Results /\ r.blobbuf \in [Columns -> Buffers] /\ r.blobbuf[num] # "stale"
    BY <1>3 DEF Sound, Typed, Tied, Live, Results
  <2> DEFINE full  == [r EXCEPT !.blobbuf[num] = "current"]
             empty == [r EXCEPT !.blobbuf[num] = "null"]
  <2>2. \/ o = Outcome(full, l, Value(r.m_current_tuple))
        \/ o = Outcome(empty, l, NoBytes)
        \/ o = Outcome(r, l, Value(r.m_current_tuple))
    BY <1>3, <2>1, OnItsRow DEF Filled, Only, Buffers
  <2>3. ASSUME NEW b \in {"current", "null"}, NEW q, q = [r EXCEPT !.blobbuf[num] = b]
        PROVE  Sound(q, l) /\ SameButBuffers(r, q)
    <3> DEFINE bufs == [r.blobbuf EXCEPT ![num] = b]
    <3>1. bufs \in [Columns -> Buffers]
      BY <1>3, <2>1 DEF Buffers
    <3>2. \A c \in Columns : bufs[c] = IF c = num THEN b ELSE r.blobbuf[c]
      BY <2>1
    <3>3. q = [r EXCEPT !.blobbuf = bufs]
      BY <2>3
    <3> HIDE DEF bufs
    <3>4. q \in Results /\ SameButBuffers(r, q) /\ q.blobbuf = bufs
      BY <2>1, <3>1, <3>3 DEF Results, SameButBuffers
    <3>5. /\ Unusable(q) <=> Unusable(r)
          /\ IsEof(q) <=> IsEof(r)
          /\ Waiting(q) <=> Waiting(r)
      BY <3>4 DEF SameButBuffers, Unusable, IsBad, IsOpen, IsEof, Waiting, IsPrepared
    <3>6. Typed(q, l)
      BY <3>4 DEF Sound, Typed, SameButBuffers
    <3>7. \A c \in Columns : q.blobbuf[c] # "stale"
      BY <3>2, <3>4 DEF Sound, Tied, Live
    <3>8. Tied(q, l)
      BY <3>4, <3>5, <3>7 DEF Sound, Tied, Live, SameButBuffers
    <3>. QED  BY <3>4, <3>6, <3>8 DEF Sound
  <2> HIDE DEF full, empty
  <2>4. Sound(full, l) /\ SameButBuffers(r, full)
    BY <2>3 DEF full
  <2>5. Sound(empty, l) /\ SameButBuffers(r, empty)
    BY <2>3 DEF empty
  <2>. QED  BY <2>2, <2>4, <2>5 DEF Outcome, SameButBuffers
<1>. QED  BY <1>1, <1>2, <1>3

-----------------------------------------------------------------------------
(* The calls: each keeps the invariant and is a step of the dataset        *)

PosOf(r)   == IF Unusable(r) THEN 0 ELSE r.m_current_tuple
EndedOf(r) == ~Unusable(r) /\ IsEof(r)

LEMMA Fine ==
  /\ GoesOn(None) /\ GoesOn(Ok) /\ GoesOn(Yes) /\ GoesOn(No) /\ GoesOn(Throw)
  /\ GoesOn(NoBytes) /\ \A v : GoesOn(Value(v))
BY DEF GoesOn, None, Ok, Yes, No, Throw, Value, NoBytes, Abort, Undefined

\* The dataset answers with the same words.
LEMMA Words ==
  /\ Dataset!Ok = Ok /\ Dataset!Yes = Yes /\ Dataset!No = No /\ Dataset!Throw = Throw
  /\ Dataset!None = None
  /\ \A b : Dataset!Bool(b) = Bool(b)
  /\ \A v : Dataset!Value(v) = Value(v)
BY DEF None, Ok, Yes, No, Throw, Bool, Value, Dataset!None,
       Dataset!Ok, Dataset!Yes, Dataset!No, Dataset!Throw, Dataset!Bool, Dataset!Value

\* A call on an object that stays: its outcome gives the next state.
LEMMA Outcomes ==
  ASSUME NEW o, NEW S, Alive(o, S)
  PROVE  /\ ~gone /\ gone' = gone /\ op' = o
         /\ \E out \in S : rs' = out.rs /\ lib' = out.lib /\ ret' = out.ret
         /\ position = PosOf(rs) /\ position' = PosOf(rs')
         /\ atEnd = EndedOf(rs) /\ atEnd' = EndedOf(rs')
BY DEF Alive, Call, position, atEnd, PosOf, EndedOf

LEMMA Here ==
  ASSUME ProtocolInv, ~gone
  PROVE  /\ Sound(rs, lib) /\ (PosOf(rs) = 0 <=> Unusable(rs)) /\ PosOf(rs) \in Nat
         /\ OnLiveRow <=> Live(rs)
         /\ Live(rs) <=> PosOf(rs) > 0 /\ ~EndedOf(rs)
         /\ ~Unusable(rs) => PosOf(rs) = rs.m_current_tuple /\ PosOf(rs) > 0
<1>1. Sound(rs, lib) /\ rs.m_current_tuple \in Int
  BY DEF ProtocolInv, Sound, Typed, Results
<1>2. ~Unusable(rs) => rs.m_current_tuple >= 1
  BY <1>1 DEF Sound, Tied
<1>. QED  BY <1>1, <1>2 DEF OnLiveRow, Live, PosOf, EndedOf

LEMMA Kept ==
  ASSUME ProtocolInv, ~gone, gone' = gone, Sound(rs', lib'), GoesOn(ret')
  PROVE  ProtocolInv'
BY DEF ProtocolInv, Sound, Running

\* A call that changes nothing and answers.
LEMMA QuietStep ==
  ASSUME ProtocolInv, NEW o, NEW S, Alive(o, S), NEW x, GoesOn(x),
         \A out \in S : out.rs = rs /\ out.lib = lib /\ out.ret = x
  PROVE  /\ ProtocolInv' /\ ret' = x /\ op' = o
         /\ position' = position /\ atEnd' = atEnd
<1>1. rs' = rs /\ lib' = lib /\ ret' = x /\ op' = o /\ ~gone /\ gone' = gone
  BY Outcomes
<1>2. position' = position /\ atEnd' = atEnd
  BY <1>1 DEF position, atEnd
<1>. QED  BY <1>1, <1>2, Here, Kept

LEMMA PrepareStep ==
  ASSUME ProtocolInv, ~IsPrepared(rs), NEW sql \in Queries, prepare(sql)
  PROVE  ProtocolInv' /\ Dataset!Ask
<1>1. PICK c \in BOOLEAN : Alive(<<"prepare">>, RsPrepare(rs, lib, Conn, c, sql))
  BY DEF prepare
<1>2. PICK o \in RsPrepare(rs, lib, Conn, c, sql) :
        rs' = o.rs /\ lib' = o.lib /\ ret' = o.ret
  BY <1>1, Outcomes
<1>3. ~gone /\ gone' = gone /\ op' = <<"prepare">>
  BY <1>1, Outcomes
<1>4. Sound(rs', lib') /\ Unusable(rs') /\ ret' \in {Ok, Throw}
  BY <1>2, <1>3, Here, PrepareMethod
<1>5. ProtocolInv'
  BY <1>3, <1>4, Fine, Kept
<1>6. Unusable(rs)
  BY <1>3, Here, Flags DEF Sound, Typed
<1>7. position' = position /\ atEnd' = atEnd
  BY <1>1, <1>4, <1>6, Outcomes DEF PosOf, EndedOf
<1>. QED  BY <1>3, <1>5, <1>7 DEF Dataset!Ask

LEMMA ParamsBindable == \A p \in Params : Bindable(p)
BY LibraryAssumption DEF Params, Bindable

LEMMA ExecuteStep ==
  ASSUME ProtocolInv, \A c \in Columns : rs.blobbuf[c] = "unset",
         NEW p \in Params, Grown(p), execute(p)
  PROVE  ProtocolInv' /\ Dataset!Execute
<1>1. PICK o \in RsExecute(rs, lib, p) : rs' = o.rs /\ lib' = o.lib /\ ret' = o.ret
  BY Outcomes DEF execute
<1>2. /\ ~gone /\ gone' = gone /\ op' = <<"execute">>
      /\ position' = PosOf(rs') /\ atEnd' = EndedOf(rs')
  BY Outcomes DEF execute
<1>3. /\ Sound(rs', lib')
      /\ \/ ret' = Ok /\ ~Unusable(rs') /\ rs'.m_current_tuple = 1
         \/ ret' = Throw /\ Unusable(rs')
  BY <1>1, <1>2, Here, ExecuteMethod, ParamsBindable DEF Grown, Unset
<1>4. ProtocolInv'
  BY <1>2, <1>3, Fine, Kept
<1>5. Dataset!Execute
  BY <1>2, <1>3, Words DEF Dataset!Execute, PosOf, EndedOf
<1>. QED  BY <1>4, <1>5

LEMMA NextStep ==
  ASSUME ProtocolInv, CanMove, next
  PROVE  ProtocolInv' /\ Dataset!Next
<1>1. PICK o \in RsNext(rs, lib) : rs' = o.rs /\ lib' = o.lib /\ ret' = o.ret
  BY Outcomes DEF next
<1>2. /\ ~gone /\ gone' = gone /\ op' = <<"next">>
      /\ position = PosOf(rs) /\ position' = PosOf(rs')
      /\ atEnd = EndedOf(rs) /\ atEnd' = EndedOf(rs')
  BY Outcomes DEF next
<1>3. /\ Sound(rs', lib') /\ ~Unusable(rs')
      /\ \/ /\ ret' = Yes /\ ~IsEof(rs')
            /\ rs'.m_current_tuple = rs.m_current_tuple + 1
         \/ /\ ret' \in {No, Throw} /\ IsEof(rs')
            /\ rs'.m_current_tuple = rs.m_current_tuple
  BY <1>1, <1>2, Here, NextMethod DEF CanMove
<1>4. ProtocolInv'
  BY <1>2, <1>3, Fine, Kept
<1>5. Dataset!OnRow /\ position = rs.m_current_tuple
  BY <1>2, Here DEF Dataset!OnRow, CanMove, Live
<1>6. Dataset!Next
  BY <1>2, <1>3, <1>5, Words DEF Dataset!Next, PosOf, EndedOf
<1>. QED  BY <1>4, <1>6

LEMMA FirstCall ==
  ASSUME ProtocolInv, first
  PROVE  ProtocolInv' /\ Dataset!First
<1> DEFINE x == IF Unusable(rs) \/ rs.m_current_tuple # 1 THEN Throw ELSE Ok
<1>1. Alive(<<"first">>, Only(rs, lib, x))
  BY DEF first, RsFirst
<1>2. GoesOn(x)
  BY Fine
<1>3. x = IF position = 1 THEN Ok ELSE Throw
  BY <1>1, Outcomes, Here DEF PosOf
<1> HIDE DEF x
<1>4. /\ ProtocolInv' /\ ret' = x /\ op' = <<"first">>
      /\ position' = position /\ atEnd' = atEnd
  BY <1>1, <1>2, QuietStep, SoundOutcome
<1>. QED  BY <1>3, <1>4, Words DEF Dataset!First, Dataset!Answer

LEMMA EofCall ==
  ASSUME ProtocolInv, eof
  PROVE  ProtocolInv' /\ Dataset!Eof
<1> DEFINE x == IF Unusable(rs) THEN Throw ELSE Bool(IsEof(rs))
<1>1. Alive(<<"eof">>, Only(rs, lib, x))
  BY DEF eof, RsEof
<1>2. GoesOn(x)
  BY Fine DEF Bool
<1>3. /\ position = 0 => x = Throw
      /\ position # 0 => position > 0 /\ x = Bool(atEnd)
  <2>1. /\ position = PosOf(rs) /\ ~gone
        /\ PosOf(rs) = 0 <=> Unusable(rs)
        /\ PosOf(rs) \in Nat
    BY <1>1, Outcomes, Here
  <2>. QED  BY <2>1 DEF atEnd, Bool
<1> HIDE DEF x
<1>4. /\ ProtocolInv' /\ ret' = x /\ op' = <<"eof">>
      /\ position' = position /\ atEnd' = atEnd
  BY <1>1, <1>2, QuietStep, SoundOutcome
<1>. QED
  BY <1>3, <1>4, Words DEF Dataset!Eof, Dataset!Answer, Dataset!Bool, Bool

LEMMA RowIDCall ==
  ASSUME ProtocolInv, getCurrentRowID
  PROVE  ProtocolInv' /\ Dataset!RowID
<1> DEFINE x == IF Unusable(rs) THEN Throw ELSE Value(rs.m_current_tuple)
<1>1. Alive(<<"getCurrentRowID">>, Only(rs, lib, x))
  BY DEF getCurrentRowID, RsRowID
<1>2. GoesOn(x)
  BY Fine
<1>3. /\ position = 0 => x = Throw
      /\ position # 0 => position > 0 /\ x = Value(position)
  BY <1>1, Outcomes, Here DEF PosOf
<1> HIDE DEF x
<1>4. /\ ProtocolInv' /\ ret' = x /\ op' = <<"getCurrentRowID">>
      /\ position' = position /\ atEnd' = atEnd
  BY <1>1, <1>2, QuietStep, SoundOutcome
<1>. QED  BY <1>3, <1>4, Words DEF Dataset!RowID, Dataset!Answer

\* The calls that are not about rows look at the object or at its machine,
\* which was not finalized.
LEMMA AskCall ==
  ASSUME ProtocolInv,
         paramCount \/ lastInsertRowId
           \/ \E num \in ColumnNumbers : columnID(num) \/ describeColumn(num)
  PROVE  ProtocolInv' /\ Dataset!Ask
<1> DEFINE Asked == {<<"prepare">>, <<"columnID">>, <<"describeColumn">>, <<"paramCount">>,
                     <<"lastInsertRowId">>}
<1>1. ASSUME NEW o \in Asked, NEW x, GoesOn(x), Alive(o, Only(rs, lib, x))
      PROVE  ProtocolInv' /\ Dataset!Ask
  <2>1. /\ ProtocolInv' /\ op' = o
        /\ position' = position /\ atEnd' = atEnd
    BY <1>1, QuietStep, SoundOutcome
  <2>. QED  BY <2>1 DEF Dataset!Ask
<1>2. ~gone
  BY DEF paramCount, lastInsertRowId, columnID, describeColumn, Alive, Call
<1>3. ~Finalized(lib, rs.m_handle)
  BY <1>2, Here DEF Sound, Tied
<1>4. CASE paramCount
  <2> DEFINE x == IF IsBad(rs) \/ ~IsPrepared(rs) THEN Throw
                  ELSE Value(IF rs.m_handle = NoHandle THEN 0
                             ELSE ParamCount[lib[rs.m_handle].sql])
  <2>1. Alive(<<"paramCount">>, Only(rs, lib, x))
    BY <1>3, <1>4 DEF paramCount, RsParamCount
  <2>2. GoesOn(x)
    BY Fine
  <2> HIDE DEF x
  <2>. QED  BY <1>1, <2>1, <2>2
<1>5. CASE lastInsertRowId
  <2> DEFINE x == IF IsBad(rs) \/ ~IsPrepared(rs) THEN Throw ELSE Ok
  <2>1. Alive(<<"lastInsertRowId">>, Only(rs, lib, x))
    BY <1>5 DEF lastInsertRowId, RsLastInsertRowId
  <2>2. GoesOn(x)
    BY Fine
  <2> HIDE DEF x
  <2>. QED  BY <1>1, <2>1, <2>2
<1>6. ASSUME NEW num \in ColumnNumbers, columnID(num)
      PROVE  ProtocolInv' /\ Dataset!Ask
  BY <1>1, <1>3, <1>6, Fine DEF columnID, RsColumnID
<1>7. ASSUME NEW num \in ColumnNumbers, describeColumn(num)
      PROVE  ProtocolInv' /\ Dataset!Ask
  BY <1>1, <1>7, Fine DEF describeColumn, RsDescribeColumn
<1>. QED  BY <1>4, <1>5, <1>6, <1>7

LEMMA ColumnCall ==
  ASSUME ProtocolInv, OnLiveRow, NEW num, num \in 1 .. Width + 1, column(num)
  PROVE  ProtocolInv' /\ Dataset!Read(num)
<1>1. PICK o \in RsColumn(rs, lib, num) : rs' = o.rs /\ lib' = o.lib /\ ret' = o.ret
  BY Outcomes DEF column
<1>2. /\ ~gone /\ gone' = gone /\ op' = <<"column", num>> /\ position = PosOf(rs)
      /\ atEnd = EndedOf(rs) /\ position' = PosOf(rs') /\ atEnd' = EndedOf(rs')
  BY Outcomes DEF column
<1>3. Sound(rs, lib) /\ Live(rs) /\ PosOf(rs) > 0 /\ PosOf(rs) = rs.m_current_tuple
  BY <1>2, Here DEF Live
<1>4. rs' = rs /\ lib' = lib /\ ret' \in {Throw, Value(rs.m_current_tuple)}
  BY <1>1, <1>3, ColumnMethod
<1>5. ProtocolInv'
  BY <1>2, <1>3, <1>4, Fine, Kept
<1>6. Dataset!OnRow
  BY <1>2, <1>3 DEF Dataset!OnRow, EndedOf, Live
<1>7. position' = position /\ atEnd' = atEnd
  BY <1>2, <1>4
<1>8. Dataset!Read(num)
  BY <1>2, <1>3, <1>4, <1>6, <1>7, Words DEF Dataset!Read, Dataset!Answer
<1>. QED  BY <1>5, <1>8

LEMMA GetBlobCall ==
  ASSUME ProtocolInv, OnLiveRow, NEW num, num \in 1 .. Width + 1, getBlob(num)
  PROVE  ProtocolInv' /\ Dataset!Read(num)
<1>1. PICK o \in RsGetBlob(rs, lib, num) : rs' = o.rs /\ lib' = o.lib /\ ret' = o.ret
  BY Outcomes DEF getBlob
<1>2. /\ ~gone /\ gone' = gone /\ op' = <<"getBlob", num>> /\ position = PosOf(rs)
      /\ atEnd = EndedOf(rs) /\ position' = PosOf(rs') /\ atEnd' = EndedOf(rs')
  BY Outcomes DEF getBlob
<1>3. Sound(rs, lib) /\ Live(rs) /\ PosOf(rs) > 0 /\ PosOf(rs) = rs.m_current_tuple
  BY <1>2, Here DEF Live
<1>4. /\ Sound(rs', lib') /\ SameButBuffers(rs, rs')
      /\ ret' \in {Throw, Value(rs.m_current_tuple), NoBytes}
  BY <1>1, <1>3, GetBlobMethod
<1>5. ProtocolInv'
  BY <1>2, <1>4, Fine, Kept
<1>6. Dataset!OnRow
  BY <1>2, <1>3 DEF Dataset!OnRow, EndedOf, Live
<1>7. position' = position /\ atEnd' = atEnd
  BY <1>2, <1>4
  DEF PosOf, EndedOf, SameButBuffers, Unusable, IsBad, IsOpen, IsEof
<1>8. Dataset!Read(num)
  BY <1>2, <1>3, <1>4, <1>6, <1>7, Words DEF Dataset!Read, Dataset!Answer, NoBytes
<1>. QED  BY <1>5, <1>8

LEMMA ReadBufferCall ==
  ASSUME ProtocolInv, OnLiveRow, NEW num \in Columns, readBuffer(num)
  PROVE  ProtocolInv' /\ Dataset!Read(num)
<1>1. PICK o \in RsReadBuffer(rs, lib, num) : rs' = o.rs /\ lib' = o.lib /\ ret' = o.ret
  BY Outcomes DEF readBuffer
<1>2. /\ ~gone /\ gone' = gone /\ op' = <<"readBuffer", num>> /\ position = PosOf(rs)
      /\ atEnd = EndedOf(rs)
  BY Outcomes DEF readBuffer
<1>3. Sound(rs, lib) /\ Live(rs) /\ PosOf(rs) > 0 /\ PosOf(rs) = rs.m_current_tuple
  BY <1>2, Here DEF Live
<1>4. rs.blobbuf[num] \in {"null", "current"}
  <2>1. rs.blobbuf \in [Columns -> Buffers] /\ rs.blobbuf[num] # "unset"
    BY <1>3 DEF Sound, Typed, Results, readBuffer
  <2>. QED  BY <1>3, <2>1 DEF Sound, Tied, Buffers
<1>5. rs' = rs /\ lib' = lib /\ ret' \in {Value(rs.m_current_tuple), NoBytes}
  BY <1>1, <1>3, <1>4, SoundOutcome, OnItsRow DEF RsReadBuffer
<1>6. ProtocolInv'
  BY <1>2, <1>3, <1>5, Fine, Kept
<1>7. Dataset!OnRow
  BY <1>2, <1>3 DEF Dataset!OnRow, EndedOf, Live
<1>8. position' = position /\ atEnd' = atEnd
  BY <1>2, <1>5 DEF position, atEnd
<1>9. Dataset!Read(num)
  BY <1>2, <1>3, <1>5, <1>7, <1>8, Words DEF Dataset!Read, Dataset!Answer, NoBytes
<1>. QED  BY <1>6, <1>9

LEMMA DestroyCall ==
  ASSUME ProtocolInv, destroy
  PROVE  ProtocolInv' /\ Dataset!Release
<1>1. PICK o \in RsDestroy(rs, lib) : rs' = o.rs /\ lib' = o.lib /\ ret' = o.ret
  BY DEF destroy, Call
<1>2. ~gone /\ gone' = TRUE /\ op' = <<"destroy">>
  BY DEF destroy, Call
<1>3. Typed(rs', lib') /\ ret' = Ok
  BY <1>1, <1>2, Here, DestroyMethod
<1>4. ProtocolInv'
  BY <1>2, <1>3, Fine DEF ProtocolInv, Running
<1>5. position' = 0 /\ atEnd' = FALSE
  BY <1>2 DEF position, atEnd
<1>. QED  BY <1>2, <1>3, <1>4, <1>5, Words DEF Dataset!Release

-----------------------------------------------------------------------------
(* The behaviours                                                          *)

LEMMA ProtocolInit == Init => ProtocolInv /\ Dataset!Init
<1> SUFFICES ASSUME Init PROVE ProtocolInv /\ Dataset!Init
  OBVIOUS
<1>1. /\ rs.m_cursorstate = {} /\ rs.m_handle = 0 /\ lib = <<>> /\ ~gone /\ ret = None
      /\ op = <<"none">>
  BY DEF Init, ResultInit, CLOSED, NoHandle
<1>2. rs \in Results
  <2>1. [c \in Columns |-> "unset"] \in [Columns -> Buffers]
    BY DEF Buffers
  <2>2. CLOSED \in CursorStates
    BY StatesReached
  <2>. QED  BY <2>1, <2>2 DEF Init, ResultInit, Results, Codes, NoHandle
<1>3. Typed(rs, lib)
  BY <1>1, <1>2 DEF Typed
<1>4. Unusable(rs)
  BY <1>1 DEF Unusable, IsOpen
<1>5. Tied(rs, lib)
  BY <1>1, <1>4, TiedIdle DEF Finalized, NoHandle
<1>6. ProtocolInv
  BY <1>1, <1>3, <1>5, Fine DEF ProtocolInv, Running, Init
<1>7. position = 0 /\ atEnd = FALSE
  BY <1>4 DEF position, atEnd
<1>. QED  BY <1>1, <1>6, <1>7, Words DEF Dataset!Init

LEMMA ProtocolStep ==
  ProtocolInv /\ [Protocol]_vars =>
    ProtocolInv' /\ [Dataset!Step]_(Dataset!vars)
<1> SUFFICES ASSUME ProtocolInv, [Protocol]_vars
             PROVE  ProtocolInv' /\ [Dataset!Step]_(Dataset!vars)
  OBVIOUS
<1> USE DEF Dataset!Step
<1>1. CASE ~IsPrepared(rs) /\ \E sql \in Queries : prepare(sql)
  BY <1>1, PrepareStep
<1>2. CASE /\ \A c \in Columns : rs.blobbuf[c] = "unset"
           /\ \E params \in Params : Grown(params) /\ execute(params)
  BY <1>2, ExecuteStep
<1>3. CASE first
  BY <1>3, FirstCall
<1>4. CASE CanMove /\ next
  BY <1>4, NextStep
<1>5. CASE OnLiveRow /\ \E num \in 1 .. Width + 1 : column(num) \/ getBlob(num)
  <2>1. PICK num : num \in 1 .. Width + 1 /\ (column(num) \/ getBlob(num))
    BY <1>5
  <2>2. num \in ColumnNumbers
    BY <2>1, WidthAssumption DEF ColumnNumbers
  <2>3. ProtocolInv' /\ Dataset!Read(num)
    BY <1>5, <2>1, ColumnCall, GetBlobCall
  <2>. QED  BY <2>2, <2>3
<1>6. CASE OnLiveRow /\ \E num \in Columns : readBuffer(num)
  <2>1. PICK num \in Columns : readBuffer(num)
    BY <1>6
  <2>2. num \in ColumnNumbers
    BY WidthAssumption DEF ColumnNumbers, Columns
  <2>3. ProtocolInv' /\ Dataset!Read(num)
    BY <1>6, <2>1, ReadBufferCall
  <2>. QED  BY <2>2, <2>3
<1>7. CASE Question
  <2>1. CASE eof
    BY <2>1, EofCall
  <2>2. CASE getCurrentRowID
    BY <2>2, RowIDCall
  <2>3. CASE \/ paramCount \/ lastInsertRowId
             \/ \E num \in ColumnNumbers : columnID(num) \/ describeColumn(num)
    BY <2>3, AskCall
  <2>. QED  BY <1>7, <2>1, <2>2, <2>3 DEF Question
<1>8. CASE destroy
  BY <1>8, DestroyCall
<1>9. CASE UNCHANGED vars
  <2>1. ProtocolInv'
    BY <1>9 DEF ProtocolInv, Running, Typed, Tied, vars
  <2>2. UNCHANGED Dataset!vars
    BY <1>9 DEF vars, Dataset!vars, position, atEnd
  <2>. QED  BY <2>1, <2>2
<1>. QED
  BY <1>1, <1>2, <1>3, <1>4, <1>5, <1>6, <1>7, <1>8, <1>9 DEF Protocol

\* The invariant holds of every client that keeps the protocol.
THEOREM ProtocolInductive == ProtocolSpec => []ProtocolInv
<1>1. Init => ProtocolInv
  BY ProtocolInit
<1>2. ProtocolInv /\ [Protocol]_vars => ProtocolInv'
  BY ProtocolStep
<1>. QED  BY <1>1, <1>2, PTL DEF ProtocolSpec

\* No call of a client that keeps the protocol uses a finalized machine, a
\* buffer of a row that was left or freed bytes, or fails in an assert.
THEOREM AlwaysDefined == ProtocolSpec => []Defined
<1>1. ProtocolInv => Defined
  BY DEF ProtocolInv, Defined
<1>. QED  BY <1>1, ProtocolInductive, PTL

\* eof() is true exactly where the machine has no row, and the row number that
\* getCurrentRowID() gives is that of the machine.
THEOREM EofToldTrue == ProtocolSpec => []EofIsTrue
<1>1. ProtocolInv => EofIsTrue
  BY DEF ProtocolInv, Tied, EofIsTrue, OnRow, Live
<1>. QED  BY <1>1, ProtocolInductive, PTL

\* A SqliteResult_libsqlite implements the interface ForwardDataset: under the
\* position mapping every call is a step of the abstract dataset.
THEOREM Refinement == ProtocolSpec => ImplementsDataset
<1>1. Init => Dataset!Init
  BY ProtocolInit
<1>2. ProtocolInv /\ [Protocol]_vars => [Dataset!Step]_(Dataset!vars)
  BY ProtocolStep
<1>. QED
  BY <1>1, <1>2, ProtocolInductive, PTL
  DEF ProtocolSpec, ImplementsDataset, Dataset!Spec
=============================================================================
